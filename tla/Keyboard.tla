------------------------------ MODULE Keyboard ------------------------------
(***************************************************************************)
(* kernel/drivers/keyboard.c: the ring buffer between the IRQ1 handler and *)
(* keyboard_getchar, which sys_read calls from inside int 0x80.            *)
(*                                                                         *)
(* The handlers run with IF = 0 and are single actions; the reader is one  *)
(* action per memory access, because it runs with IF = 1 once it has slept *)
(* ("sti; hlt").  kbd_buffer is not volatile while kbd_tail is, so the     *)
(* compiler may put the load of the character before or after the store    *)
(* that frees its slot: both orders are modelled.                          *)
(***************************************************************************)
EXTENDS Integers, Sequences

CONSTANTS
  KBD_BUF_SIZE,   \* 256
  Keys            \* scancodes both tables map to a character

ASSUME KeyboardAssumption ==
  /\ KBD_BUF_SIZE \in Nat \ {0}
  /\ Keys \cap {"shift", "unshift", "release", "unmapped"} = {}

\* A scancode: the press or release of a shift key, the release of another
\* key, a key that maps to 0, or a key of Keys.
Scancodes == {"shift", "unshift", "release", "unmapped"} \cup Keys

\* scancode_to_ascii and scancode_to_ascii_shift: one character per key and
\* shift state.
Chars == BOOLEAN \X Keys
Empty == <<>>

Slots == 0..(KBD_BUF_SIZE - 1)
Inc(i) == (i + 1) % KBD_BUF_SIZE

VARIABLES
  kbd_buffer,
  kbd_head,
  kbd_tail,
  shift_held,
  IF_,         \* the interrupt flag
  pc,          \* where keyboard_getchar is; "idle": not called
  c,           \* its local
  ret          \* what it returned last

ring == <<kbd_buffer, kbd_head, shift_held>>
vars == <<ring, kbd_tail, IF_, pc, c, ret>>

\* keyboard_init; the shell has not read yet.
Init ==
  /\ kbd_buffer = [i \in Slots |-> Empty]
  /\ kbd_head = 0
  /\ kbd_tail = 0
  /\ shift_held = FALSE
  /\ IF_ = TRUE
  /\ pc = "idle"
  /\ c = Empty
  /\ ret = Empty

-----------------------------------------------------------------------------
(* Interrupts.  hlt ends when a handler returns.                           *)

\* Mutant: only a character ends the wait, as on a wait queue.
AwakeByKey ==
  pc' = IF pc = "halted" /\ kbd_head' # kbd_head THEN "check" ELSE pc

Awake == pc' = IF pc = "halted" THEN "check" ELSE pc

\* Store a character, or drop it when the buffer is full.
Push(ch) ==
  IF Inc(kbd_head) # kbd_tail
    THEN /\ kbd_buffer' = [kbd_buffer EXCEPT ![kbd_head] = ch]
         /\ kbd_head' = Inc(kbd_head)
    ELSE UNCHANGED <<kbd_buffer, kbd_head>>

keyboard_irq_handler(sc) ==
  /\ IF_
  /\ shift_held' = IF sc = "shift" THEN TRUE
                   ELSE IF sc = "unshift" THEN FALSE ELSE shift_held
  /\ IF sc \in Keys THEN Push(<<shift_held, sc>>) ELSE UNCHANGED <<kbd_buffer, kbd_head>>
  /\ Awake
  /\ UNCHANGED <<kbd_tail, IF_, c, ret>>

\* Any other interrupt, such as the timer's.
timer_irq ==
  /\ IF_
  /\ UNCHANGED <<ring, kbd_tail, IF_, c, ret>>
  /\ Awake

-----------------------------------------------------------------------------
(* keyboard_getchar.                                                       *)

\* The fd 0 branch, for some len > 0: int 0x80 is an interrupt gate, IF is 0.
sys_read ==
  /\ pc = "idle"
  /\ pc' = "check"
  /\ IF_' = FALSE
  /\ UNCHANGED <<ring, kbd_tail, c, ret>>

\* while (kbd_tail == kbd_head)
check ==
  /\ pc = "check"
  /\ pc' \in IF kbd_tail = kbd_head THEN {"hlt"} ELSE {"load", "bump"}
  /\ UNCHANGED <<ring, kbd_tail, IF_, c, ret>>

\* sti; hlt: no interrupt comes between the two.
hlt ==
  /\ pc = "hlt"
  /\ pc' = "halted"
  /\ IF_' = TRUE
  /\ UNCHANGED <<ring, kbd_tail, c, ret>>

\* The next turn of sys_read's loop, or the iret that ends the system call.
Return ==
  \/ pc' = "check" /\ UNCHANGED IF_
  \/ pc' = "idle" /\ IF_' = TRUE

\* The load first, then the store.
load ==
  /\ pc = "load"
  /\ c' = kbd_buffer[kbd_tail]
  /\ pc' = "store"
  /\ UNCHANGED <<ring, kbd_tail, IF_, ret>>

store ==
  /\ pc = "store"
  /\ kbd_tail' = Inc(kbd_tail)
  /\ ret' = c
  /\ c' = Empty
  /\ Return
  /\ UNCHANGED ring

\* The store first: the slot before kbd_tail is read after it has been freed.
bump ==
  /\ pc = "bump"
  /\ kbd_tail' = Inc(kbd_tail)
  /\ pc' = "late"
  /\ UNCHANGED <<ring, IF_, c, ret>>

Freed == (kbd_tail + KBD_BUF_SIZE - 1) % KBD_BUF_SIZE

\* Mutant: kbd_tail is read again.
lateReload ==
  /\ pc = "late"
  /\ ret' = kbd_buffer[kbd_tail]
  /\ Return
  /\ UNCHANGED <<ring, kbd_tail, c>>

late ==
  /\ pc = "late"
  /\ ret' = kbd_buffer[Freed]
  /\ Return
  /\ UNCHANGED <<ring, kbd_tail, c>>

Reader == check \/ hlt \/ load \/ store \/ bump \/ late

Next ==
  \/ \E sc \in Scancodes : keyboard_irq_handler(sc)
  \/ timer_irq
  \/ sys_read
  \/ Reader

Spec == Init /\ [][Next]_vars

\* The reader is not preempted for good and the PIT fires 100 times a second.
\* Nothing is assumed of the keyboard.
FairSpec == Spec /\ WF_vars(Reader) /\ WF_vars(timer_irq)

-----------------------------------------------------------------------------
(* Properties.                                                             *)

\* Every variable keeps its type: the handler and the reader keep both indices
\* inside kbd_buffer.
TypeOK ==
  /\ kbd_buffer \in [Slots -> Chars \cup {Empty}]
  /\ kbd_head \in Slots
  /\ kbd_tail \in Slots
  /\ shift_held \in BOOLEAN
  /\ IF_ \in BOOLEAN
  /\ pc \in {"idle", "check", "hlt", "halted", "load", "store", "bump", "late"}
  /\ c \in Chars \cup {Empty}
  /\ ret \in Chars \cup {Empty}

\* The slots whose character is still to be returned: from kbd_tail up to
\* kbd_head and, after the early store, the slot that is read late.
Unread == {i \in Slots :
             IF kbd_tail <= kbd_head THEN kbd_tail <= i /\ i < kbd_head
                                     ELSE kbd_tail <= i \/ i < kbd_head}
          \cup (IF pc = "late" THEN {Freed} ELSE {})

\* The handler overwrites no character that has not been returned, in either
\* order of the reader's two accesses: the one slot the ring keeps empty is
\* the one the reader may still be reading.
UnreadKept == [][ \A i \in Unread : kbd_buffer'[i] = kbd_buffer[i] ]_vars

\* The characters between two indices of the ring, oldest first.
Waiting(head, tail) == (head + KBD_BUF_SIZE - tail) % KBD_BUF_SIZE

QueueOf(buf, head, tail) ==
  [i \in 1..Waiting(head, tail) |-> buf[(tail + i - 1) % KBD_BUF_SIZE]]

Queue == QueueOf(kbd_buffer, kbd_head, kbd_tail)

\* What has been taken out last, returned or about to be.
Got == IF pc = "late" THEN kbd_buffer[Freed] ELSE ret

Fifo == INSTANCE BoundedFifo WITH
  Capacity <- KBD_BUF_SIZE - 1,
  q <- Queue,
  got <- Got

\* keyboard_getchar and the IRQ1 handler implement a bounded queue that drops
\* what does not fit: no character is duplicated, reordered or, once stored,
\* lost.
ImplementsFifo == Fifo!Spec

\* A reader that waits while a character is there takes it, even when the
\* key's interrupt came between the test and the hlt: the timer ends that hlt.
ReaderWakes ==
  \A t \in Slots :
    (pc \notin {"idle", "late"} /\ kbd_tail = t /\ kbd_head # t) ~> kbd_tail # t
=============================================================================
