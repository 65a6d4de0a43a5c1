--------------------------- MODULE KeyboardProofs ---------------------------
(***************************************************************************)
(* Proofs about Keyboard, for every size of the ring and every set of      *)
(* keys.  The inductive invariant says what the reader knows between two   *)
(* of its accesses; the queue of the abstract specification is the run of  *)
(* slots from kbd_tail to kbd_head.                                        *)
(***************************************************************************)
EXTENDS Keyboard, SequenceTheorems, TLAPS

N == KBD_BUF_SIZE

\* What % yields for the sums the ring indices are made of.
LEMMA ModN ==
  ASSUME NEW x \in Nat, x < 2 * N
  PROVE  x % N = IF x < N THEN x ELSE x - N
  BY KeyboardAssumption DEF N

LEMMA IncValue ==
  ASSUME NEW i \in Slots
  PROVE  /\ Inc(i) = IF i + 1 = N THEN 0 ELSE i + 1
         /\ Inc(i) \in Slots
<1>1. i + 1 \in Nat /\ i + 1 < 2 * N
  BY KeyboardAssumption DEF Slots, N
<1> QED
  BY <1>1, ModN, KeyboardAssumption DEF Slots, N, Inc

\* A reader that has left its loop knows that there is a character, keeps the
\* one it has loaded, and the slots are typed.
IInv ==
  /\ TypeOK
  /\ pc \in {"load", "store", "bump"} => kbd_head # kbd_tail
  /\ pc = "store" => c = kbd_buffer[kbd_tail]

LEMMA FreedValue ==
  ASSUME TypeOK
  PROVE  /\ Freed = IF kbd_tail = 0 THEN N - 1 ELSE kbd_tail - 1
         /\ Freed \in Slots
         /\ Inc(Freed) = kbd_tail
<1>1. kbd_tail + N - 1 \in Nat /\ kbd_tail + N - 1 < 2 * N
  BY KeyboardAssumption DEF TypeOK, Slots, N
<1>2. Freed = IF kbd_tail = 0 THEN N - 1 ELSE kbd_tail - 1
  <2> DEFINE x == kbd_tail + N - 1
  <2>1. x % N = IF x < N THEN x ELSE x - N
    <3> HIDE DEF x
    <3> QED  BY <1>1, ModN DEF x
  <2>2. Freed = x % N
    BY DEF Freed, N
  <2> QED
    BY <2>1, <2>2, KeyboardAssumption DEF TypeOK, Slots, N
<1>3. Freed \in Slots
  BY <1>2, KeyboardAssumption DEF TypeOK, Slots, N
<1> QED
  BY <1>2, <1>3, IncValue, KeyboardAssumption DEF TypeOK, Slots, N

\* What Push does, slot by slot.
LEMMA PushEffect ==
  ASSUME TypeOK, NEW ch \in Chars, Push(ch)
  PROVE  /\ kbd_buffer' \in [Slots -> Chars \cup {Empty}]
         /\ kbd_head' \in Slots
         /\ Inc(kbd_head) = kbd_tail => kbd_buffer' = kbd_buffer /\ kbd_head' = kbd_head
         /\ Inc(kbd_head) # kbd_tail =>
              /\ kbd_head' = Inc(kbd_head)
              /\ \A i \in Slots : kbd_buffer'[i] = IF i = kbd_head THEN ch ELSE kbd_buffer[i]
  BY IncValue DEF TypeOK, Push

LEMMA Inductive ==
  ASSUME IInv, [Next]_vars
  PROVE  IInv'
<1> USE DEF IInv
<1>1. ASSUME NEW sc \in Scancodes, keyboard_irq_handler(sc) PROVE IInv'
  <2>1. shift_held' \in BOOLEAN
    BY <1>1, Zenon DEF keyboard_irq_handler, TypeOK
  <2>2. CASE sc \in Keys
    <3>1. <<shift_held, sc>> \in Chars
      BY <2>2 DEF Chars, TypeOK
    <3>2. Push(<<shift_held, sc>>)
      BY <1>1, <2>2 DEF keyboard_irq_handler
    <3>3. kbd_tail' = kbd_tail /\ IF_' = IF_ /\ c' = c /\ ret' = ret
      BY <1>1 DEF keyboard_irq_handler
    <3>4. pc' = IF pc = "halted" THEN "check" ELSE pc
      BY <1>1 DEF keyboard_irq_handler, Awake
    <3>5. TypeOK'
      BY <2>1, <3>1, <3>2, <3>3, <3>4, PushEffect DEF TypeOK
    <3>6. kbd_head # kbd_tail => kbd_head' # kbd_tail
      BY <3>1, <3>2, PushEffect
    <3>7. kbd_head # kbd_tail => kbd_buffer'[kbd_tail] = kbd_buffer[kbd_tail]
      BY <3>1, <3>2, PushEffect DEF TypeOK
    <3> QED
      BY <3>3, <3>4, <3>5, <3>6, <3>7
  <2>3. CASE sc \notin Keys
    BY <1>1, <2>1, <2>3, Zenon DEF keyboard_irq_handler, Awake, TypeOK
  <2> QED
    BY <2>2, <2>3
<1>2. CASE timer_irq
  BY <1>2 DEF timer_irq, Awake, TypeOK, ring
<1>3. CASE sys_read
  BY <1>3, Zenon DEF sys_read, TypeOK, ring
<1>4. CASE check
  BY <1>4 DEF check, TypeOK, ring
<1>5. CASE hlt
  BY <1>5 DEF hlt, TypeOK, ring
<1>6. CASE load
  BY <1>6 DEF load, TypeOK, ring
<1>7. CASE store
  BY <1>7, IncValue, Zenon DEF store, Return, TypeOK, ring
<1>8. CASE bump
  BY <1>8, IncValue DEF bump, TypeOK, ring
<1>9. CASE late
  BY <1>9, FreedValue, Zenon DEF late, Return, TypeOK, ring
<1>10. CASE UNCHANGED vars
  BY <1>10 DEF vars, TypeOK, ring
<1> QED
  BY <1>1, <1>2, <1>3, <1>4, <1>5, <1>6, <1>7, <1>8, <1>9, <1>10 DEF Next, Reader

LEMMA Initial == Init => IInv
<1> SUFFICES ASSUME Init PROVE IInv
  OBVIOUS
<1>1. shift_held \in BOOLEAN /\ IF_ \in BOOLEAN
  BY Zenon DEF Init
<1>2. kbd_head \in Slots /\ kbd_tail \in Slots
  BY KeyboardAssumption DEF Init, Slots
<1>3. kbd_buffer \in [Slots -> Chars \cup {Empty}]
  BY DEF Init
<1> QED
  BY <1>1, <1>2, <1>3 DEF Init, IInv, TypeOK

\* The indices never leave the ring and the reader's local is typed.
THEOREM TypeCorrect == Spec => []TypeOK
<1>1. IInv => TypeOK
  BY DEF IInv
<1> QED
  BY <1>1, Initial, Inductive, PTL DEF Spec

-----------------------------------------------------------------------------

\* The slot a character goes to holds none that is still to be returned.
LEMMA HeadNotUnread ==
  ASSUME TypeOK, Inc(kbd_head) # kbd_tail
  PROVE  kbd_head \notin Unread
<1>1. kbd_head # Freed
  BY FreedValue
<1> QED
  BY <1>1 DEF Unread, TypeOK, Slots

LEMMA UnreadStep ==
  ASSUME TypeOK, [Next]_vars
  PROVE  \A i \in Unread : kbd_buffer'[i] = kbd_buffer[i]
<1>0. Unread \subseteq Slots
  BY FreedValue DEF Unread
<1>1. ASSUME NEW sc \in Keys, keyboard_irq_handler(sc)
      PROVE  \A i \in Unread : kbd_buffer'[i] = kbd_buffer[i]
  <2>1. <<shift_held, sc>> \in Chars
    BY <1>1 DEF Chars, TypeOK
  <2>2. Push(<<shift_held, sc>>)
    BY <1>1 DEF keyboard_irq_handler
  <2> QED
    BY <1>0, <2>1, <2>2, PushEffect, HeadNotUnread
<1>2. ASSUME NEW sc \in Scancodes \ Keys, keyboard_irq_handler(sc)
      PROVE  kbd_buffer' = kbd_buffer
  BY <1>2 DEF keyboard_irq_handler
<1>3. ASSUME timer_irq \/ sys_read \/ Reader \/ UNCHANGED vars
      PROVE  kbd_buffer' = kbd_buffer
  BY <1>3 DEF timer_irq, sys_read, Reader, check, hlt, load, store, bump, late, vars, ring
<1> QED
  BY <1>1, <1>2, <1>3 DEF Next

\* The IRQ1 handler never overwrites a character that is still to be returned,
\* whichever way the compiler orders keyboard_getchar's two accesses.
THEOREM UnreadSafe == Spec => UnreadKept
<1>1. TypeOK /\ [Next]_vars => [\A i \in Unread : kbd_buffer'[i] = kbd_buffer[i]]_vars
  BY UnreadStep
<1> QED
  BY <1>1, TypeCorrect, PTL DEF Spec, UnreadKept

-----------------------------------------------------------------------------
(* The refinement.                                                         *)

LEMMA WaitingValue ==
  ASSUME NEW h \in Slots, NEW t \in Slots
  PROVE  /\ Waiting(h, t) = IF t <= h THEN h - t ELSE h + N - t
         /\ Waiting(h, t) \in 0..(N - 1)
<1> DEFINE x == h + N - t
<1>1. x \in Nat /\ x < 2 * N
  BY KeyboardAssumption DEF Slots, N
<1>2. x % N = IF x < N THEN x ELSE x - N
  <2> HIDE DEF x
  <2> QED  BY <1>1, ModN
<1>3. Waiting(h, t) = x % N
  BY DEF Waiting, N
<1> QED
  BY <1>2, <1>3, KeyboardAssumption DEF Slots, N

\* The slot of the i-th waiting character.
Place(t, i) == (t + i - 1) % N

LEMMA PlaceValue ==
  ASSUME NEW t \in Slots, NEW i \in 1..N
  PROVE  /\ Place(t, i) = IF t + i - 1 < N THEN t + i - 1 ELSE t + i - 1 - N
         /\ Place(t, i) \in Slots
<1> DEFINE x == t + i - 1
<1>1. x \in Nat /\ x < 2 * N
  BY KeyboardAssumption DEF Slots, N
<1>2. x % N = IF x < N THEN x ELSE x - N
  <2> HIDE DEF x
  <2> QED  BY <1>1, ModN
<1>3. Place(t, i) = x % N
  BY DEF Place
<1> QED
  BY <1>1, <1>2, <1>3, KeyboardAssumption DEF Slots, N

\* What a slot may hold.
Cells == Chars \cup {Empty}

LEMMA QueueIsSeq ==
  ASSUME NEW buf \in [Slots -> Cells], NEW h \in Slots, NEW t \in Slots
  PROVE  /\ QueueOf(buf, h, t) \in Seq(Cells)
         /\ Len(QueueOf(buf, h, t)) = Waiting(h, t)
         /\ \A i \in 1..Waiting(h, t) : QueueOf(buf, h, t)[i] = buf[Place(t, i)]
<1> DEFINE n == Waiting(h, t)
           s == QueueOf(buf, h, t)
<1>1. n \in Nat /\ n < N
  BY WaitingValue, KeyboardAssumption DEF N
<1>2. \A i \in 1..n : Place(t, i) \in Slots
  BY <1>1, PlaceValue, KeyboardAssumption DEF N
<1>3. s = [i \in 1..n |-> buf[Place(t, i)]]
  BY DEF QueueOf, Place, N
<1>4. s \in [1..n -> Cells]
  <2> HIDE DEF n
  <2> QED  BY <1>2, <1>3
<1>5. s \in Seq(Cells)
  <2> HIDE DEF n, s
  <2> QED  BY <1>1, <1>4, SeqDef
<1>6. DOMAIN s = 1..n
  BY <1>3
<1>7. Len(s) = n
  <2> HIDE DEF n, s
  <2> QED  BY <1>1, <1>5, <1>6, LenProperties
<1> QED
  BY <1>3, <1>5, <1>7, Zenon

\* Storing a character at head appends it.
LEMMA QueueAppend ==
  ASSUME NEW buf \in [Slots -> Cells], NEW h \in Slots, NEW t \in Slots,
         Inc(h) # t, NEW ch \in Cells, NEW buf2 \in [Slots -> Cells],
         \A i \in Slots : buf2[i] = IF i = h THEN ch ELSE buf[i]
  PROVE  /\ QueueOf(buf2, Inc(h), t) = Append(QueueOf(buf, h, t), ch)
         /\ Waiting(h, t) < N - 1
<1> DEFINE n == Waiting(h, t)
           s == QueueOf(buf, h, t)
           s2 == QueueOf(buf2, Inc(h), t)
<1>a. Inc(h) \in Slots /\ Inc(h) = IF h + 1 = N THEN 0 ELSE h + 1
  BY IncValue
<1>b. /\ n = IF t <= h THEN h - t ELSE h + N - t
      /\ Waiting(Inc(h), t) = IF t <= Inc(h) THEN Inc(h) - t ELSE Inc(h) + N - t
  BY <1>a, WaitingValue
<1>1. n < N - 1 /\ n \in Nat /\ Waiting(Inc(h), t) = n + 1
  <2> HIDE DEF n
  <2> QED  BY <1>a, <1>b, KeyboardAssumption DEF Slots, N
<1>c. \A i \in 1..(n + 1) :
        /\ Place(t, i) = IF t + i - 1 < N THEN t + i - 1 ELSE t + i - 1 - N
        /\ Place(t, i) \in Slots
  <2> HIDE DEF n
  <2> TAKE i \in 1..(n + 1)
  <2>1. i \in 1..N
    BY <1>1, KeyboardAssumption DEF N
  <2> QED
    BY <2>1, PlaceValue
<1>2. Place(t, n + 1) = h
  <2> HIDE DEF n
  <2> QED  BY <1>1, <1>b, <1>c, KeyboardAssumption DEF Slots, N
<1>3. ASSUME NEW i \in 1..n PROVE Place(t, i) \in Slots /\ Place(t, i) # h
  <2> HIDE DEF n
  <2> QED  BY <1>1, <1>b, <1>c, KeyboardAssumption DEF Slots, N
<1>4. s \in Seq(Cells) /\ Len(s) = n /\ \A i \in 1..n : s[i] = buf[Place(t, i)]
  BY QueueIsSeq
<1>5. Inc(h) \in Slots
  BY IncValue
<1>d. /\ s2 \in Seq(Cells)
      /\ Len(s2) = Waiting(Inc(h), t)
      /\ \A i \in 1..Waiting(Inc(h), t) : s2[i] = buf2[Place(t, i)]
  BY <1>5, QueueIsSeq, Zenon
<1>6. s2 \in Seq(Cells) /\ Len(s2) = n + 1 /\ \A i \in 1..(n + 1) : s2[i] = buf2[Place(t, i)]
  <2> HIDE DEF n, s2
  <2> QED  BY <1>1, <1>d
<1> HIDE DEF n, s, s2
<1>7. /\ Append(s, ch) \in Seq(Cells)
      /\ Len(Append(s, ch)) = n + 1
      /\ \A i \in 1..n : Append(s, ch)[i] = s[i]
      /\ Append(s, ch)[n + 1] = ch
  BY <1>4, AppendProperties
<1>8. \A i \in 1..(n + 1) : s2[i] = Append(s, ch)[i]
  <2> TAKE i \in 1..(n + 1)
  <2>1. CASE i = n + 1
    BY <2>1, <1>2, <1>6, <1>7
  <2>2. CASE i \in 1..n
    BY <2>2, <1>3, <1>4, <1>6, <1>7
  <2>3. i = n + 1 \/ i \in 1..n
    BY <1>1
  <2> QED
    BY <2>1, <2>2, <2>3, Zenon
<1>9. s2 = Append(s, ch)
  BY <1>6, <1>7, <1>8, SeqEqual
<1> QED
  BY <1>1, <1>9 DEF n, s, s2

\* Moving tail takes the first character out.
LEMMA QueueTail ==
  ASSUME NEW buf \in [Slots -> Cells], NEW h \in Slots, NEW t \in Slots, h # t
  PROVE  /\ QueueOf(buf, h, t) # <<>>
         /\ Head(QueueOf(buf, h, t)) = buf[t]
         /\ QueueOf(buf, h, Inc(t)) = Tail(QueueOf(buf, h, t))
<1> DEFINE n == Waiting(h, t)
           s == QueueOf(buf, h, t)
           s2 == QueueOf(buf, h, Inc(t))
<1>a. Inc(t) \in Slots /\ Inc(t) = IF t + 1 = N THEN 0 ELSE t + 1
  BY IncValue
<1>b. /\ n = IF t <= h THEN h - t ELSE h + N - t
      /\ Waiting(h, Inc(t)) = IF Inc(t) <= h THEN h - Inc(t) ELSE h + N - Inc(t)
  BY <1>a, WaitingValue
<1>1. n \in 1..(N - 1) /\ Waiting(h, Inc(t)) = n - 1
  <2> HIDE DEF n
  <2> QED  BY <1>a, <1>b, KeyboardAssumption DEF Slots, N
<1>2. Place(t, 1) = t
  BY <1>1, PlaceValue, KeyboardAssumption DEF Slots, N
<1>3. ASSUME NEW i \in 1..(n - 1) PROVE Place(Inc(t), i) = Place(t, i + 1)
  <2>1. i \in 1..N /\ i + 1 \in 1..N
    BY <1>1, KeyboardAssumption DEF N
  <2>2. Place(t, i + 1) = IF t + (i + 1) - 1 < N THEN t + (i + 1) - 1 ELSE t + (i + 1) - 1 - N
    BY <2>1, PlaceValue
  <2>3. Place(Inc(t), i) = IF Inc(t) + i - 1 < N THEN Inc(t) + i - 1 ELSE Inc(t) + i - 1 - N
    BY <2>1, <1>a, PlaceValue
  <2> QED
    BY <2>1, <2>2, <2>3, <1>a, KeyboardAssumption DEF Slots, N
<1>4. s \in Seq(Cells) /\ Len(s) = n /\ \A i \in 1..n : s[i] = buf[Place(t, i)]
  BY QueueIsSeq
<1>5. Inc(t) \in Slots
  BY IncValue
<1>d. /\ s2 \in Seq(Cells)
      /\ Len(s2) = Waiting(h, Inc(t))
      /\ \A i \in 1..Waiting(h, Inc(t)) : s2[i] = buf[Place(Inc(t), i)]
  BY <1>5, QueueIsSeq, Zenon
<1>6. s2 \in Seq(Cells) /\ Len(s2) = n - 1 /\ \A i \in 1..(n - 1) : s2[i] = buf[Place(Inc(t), i)]
  <2> HIDE DEF n, s2
  <2> QED  BY <1>1, <1>d
<1> HIDE DEF n, s, s2
<1>7. s # <<>>
  BY <1>1, <1>4
<1>8. Tail(s) \in Seq(Cells) /\ Len(Tail(s)) = n - 1 /\ \A i \in 1..(n - 1) : Tail(s)[i] = s[i + 1]
  BY <1>4, <1>7, HeadTailProperties
<1>9. ASSUME NEW i \in 1..(n - 1) PROVE s2[i] = Tail(s)[i]
  <2>1. i + 1 \in 1..n
    BY <1>1
  <2> QED
    BY <2>1, <1>3, <1>4, <1>6, <1>8
<1>10. s2 = Tail(s)
  BY <1>6, <1>8, <1>9, SeqEqual
<1>11. Head(s) = s[1]
  BY <1>4, <1>7
<1>12. s[1] = buf[t]
  BY <1>1, <1>2, <1>4
<1> QED
  BY <1>7, <1>10, <1>11, <1>12 DEF n, s, s2

LEMMA FifoInit == Init => Fifo!Init
<1> SUFFICES ASSUME Init PROVE Fifo!Init
  OBVIOUS
<1>1. Got = <<>>
  BY DEF Init, Got, Empty
<1>2. TypeOK
  BY Initial DEF IInv
<1>3. Waiting(kbd_head, kbd_tail) = 0
  <2>1. Waiting(kbd_head, kbd_tail) = kbd_head - kbd_tail
    BY <1>2, WaitingValue DEF Init, TypeOK, Slots
  <2> QED
    BY <2>1 DEF Init
<1>4. Queue \in Seq(Cells) /\ Len(Queue) = 0
  BY <1>2, <1>3, QueueIsSeq DEF Queue, TypeOK, Cells
<1>5. Queue = <<>>
  BY <1>4, EmptySeq, SeqEqual
<1> QED
  BY <1>1, <1>5 DEF Fifo!Init

\* A step that moves neither index nor a slot, nor what was taken out.
LEMMA FifoStutter ==
  ASSUME kbd_buffer' = kbd_buffer, kbd_head' = kbd_head, kbd_tail' = kbd_tail, Got' = Got
  PROVE  [Fifo!Next]_(Fifo!vars)
  BY DEF Fifo!vars, Queue

\* A step that moves kbd_tail and takes the oldest character out.
LEMMA FifoRead ==
  ASSUME TypeOK, kbd_head # kbd_tail,
         kbd_buffer' = kbd_buffer, kbd_head' = kbd_head, kbd_tail' = Inc(kbd_tail),
         Got' = kbd_buffer[kbd_tail]
  PROVE  [Fifo!Next]_(Fifo!vars)
<1>1. /\ Queue # <<>>
      /\ Head(Queue) = kbd_buffer[kbd_tail]
      /\ QueueOf(kbd_buffer, kbd_head, Inc(kbd_tail)) = Tail(Queue)
  BY QueueTail DEF TypeOK, Queue, Cells
<1>2. Queue' = QueueOf(kbd_buffer, kbd_head, Inc(kbd_tail))
  BY DEF Queue
<1> QED
  BY <1>1, <1>2 DEF Fifo!Next, Fifo!Read

LEMMA FifoStep ==
  ASSUME IInv, IInv', [Next]_vars
  PROVE  [Fifo!Next]_(Fifo!vars)
<1> USE DEF IInv
<1>1. ASSUME NEW sc \in Scancodes, keyboard_irq_handler(sc)
      PROVE  [Fifo!Next]_(Fifo!vars)
  <2>1. kbd_tail' = kbd_tail /\ ret' = ret /\ (pc' = "late" <=> pc = "late")
    BY <1>1 DEF keyboard_irq_handler, Awake
  <2>2. Freed' = Freed
    BY <2>1 DEF Freed
  <2>3. CASE sc \in Keys /\ Inc(kbd_head) # kbd_tail
    <3> DEFINE ch == <<shift_held, sc>>
    <3>1. ch \in Chars /\ Push(ch)
      BY <1>1, <2>3 DEF Chars, TypeOK, keyboard_irq_handler
    <3> HIDE DEF ch
    <3>2. /\ kbd_head' = Inc(kbd_head)
          /\ kbd_buffer' \in [Slots -> Cells]
          /\ \A i \in Slots : kbd_buffer'[i] = IF i = kbd_head THEN ch ELSE kbd_buffer[i]
      BY <2>3, <3>1, PushEffect DEF Cells
    <3>3. /\ QueueOf(kbd_buffer', Inc(kbd_head), kbd_tail) = Append(Queue, ch)
          /\ Waiting(kbd_head, kbd_tail) < N - 1
      <4>1. /\ kbd_buffer \in [Slots -> Cells] /\ kbd_head \in Slots
            /\ kbd_tail \in Slots /\ ch \in Cells
        BY <3>1 DEF TypeOK, Cells
      <4> QED
        BY ONLY <2>3, <3>2, <4>1, QueueAppend DEF Queue
    <3>4. Queue' = Append(Queue, ch)
      BY <2>1, <3>2, <3>3 DEF Queue
    <3>5. Len(Queue) < KBD_BUF_SIZE - 1
      <4>1. Len(Queue) = Waiting(kbd_head, kbd_tail)
        BY QueueIsSeq DEF TypeOK, Queue, Cells
      <4> QED
        BY <3>3, <4>1 DEF N
    <3>6. kbd_buffer'[Freed] = kbd_buffer[Freed]
      BY <2>3, <3>2, FreedValue
    <3>7. Got' = Got
      BY <2>1, <2>2, <3>6 DEF Got
    <3>8. Fifo!Type(ch)
      BY <3>4, <3>5, <3>7 DEF Fifo!Type
    <3> QED
      BY <3>1, <3>8 DEF Fifo!Next
  <2>4. CASE ~(sc \in Keys /\ Inc(kbd_head) # kbd_tail)
    <3>1. kbd_buffer' = kbd_buffer /\ kbd_head' = kbd_head
      BY <1>1, <2>4 DEF keyboard_irq_handler, Push
    <3>2. Got' = Got
      BY <2>1, <2>2, <3>1 DEF Got
    <3> QED
      BY <2>1, <3>1, <3>2, FifoStutter
  <2> QED
    BY <2>3, <2>4
<1>2. CASE timer_irq \/ sys_read \/ check \/ hlt \/ load \/ UNCHANGED vars
  <2>1. /\ kbd_buffer' = kbd_buffer /\ kbd_head' = kbd_head /\ kbd_tail' = kbd_tail
        /\ ret' = ret /\ (pc' = "late" <=> pc = "late")
    BY <1>2 DEF timer_irq, Awake, sys_read, check, hlt, load, vars, ring
  <2>2. Got' = Got
    BY <2>1 DEF Got, Freed
  <2> QED
    BY <2>1, <2>2, FifoStutter
<1>3. CASE store
  <2>1. /\ kbd_buffer' = kbd_buffer /\ kbd_head' = kbd_head /\ kbd_tail' = Inc(kbd_tail)
        /\ ret' = c /\ pc' # "late" /\ c = kbd_buffer[kbd_tail] /\ kbd_head # kbd_tail
    BY <1>3 DEF store, Return, ring
  <2>2. Got' = kbd_buffer[kbd_tail]
    BY <2>1 DEF Got
  <2> QED
    BY <2>1, <2>2, FifoRead
<1>4. CASE bump
  <2>1. /\ kbd_buffer' = kbd_buffer /\ kbd_head' = kbd_head /\ kbd_tail' = Inc(kbd_tail)
        /\ pc' = "late" /\ kbd_head # kbd_tail
    BY <1>4 DEF bump, ring
  <2>2. Freed' = kbd_tail
    <3>1. Freed' = IF kbd_tail' = 0 THEN N - 1 ELSE kbd_tail' - 1
      <4>1. (TypeOK => Freed = IF kbd_tail = 0 THEN N - 1 ELSE kbd_tail - 1)'
        BY FreedValue, PTL
      <4> QED  BY <4>1 DEF N
    <3> QED
      BY <2>1, <3>1, IncValue, KeyboardAssumption DEF TypeOK, Slots, N
  <2>3. Got' = kbd_buffer[kbd_tail]
    BY <2>1, <2>2 DEF Got
  <2> QED
    BY <2>1, <2>3, FifoRead
<1>5. CASE late
  <2>1. /\ kbd_buffer' = kbd_buffer /\ kbd_head' = kbd_head /\ kbd_tail' = kbd_tail
        /\ ret' = kbd_buffer[Freed] /\ pc = "late" /\ pc' # "late"
    BY <1>5 DEF late, Return, ring
  <2>2. Got' = Got
    BY <2>1 DEF Got
  <2> QED
    BY <2>1, <2>2, FifoStutter
<1> QED
  BY <1>1, <1>2, <1>3, <1>4, <1>5 DEF Next, Reader

\* keyboard.c implements the bounded queue keyboard.h promises, for every ring
\* size: characters come out of keyboard_getchar once each, in order.
THEOREM Refinement == Spec => ImplementsFifo
<1>1. IInv /\ IInv' /\ [Next]_vars => [Fifo!Next]_(Fifo!vars)
  BY FifoStep
<1> QED
  BY <1>1, FifoInit, Initial, Inductive, PTL DEF Spec, ImplementsFifo, Fifo!Spec
=============================================================================
