----------------------------- MODULE Scheduler -----------------------------
(***************************************************************************)
(* The run queue, the context switch and the two ways into them: the timer *)
(* interrupt and sys_exit (kernel/proc/scheduler.c, process.c, exec.c,     *)
(* context_switch.asm, with irq_handler of arch/irq.c, tss.c and sys_exit  *)
(* of syscall.c).                                                          *)
(*                                                                         *)
(* The CPU is one: a handler runs with IF = 0, so only what happens with   *)
(* IF = 1 interleaves.  scheduler_tick's search is one action per          *)
(* iteration, scheduler_add is two: a tick may come between its stores.    *)
(*                                                                         *)
(* irq_handlers[0] is scheduler_tick, as the comments of scheduler.c and   *)
(* timer.c have it, or kernel.c's timer_irq_tick, which is what kmain      *)
(* registers; both are in Handlers.                                        *)
(***************************************************************************)
EXTENDS Integers, Sequences, FiniteSets

CONSTANTS
  Procs,        \* process_t's that exist or may be created
  Idle,         \* the one scheduler_init creates: kmain itself
  NULL,
  Boot,         \* the boot stack kmain runs on
  KernelDir,    \* kernel_dir
  UserDirs,     \* other page directories
  SearchBound,  \* "total" in scheduler_tick: 64
  TickMod,      \* tick_count wraps here (2^32)
  Handlers      \* what IRQ0 may be registered with

ASSUME SchedulerAssumption ==
  /\ Idle \in Procs
  /\ NULL \notin Procs
  /\ Boot \notin Procs
  /\ IsFiniteSet(Procs)
  /\ SearchBound \in Nat
  /\ TickMod \in Nat \ {0}
  /\ Handlers \subseteq {"scheduler_tick", "timer_irq_tick"}

States == {"FREE", "READY", "RUNNING", "ZOMBIE"}
Frames == {"none", "kthread", "iret", "tick", "exit"}
Modes == {"run", "irq", "tick", "exit", "halted"}

VARIABLES
  state,        \* p->state; FREE: no such process
  next,         \* p->next
  current,
  run_queue,
  page_dir,     \* p->page_dir
  frame,        \* what p->esp points at: where context_switch returns to
  stack,        \* whose stack p->esp lies on
  esp,          \* whose stack the CPU is on
  esp0,         \* whose stack tss.esp0 is the top of
  cr3,
  IF_,          \* the interrupt flag
  in_service,   \* IRQ0's in-service bit in the PIC
  mode,         \* what the CPU executes; tick, exit: scheduler_tick's loop
  cursor,       \* scheduler_tick's next
  steps,        \* scheduler_tick's steps
  tick_count,
  irq0_handler, \* irq_handlers[0]
  adding,       \* scheduler_add's p between its two stores
  pos           \* auxiliary: place of a linked process, run_queue is at 0

cpu == <<esp, esp0, cr3, IF_, in_service>>
search == <<cursor, steps>>
pcb == <<page_dir, frame, stack>>
vars == <<state, next, current, run_queue, pcb, cpu, mode, search,
          tick_count, irq0_handler, adding, pos>>

\* The processes linked in the ring, and how many they are.
Ring == {p \in Procs : pos[p] # -1}
RingSize == Cardinality(Ring)

\* The place after i.
Succ(i) == IF i + 1 = RingSize THEN 0 ELSE i + 1

-----------------------------------------------------------------------------
(* kmain after scheduler_init: the idle process is current, but what runs  *)
(* is kmain, on the boot stack that tss_init installed.                    *)

Init ==
  /\ state = [p \in Procs |-> IF p = Idle THEN "RUNNING" ELSE "FREE"]
  /\ next = [p \in Procs |-> IF p = Idle THEN Idle ELSE NULL]
  /\ current = Idle
  /\ run_queue = Idle
  /\ page_dir = [p \in Procs |-> KernelDir]
  /\ frame = [p \in Procs |-> IF p = Idle THEN "kthread" ELSE "none"]
  /\ stack = [p \in Procs |-> p]
  /\ esp = Boot
  /\ esp0 = Boot
  /\ cr3 = KernelDir
  /\ IF_ = TRUE
  /\ in_service = FALSE
  /\ mode = "run"
  /\ cursor = NULL
  /\ steps = 0
  /\ tick_count = 0
  /\ irq0_handler \in Handlers
  /\ adding = NULL
  /\ pos = [p \in Procs |-> IF p = Idle THEN 0 ELSE -1]

-----------------------------------------------------------------------------
(* Creating and linking.  kmain is the only caller of exec.                *)

\* Mutant: the new process is linked to run_queue instead of its successor.
createLost(p, f, dir) ==
  /\ mode = "run"
  /\ current = Idle
  /\ adding = NULL
  /\ state[p] = "FREE"
  /\ state' = [state EXCEPT ![p] = "READY"]
  /\ page_dir' = [page_dir EXCEPT ![p] = dir]
  /\ frame' = [frame EXCEPT ![p] = f]
  /\ stack' = [stack EXCEPT ![p] = p]
  /\ next' = [next EXCEPT ![p] = run_queue]
  /\ adding' = p
  /\ UNCHANGED <<current, run_queue, cpu, mode, search, tick_count, pos, irq0_handler>>

\* process_create (kthread frame, the kernel's directory) or
\* process_create_user (iret frame, its own), then scheduler_add's first half.
create(p, f, dir) ==
  /\ mode = "run"
  /\ current = Idle
  /\ adding = NULL
  /\ state[p] = "FREE"
  /\ state' = [state EXCEPT ![p] = "READY"]
  /\ page_dir' = [page_dir EXCEPT ![p] = dir]
  /\ frame' = [frame EXCEPT ![p] = f]
  /\ stack' = [stack EXCEPT ![p] = p]
  /\ next' = [next EXCEPT ![p] = next[run_queue]]
  /\ adding' = p
  /\ UNCHANGED <<current, run_queue, cpu, mode, search, tick_count, pos, irq0_handler>>

process_create(p) == create(p, "kthread", KernelDir)
process_create_user(p, dir) == create(p, "iret", dir)

\* scheduler_add's second half: the new process comes right after run_queue.
scheduler_add ==
  /\ mode = "run"
  /\ current = Idle
  /\ adding # NULL
  /\ next' = [next EXCEPT ![run_queue] = adding]
  /\ pos' = [p \in Procs |-> CASE p = adding -> 1
                               [] p # adding /\ pos[p] >= 1 -> pos[p] + 1
                               [] OTHER -> pos[p]]
  /\ adding' = NULL
  /\ UNCHANGED <<state, current, run_queue, pcb, cpu, mode, search, tick_count, irq0_handler>>

\* scheduler_remove and process_destroy.  Nothing calls them yet: this is the
\* use process.h allows, on a zombie, not in the middle of a scheduler_add.
reap(p) ==
  /\ mode = "run"
  /\ adding = NULL
  /\ state[p] = "ZOMBIE"
  /\ p # current
  /\ \E prev \in Ring :
       /\ next[prev] = p
       /\ next' = [next EXCEPT ![prev] = next[p], ![p] = NULL]
  /\ run_queue' = IF run_queue = p THEN next[p] ELSE run_queue
  /\ state' = [state EXCEPT ![p] = "FREE"]
  /\ frame' = [frame EXCEPT ![p] = "none"]
  /\ pos' = [q \in Procs |-> CASE q = p -> -1
                               [] q # p /\ pos[q] > pos[p] -> pos[q] - 1
                               [] OTHER -> pos[q]]
  /\ UNCHANGED <<current, page_dir, stack, cpu, mode, search, tick_count, adding, irq0_handler>>

-----------------------------------------------------------------------------
(* The timer interrupt.                                                    *)

\* The PIC delivers IRQ0; the interrupt gate clears IF.
irq0 ==
  /\ mode = "run"
  /\ IF_
  /\ ~in_service
  /\ mode' = "irq"
  /\ IF_' = FALSE
  /\ in_service' = TRUE
  /\ UNCHANGED <<state, next, current, run_queue, pcb, esp, esp0, cr3, search,
                 tick_count, adding, pos, irq0_handler>>

\* Mutant: the EOI would follow the handler, which has switched away.
irq_handlerLateEOI ==
  /\ mode = "irq"
  /\ in_service' = (irq0_handler = "scheduler_tick")
  /\ tick_count' = (tick_count + 1) % TickMod
  /\ IF irq0_handler = "scheduler_tick"
       THEN /\ mode' = "tick"
            /\ cursor' = next[current]
            /\ steps' = 0
            /\ UNCHANGED IF_
       ELSE /\ mode' = "run"
            /\ IF_' = TRUE
            /\ UNCHANGED search
  /\ UNCHANGED <<state, next, current, run_queue, pcb, esp, esp0, cr3, adding, pos, irq0_handler>>

\* irq_handler sends the EOI first, then calls the handler, which counts the
\* tick and, if it is scheduler_tick, starts to search.
irq_handler ==
  /\ mode = "irq"
  /\ in_service' = FALSE
  /\ tick_count' = (tick_count + 1) % TickMod
  /\ IF irq0_handler = "scheduler_tick"
       THEN /\ mode' = "tick"
            /\ cursor' = next[current]
            /\ steps' = 0
            /\ UNCHANGED IF_
       ELSE /\ mode' = "run"
            /\ IF_' = TRUE
            /\ UNCHANGED search
  /\ UNCHANGED <<state, next, current, run_queue, pcb, esp, esp0, cr3, adding, pos, irq0_handler>>

\* sys_exit, through the interrupt gate of int 0x80: the process becomes a
\* zombie, stays in the ring, and scheduler_tick is called.
sys_exit ==
  /\ mode = "run"
  /\ current = Idle => adding = NULL
  /\ state' = [state EXCEPT ![current] = "ZOMBIE"]
  /\ IF_' = FALSE
  /\ tick_count' = (tick_count + 1) % TickMod
  /\ mode' = "exit"
  /\ cursor' = next[current]
  /\ steps' = 0
  /\ UNCHANGED <<next, current, run_queue, pcb, esp, esp0, cr3, in_service, adding, pos, irq0_handler>>

-----------------------------------------------------------------------------
(* scheduler_tick's loop and its three ends.                               *)

Searching == mode \in {"tick", "exit"}

\* Mutant: one iteration short.
ContinueShort == steps + 1 < SearchBound /\ state[cursor] # "READY" /\ cursor # current

Continue == steps < SearchBound /\ state[cursor] # "READY" /\ cursor # current

Found == cursor # current /\ state[cursor] = "READY"

tick_skip ==
  /\ Searching
  /\ Continue
  /\ cursor' = next[cursor]
  /\ steps' = steps + 1
  /\ UNCHANGED <<state, next, current, run_queue, pcb, cpu, mode, tick_count, adding, pos, irq0_handler>>

\* Mutant: kthread_entry without its sti.
ResumeIFNoSti(f) == f \in {"iret", "tick"}

\* IF where context_switch returns to: kthread_entry executes sti, both irets
\* restore flags with IF set, sys_exit would go on to khalt.
ResumeIF(f) == f \in {"kthread", "iret", "tick"}

\* Mutants: prev is not demoted; prev is demoted even when it is a zombie.
HandoverTwo(prev, nxt) == state' = [state EXCEPT ![nxt] = "RUNNING"]
HandoverAlways(prev, nxt) ==
  state' = [state EXCEPT ![prev] = "READY", ![nxt] = "RUNNING"]

\* The states of the two processes of a switch.
Handover(prev, nxt) ==
  state' = [state EXCEPT ![prev] = IF @ = "RUNNING" THEN "READY" ELSE @,
                         ![nxt] = "RUNNING"]

\* Mutant: called before current moves on, with the old process's stack.
tss_set_kernel_stackOld(p) == esp0' = current

tss_set_kernel_stack(p) == esp0' = p

\* Mutant: ESP is saved in the wrong process_t.
context_switchWrong(prev, nxt) ==
  /\ frame' = [frame EXCEPT ![prev] = mode]
  /\ stack' = [stack EXCEPT ![nxt] = esp]
  /\ cr3' = page_dir[nxt]
  /\ esp' = esp
  /\ IF_' = ResumeIF(frame[nxt])
  /\ mode' = IF frame[nxt] = "exit" THEN "halted" ELSE "run"

\* Save ESP, load the other CR3 and ESP, return into the other frame.
context_switch(prev, nxt) ==
  /\ frame' = [frame EXCEPT ![prev] = mode]
  /\ stack' = [stack EXCEPT ![prev] = esp]
  /\ cr3' = page_dir[nxt]
  /\ esp' = stack[nxt]
  /\ IF_' = ResumeIF(frame[nxt])
  /\ mode' = IF frame[nxt] = "exit" THEN "halted" ELSE "run"

tick_switch ==
  /\ Searching
  /\ ~Continue
  /\ Found
  /\ Handover(current, cursor)
  /\ current' = cursor
  /\ tss_set_kernel_stack(cursor)
  /\ context_switch(current, cursor)
  /\ cursor' = NULL
  /\ steps' = 0
  /\ UNCHANGED <<next, run_queue, page_dir, in_service, tick_count, adding, pos, irq0_handler>>

\* Nothing found: the interrupt returns; sys_exit goes on to khalt.
tick_none ==
  /\ Searching
  /\ ~Continue
  /\ ~Found
  /\ mode' = IF mode = "exit" THEN "halted" ELSE "run"
  /\ IF_' = (mode = "tick")
  /\ cursor' = NULL
  /\ steps' = 0
  /\ UNCHANGED <<state, next, current, run_queue, pcb, esp, esp0, cr3, in_service,
                 tick_count, adding, pos, irq0_handler>>

\* khalt: cli; hlt, for ever.
khalt ==
  /\ mode = "halted"
  /\ UNCHANGED vars

Next ==
  \/ \E p \in Procs : process_create(p)
  \/ \E p \in Procs, dir \in UserDirs : process_create_user(p, dir)
  \/ scheduler_add
  \/ \E p \in Procs : reap(p)
  \/ irq0
  \/ irq_handler
  \/ sys_exit
  \/ tick_skip
  \/ tick_switch
  \/ tick_none
  \/ khalt

Spec == Init /\ [][Next]_vars

-----------------------------------------------------------------------------
(* Properties.                                                             *)

\* Every variable keeps its type; scheduler_tick's cursor never leaves the
\* processes and its counter never passes the bound of the loop.
TypeOK ==
  /\ state \in [Procs -> States]
  /\ next \in [Procs -> Procs \cup {NULL}]
  /\ current \in Procs
  /\ run_queue \in Procs
  /\ page_dir \in [Procs -> {KernelDir} \cup UserDirs]
  /\ frame \in [Procs -> Frames]
  /\ stack \in [Procs -> Procs \cup {Boot}]
  /\ esp \in Procs \cup {Boot}
  /\ esp0 \in Procs \cup {Boot}
  /\ cr3 \in {KernelDir} \cup UserDirs
  /\ IF_ \in BOOLEAN
  /\ in_service \in BOOLEAN
  /\ mode \in Modes
  /\ cursor \in Procs \cup {NULL}
  /\ steps \in 0..SearchBound
  /\ tick_count \in 0..(TickMod - 1)
  /\ irq0_handler \in Handlers
  /\ adding \in Procs \cup {NULL}
  /\ pos \in [Procs -> Int]

\* The run queue is one cycle through run_queue and current: next leads from
\* each place to the one after it, and from the last back to run_queue, while
\* scheduler_add inserts, scheduler_remove unlinks and zombies stay linked.
RingOK ==
  /\ current \in Ring
  /\ run_queue \in Ring
  /\ pos[run_queue] = 0
  /\ \A p \in Ring :
       /\ pos[p] \in 0..(RingSize - 1)
       /\ next[p] \in Ring
       /\ pos[next[p]] = Succ(pos[p])
  /\ \A p, q \in Ring : pos[p] = pos[q] => p = q

\* Exactly one process is RUNNING, the current one, except from sys_exit until
\* the next switch, when current is a zombie and none is; the ring holds every
\* process but the one being added.
OneRunning ==
  /\ \A p \in Procs : state[p] = "RUNNING" => p = current
  /\ state[current] = IF mode \in {"exit", "halted"} THEN "ZOMBIE" ELSE "RUNNING"
  /\ \A p \in Procs : state[p] # "FREE" <=> p \in Ring \cup {adding}

\* No two contexts share a stack: the one the CPU is on is none of the stacks
\* that the ready processes will resume from, and those are all different.
\* kmain runs on the boot stack although current is the idle process.
StacksApart ==
  LET Waiting == {p \in Procs : state[p] = "READY"}
  IN /\ \A p \in Waiting : stack[p] # esp
     /\ \A p, q \in Waiting : stack[p] = stack[q] => p = q

\* docs/gdt-tss-idt.md: tss.esp0 points to the current process's kernel stack,
\* and CR3 to its page directory; until the first switch esp0 is the boot stack.
TrapStack ==
  /\ esp0 = current \/ (esp0 = Boot /\ esp = Boot)
  /\ cr3 = page_dir[current]

\* A context that runs, runs with interrupts on and with the PIC re-armed: a
\* thread entered for the first time out of a handler or of sys_exit included.
Interruptible == mode = "run" => IF_ /\ ~in_service

\* A zombie is never resumed and never becomes anything but a freed process.
ZombiesStay ==
  [][ \A p \in Procs : state[p] = "ZOMBIE" =>
        /\ state'[p] \in {"ZOMBIE", "FREE"}
        /\ current' = p => current = p ]_vars

\* syscall.c:126, "Leaving the zombie in the ring is safe: the scheduler's
\* READY-only loop will skip it on every subsequent tick": a search that finds
\* nothing has missed no ready process of the ring.
SearchComplete ==
  [][ tick_none => \A p \in Ring : state[p] # "READY" ]_vars

\* With scheduler_tick on IRQ0 every ready process that is linked runs again.
NoStarvation ==
  \A p \in Procs :
    (irq0_handler = "scheduler_tick" /\ state[p] = "READY" /\ p # adding)
      ~> state[p] = "RUNNING"
=============================================================================
