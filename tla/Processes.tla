----------------------------- MODULE Processes -----------------------------
(***************************************************************************)
(* Scheduler with what process.c does around it: the two blocks of the     *)
(* kernel heap a process lives in, either of which kzalloc may refuse, the *)
(* pids, and sys_ps, which walks the ring while it changes.                *)
(***************************************************************************)
EXTENDS Scheduler, FiniteSetsExt

CONSTANTS
  PidMod,      \* next_pid wraps here (2^32)
  PsMax,       \* entries that cmd_ps has room for: 32
  MaxCreated   \* bound on the processes ever created

ASSUME ProcessesAssumption ==
  /\ PidMod \in Nat
  /\ PidMod > 2
  /\ PsMax \in Nat \ {0}

VARIABLES
  heap,       \* live blocks: <<"pcb", p>> is p, <<"stack", p>> its kernel_stack
  creating,   \* process_create's p until its stack is there
  pid,        \* p->pid
  created     \* auxiliary: processes created after the idle process

proc_state == <<heap, creating, pid, created>>
proc_vars == <<vars, proc_state>>

\* The idle process has used up pid 1, and got 0 instead.
next_pid == (2 + created) % PidMod

ProcInit ==
  /\ Init
  /\ heap = {<<"pcb", Idle>>, <<"stack", Idle>>}
  /\ creating = NULL
  /\ pid = [p \in Procs |-> 0]
  /\ created = 0

-----------------------------------------------------------------------------
(* process_create and process_create_user, on kmain's behalf.  When the    *)
(* first kzalloc fails nothing has happened.                               *)

kzalloc_pcb(p) ==
  /\ mode = "run"
  /\ current = Idle
  /\ adding = NULL
  /\ creating = NULL
  /\ created < MaxCreated
  /\ <<"pcb", p>> \notin heap
  /\ heap' = heap \cup {<<"pcb", p>>}
  /\ creating' = p
  /\ UNCHANGED <<vars, pid, created>>

\* Mutant: the process_t is not freed.
kzalloc_stack_fails_leak ==
  /\ mode = "run"
  /\ current = Idle
  /\ creating # NULL
  /\ creating' = NULL
  /\ UNCHANGED <<vars, heap, pid, created>>

\* No stack: the process_t is freed again.
kzalloc_stack_fails ==
  /\ mode = "run"
  /\ current = Idle
  /\ creating # NULL
  /\ heap' = heap \ {<<"pcb", creating>>}
  /\ creating' = NULL
  /\ UNCHANGED <<vars, pid, created>>

kzalloc_stack ==
  /\ creating # NULL
  /\ \/ process_create(creating)
     \/ \E dir \in UserDirs : process_create_user(creating, dir)
  /\ heap' = heap \cup {<<"stack", creating>>}
  /\ pid' = [pid EXCEPT ![creating] = next_pid]
  /\ created' = created + 1
  /\ creating' = NULL

process_destroy(p) ==
  /\ reap(p)
  /\ heap' = heap \ {<<"stack", p>>, <<"pcb", p>>}
  /\ UNCHANGED <<creating, pid, created>>

\* kmain does not exit in the middle of exec.
exit ==
  /\ current = Idle => creating = NULL
  /\ sys_exit
  /\ UNCHANGED proc_state

Handler == irq_handler \/ tick_skip \/ tick_switch \/ tick_none \/ khalt

ProcNext ==
  \/ \E p \in Procs : kzalloc_pcb(p)
  \/ kzalloc_stack_fails
  \/ kzalloc_stack
  \/ scheduler_add /\ UNCHANGED proc_state
  \/ \E p \in Procs : process_destroy(p)
  \/ irq0 /\ UNCHANGED proc_state
  \/ exit
  \/ Handler /\ UNCHANGED proc_state

ProcSpec == ProcInit /\ [][ProcNext]_proc_vars

\* The PIT keeps firing and handlers run to their end.
FairProcSpec ==
  /\ ProcSpec
  /\ WF_vars(irq0 /\ UNCHANGED proc_state)
  /\ WF_vars(Handler /\ UNCHANGED proc_state)

-----------------------------------------------------------------------------
(* System calls: they run to their end with IF = 0.                        *)

sys_getpid == pid[current]

\* Mutant: the walk starts at the head of the queue.
sys_ps_head(max) ==
  LET at[k \in 0..max] == IF k = 0 THEN run_queue
                          ELSE IF at[k - 1] = NULL THEN NULL ELSE next[at[k - 1]]
      count == Min({max} \cup {k \in 1..max : at[k] \in {NULL, current}})
  IN [k \in 1..count |-> [pid |-> pid[at[k - 1]], state |-> state[at[k - 1]]]]

\* at[k] is p after k turns of the loop.  There is a buffer and it has room, as
\* cmd_ps calls it; otherwise sys_ps returns -1 before it looks at the ring.
sys_ps(max) ==
  LET at[k \in 0..max] == IF k = 0 THEN current
                          ELSE IF at[k - 1] = NULL THEN NULL ELSE next[at[k - 1]]
      count == Min({max} \cup {k \in 1..max : at[k] \in {NULL, current}})
  IN [k \in 1..count |-> [pid |-> pid[at[k - 1]], state |-> state[at[k - 1]]]]

-----------------------------------------------------------------------------
(* Properties.                                                             *)

\* The heap holds the two blocks of every process and nothing else, whichever
\* allocation failed, and nothing the kernel will follow points to a freed one:
\* the ring, a search in progress, esp0, the CPU's stack and those to resume from.
BlocksExact ==
  LET Live == {p \in Procs : <<"pcb", p>> \in heap}
      Stacks == {Boot} \cup {p \in Procs : <<"stack", p>> \in heap}
  IN /\ \A p \in Procs : /\ p \in Live <=> state[p] # "FREE" \/ p = creating
                         /\ p \in Stacks <=> state[p] # "FREE"
     /\ {current, run_queue} \cup {next[p] : p \in Ring} \subseteq Live
     /\ Searching => cursor \in Live
     /\ {esp, esp0} \cup {stack[p] : p \in {q \in Procs : state[q] = "READY"}} \subseteq Stacks

\* Whoever calls ps, and whatever a preempted kmain is in the middle of, sees its
\* own process first, then every linked process exactly once as far as there is
\* room; pids are unique until next_pid wraps.
PsExact ==
  LET list == sys_ps(PsMax)
      At(i) == [pid |-> pid[i], state |-> state[i]]
  IN mode = "run" =>
       /\ Len(list) = Min({PsMax, RingSize})
       /\ list[1] = [pid |-> sys_getpid, state |-> "RUNNING"]
       /\ \E f \in [DOMAIN list -> Ring] :
            /\ \A i, j \in DOMAIN list : f[i] = f[j] => i = j
            /\ \A i \in DOMAIN list : list[i] = At(f[i])
       /\ created <= PidMod - 2 =>
            \A p, q \in Ring : pid[p] = pid[q] => p = q
=============================================================================
