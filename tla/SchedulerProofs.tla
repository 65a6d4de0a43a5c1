-------------------------- MODULE SchedulerProofs --------------------------
(* Proofs about Scheduler, for any number of processes and directories and *)
(* with either handler on IRQ0.                                            *)
EXTENDS Processes, FiniteSetTheorems, TLAPS

\* The stack a process runs on: kmain keeps the boot stack.
Own(p) == IF p = Idle THEN Boot ELSE p

\* How far p is ahead of current in the ring.
Dist(p) == IF pos[p] >= pos[current] THEN pos[p] - pos[current]
                                     ELSE pos[p] - pos[current] + RingSize

\* What the invariants rest on: the half-linked process, where a ready process
\* will resume, and how far a search has come.
Handoff ==
  /\ adding # NULL => /\ adding \notin Ring
                      /\ state[adding] = "READY"
                      /\ run_queue = Idle
                      /\ next[adding] = next[run_queue]
  /\ state[Idle] # "FREE" => run_queue = Idle
  /\ esp = Own(current)
  /\ \A p \in Procs : state[p] = "READY" =>
       stack[p] = Own(p) /\ frame[p] \in {"kthread", "iret", "tick"}
  /\ mode = "run" => IF_ = TRUE
  /\ in_service = TRUE => mode = "irq"

Walk ==
  Searching =>
    /\ cursor \in Ring
    /\ steps < RingSize
    /\ Dist(cursor) = IF steps + 1 = RingSize THEN 0 ELSE steps + 1
    /\ \A p \in Ring : Dist(p) \in 1..steps => state[p] # "READY"

IInv == TypeOK /\ RingOK /\ OneRunning /\ TrapStack /\ Handoff

-----------------------------------------------------------------------------
(* The ring.                                                               *)

LEMMA RingFinite ==
  /\ IsFiniteSet(Ring)
  /\ RingSize \in Nat
  /\ RingSize <= Cardinality(Procs) /\ Cardinality(Procs) \in Nat
<1>1. IsFiniteSet(Procs) /\ Ring \subseteq Procs
  BY SchedulerAssumption DEF Ring
<1> QED BY <1>1, FS_Subset, FS_CardinalityType DEF RingSize

\* The ring after a process is linked, and after one is unlinked.
LEMMA RingGrows ==
  ASSUME NEW p \in Procs, p \notin Ring, Ring' = Ring \cup {p}
  PROVE  RingSize' = RingSize + 1
BY RingFinite, FS_AddElement DEF RingSize

LEMMA RingShrinks ==
  ASSUME NEW p \in Ring, Ring' = Ring \ {p}
  PROVE  RingSize' = RingSize - 1
BY RingFinite, FS_RemoveElement DEF RingSize

LEMMA InitIInv == Init => IInv
<1> SUFFICES ASSUME Init PROVE IInv
  OBVIOUS
<1> USE SchedulerAssumption
<1>1. Ring = {Idle} /\ RingSize = 1
  <2>1. Ring = {Idle}
    BY DEF Init, Ring
  <2> QED BY <2>1, FS_Singleton DEF RingSize
<1>2. TypeOK
  <2>1. IF_ \in BOOLEAN /\ in_service \in BOOLEAN
    BY Zenon DEF Init
  <2> QED BY <2>1 DEF Init, TypeOK, States, Frames, Modes
<1>3. RingOK
  BY <1>1 DEF Init, RingOK, Succ
<1>4. OneRunning /\ TrapStack
  BY <1>1 DEF Init, OneRunning, TrapStack
<1>5. Handoff
  <2>1. IF_ = TRUE /\ in_service = FALSE
    BY DEF Init
  <2> QED BY <2>1 DEF Init, Handoff, Own
<1> QED BY <1>2, <1>3, <1>4, <1>5 DEF IInv

\* Steps that move no link and no process.
LEMMA RingSame ==
  ASSUME RingOK, UNCHANGED <<next, run_queue, pos>>, current' \in Ring
  PROVE  RingOK' /\ Ring' = Ring /\ RingSize' = RingSize
<1>1. Ring' = Ring
  BY DEF Ring
<1>2. RingSize' = RingSize
  BY <1>1 DEF RingSize
<1> QED BY <1>1, <1>2 DEF RingOK, Succ

LEMMA CreateStep ==
  ASSUME IInv, NEW p \in Procs, NEW f \in {"kthread", "iret"},
         NEW dir \in {KernelDir} \cup UserDirs, create(p, f, dir)
  PROVE  IInv'
<1> USE SchedulerAssumption DEF IInv
<1>1. p # current /\ p \notin Ring /\ adding = NULL
  BY DEF create, OneRunning
<1>2. TypeOK'
  BY DEF create, TypeOK, States, Frames, cpu, search, RingOK, Ring
<1>3. Ring' = Ring /\ RingSize' = RingSize
  <2>1. Ring' = Ring
    BY DEF create, Ring
  <2> QED BY <2>1 DEF RingSize
<1>4. \A q \in Ring : next'[q] = next[q]
  BY <1>1 DEF create, TypeOK, Ring
<1>5. RingOK'
  BY <1>3, <1>4 DEF create, RingOK, Succ
<1>6. OneRunning'
  <2>1. \A q \in Procs : state'[q] = IF q = p THEN "READY" ELSE state[q]
    BY DEF create, TypeOK
  <2>2. \A q \in Procs : state'[q] # "FREE" <=> q \in Ring' \cup {adding'}
    BY <1>1, <1>3, <2>1 DEF create, OneRunning
  <2> QED BY <1>1, <2>1, <2>2 DEF create, OneRunning, TypeOK
<1>7. TrapStack'
  BY <1>1 DEF create, TrapStack, TypeOK, cpu
<1>8. Handoff'
  <2>1. current = Idle /\ run_queue = Idle /\ p # Idle
    BY <1>1 DEF create, Handoff, OneRunning
  <2>2. /\ next'[p] = next[run_queue] /\ next'[run_queue] = next[run_queue]
    BY <1>1, <2>1 DEF create, TypeOK
  <2>3. \A q \in Procs : state'[q] = "READY" =>
          stack'[q] = Own(q) /\ frame'[q] \in {"kthread", "iret", "tick"}
    BY <2>1 DEF create, TypeOK, Handoff, Own
  <2>4. mode' = "run" => IF_' = TRUE
    BY DEF create, Handoff, cpu
  <2>5. in_service' = TRUE => mode' = "irq"
    BY DEF create, Handoff, cpu
  <2>6. esp' = Own(current)' /\ adding' = p /\ state'[p] = "READY"
    BY DEF create, TypeOK, Handoff, Own, cpu
  <2>7. p \notin Ring' /\ run_queue' = run_queue
    BY <1>1, <1>3 DEF create
  <2>8. \A q \in Procs : (stack[q] = Own(q))' <=> stack'[q] = Own(q)
    BY DEF Own
  <2> QED BY <2>1, <2>2, <2>3, <2>4, <2>5, <2>6, <2>7, <2>8 DEF Handoff
<1> QED BY <1>2, <1>5, <1>6, <1>7, <1>8

LEMMA AddStep ==
  ASSUME IInv, scheduler_add
  PROVE  IInv'
<1> USE SchedulerAssumption DEF IInv
<1>1. /\ adding \in Procs /\ adding \notin Ring /\ adding # run_queue
      /\ run_queue = Idle /\ next[adding] = next[run_queue]
      /\ pos \in [Procs -> Int] /\ next \in [Procs -> Procs \cup {NULL}]
      /\ run_queue \in Ring /\ Ring \subseteq Procs
  BY DEF scheduler_add, TypeOK, Handoff, RingOK, Ring
<1>2. \A p \in Procs : pos'[p] = IF p = adding THEN 1
                                 ELSE IF pos[p] >= 1 THEN pos[p] + 1 ELSE pos[p]
  BY DEF scheduler_add
<1>3. \A p \in Ring : pos[p] \in Nat
  BY RingFinite DEF RingOK
<1>4. Ring' = Ring \cup {adding} /\ RingSize' = RingSize + 1 /\ RingSize \in Nat
  <2>1. \A p \in Procs : pos'[p] # -1 <=> p \in Ring \cup {adding}
    BY <1>1, <1>2, <1>3 DEF Ring
  <2>2. Ring' = Ring \cup {adding}
    BY <1>1, <2>1 DEF Ring
  <2> QED BY <1>1, <2>2, RingGrows, RingFinite
<1>5. /\ \A p \in Ring : p # run_queue => next'[p] = next[p]
      /\ next'[adding] = next[run_queue] /\ next'[run_queue] = adding
      /\ next' \in [Procs -> Procs \cup {NULL}]
  BY <1>1 DEF scheduler_add
<1>6. TypeOK'
  <2>1. pos' \in [Procs -> Int]
    BY <1>1 DEF scheduler_add
  <2> QED BY <1>5, <2>1 DEF scheduler_add, TypeOK, cpu, search, pcb
<1>7. RingOK'
  <2>1. /\ pos[run_queue] = 0 /\ current \in Ring
        /\ \A p \in Ring : /\ pos[p] \in 0..(RingSize - 1) /\ next[p] \in Ring
                           /\ pos[next[p]] = IF pos[p] + 1 = RingSize THEN 0 ELSE pos[p] + 1
        /\ \A p, q \in Ring : pos[p] = pos[q] => p = q
    BY DEF RingOK, Succ
  <2>2. run_queue' = run_queue /\ current' = current
    BY DEF scheduler_add
  <2>3. \A p \in Ring : p = run_queue \/ pos[p] >= 1
    BY <1>1, <1>3, <2>1
  <2>4. pos'[run_queue] = 0 /\ pos'[adding] = 1
    BY <1>1, <1>2, <2>1
  <2>5. ASSUME NEW p \in Ring'
        PROVE  /\ pos'[p] \in 0..RingSize
               /\ next'[p] \in Ring'
               /\ pos'[next'[p]] = IF pos'[p] + 1 = RingSize + 1 THEN 0 ELSE pos'[p] + 1
    <3>1. RingSize >= 1
      BY <1>1, <1>4, <2>1
    <3>2. CASE p = run_queue
      BY <1>1, <1>4, <1>5, <2>4, <3>1, <3>2
    <3>3. CASE p = adding
      BY <1>1, <1>2, <1>3, <1>4, <1>5, <2>1, <2>3, <2>4, <3>1, <3>3
    <3>4. CASE p \in Ring /\ p # run_queue
      BY <1>1, <1>2, <1>3, <1>4, <1>5, <2>1, <2>3, <2>4, <3>1, <3>4
    <3> QED BY <1>4, <3>2, <3>3, <3>4
  <2>6. ASSUME NEW p \in Ring', NEW q \in Ring', pos'[p] = pos'[q]
        PROVE  p = q
    BY <1>1, <1>2, <1>3, <1>4, <2>1, <2>3, <2>4, <2>6
  <2> QED BY <1>1, <1>4, <2>1, <2>2, <2>4, <2>5, <2>6 DEF RingOK, Succ
<1>8. OneRunning'
  <2>1. \A q \in Procs : state'[q] # "FREE" <=> q \in Ring' \cup {adding'}
    BY <1>1, <1>4 DEF scheduler_add, OneRunning
  <2> QED BY <2>1 DEF scheduler_add, OneRunning
<1>9. TrapStack'
  BY DEF scheduler_add, TrapStack, cpu, pcb
<1>10. Handoff'
  <2>1. /\ mode' = "run" => IF_' = TRUE
        /\ in_service' = TRUE => mode' = "irq"
    BY DEF scheduler_add, Handoff, cpu
  <2> QED BY <1>1, <2>1 DEF scheduler_add, Handoff, Own, cpu, pcb
<1> QED BY <1>6, <1>7, <1>8, <1>9, <1>10

LEMMA ReapStep ==
  ASSUME IInv, NEW p \in Procs, reap(p)
  PROVE  IInv'
<1> USE SchedulerAssumption DEF IInv
<1>1. PICK prev \in Ring : /\ next[prev] = p
                           /\ next' = [next EXCEPT ![prev] = next[p], ![p] = NULL]
  BY Zenon DEF reap
<1>2. /\ p \in Ring /\ p # current /\ adding = NULL /\ Ring \subseteq Procs
      /\ pos \in [Procs -> Int] /\ next \in [Procs -> Procs \cup {NULL}]
      /\ current' = current /\ current \in Ring
  BY DEF reap, TypeOK, OneRunning, RingOK, Ring
<1>3. /\ \A q \in Ring : /\ pos[q] \in 0..(RingSize - 1) /\ next[q] \in Ring
                         /\ pos[next[q]] = IF pos[q] + 1 = RingSize THEN 0 ELSE pos[q] + 1
      /\ \A q, r \in Ring : pos[q] = pos[r] => q = r
      /\ pos[run_queue] = 0 /\ run_queue \in Ring /\ RingSize \in Nat
  BY RingFinite DEF RingOK, Succ
<1>4. \A q \in Procs : pos'[q] = IF q = p THEN -1
                                 ELSE IF pos[q] > pos[p] THEN pos[q] - 1 ELSE pos[q]
  BY DEF reap
<1>5. Ring' = Ring \ {p} /\ RingSize' = RingSize - 1
  <2>1. \A q \in Procs : pos'[q] # -1 <=> q \in Ring \ {p}
    BY <1>2, <1>3, <1>4 DEF Ring
  <2>2. Ring' = Ring \ {p}
    BY <1>2, <2>1 DEF Ring
  <2> QED BY <1>2, <2>2, RingShrinks
<1>6. prev # p
  BY <1>1, <1>2, <1>3
<1>7. /\ next' \in [Procs -> Procs \cup {NULL}]
      /\ next'[prev] = next[p]
      /\ \A q \in Ring : q # p /\ q # prev => next'[q] = next[q]
  BY <1>1, <1>2, <1>6
<1>8. TypeOK'
  <2>1. pos' \in [Procs -> Int]
    BY <1>2 DEF reap
  <2>2. run_queue' \in Procs
    BY <1>2, <1>3 DEF reap, TypeOK
  <2> QED BY <1>2, <1>7, <2>1, <2>2 DEF reap, TypeOK, States, Frames, cpu, search
<1>9. RingOK'
  <2>1. \A q \in Ring : next[q] = p => q = prev
    BY <1>1, <1>2, <1>3
  <2>2. run_queue' \in Ring' /\ pos'[run_queue'] = 0
    <3>1. CASE run_queue = p
      BY <1>1, <1>2, <1>3, <1>4, <1>5, <1>6, <3>1 DEF reap
    <3>2. CASE run_queue # p
      BY <1>2, <1>3, <1>4, <1>5, <3>2 DEF reap
    <3> QED BY <3>1, <3>2
  <2>3. ASSUME NEW q \in Ring'
        PROVE  /\ pos'[q] \in 0..(RingSize - 2)
               /\ next'[q] \in Ring'
               /\ pos'[next'[q]] = IF pos'[q] + 1 = RingSize - 1 THEN 0 ELSE pos'[q] + 1
    <3>1. q \in Ring /\ q # p /\ q \in Procs
      BY <1>2, <1>5
    <3>2. pos'[q] \in 0..(RingSize - 2)
      BY <1>2, <1>3, <1>4, <3>1
    <3>3. CASE q = prev
      <4>1. next'[q] = next[p] /\ next[p] \in Ring /\ next[p] # p
        BY <1>1, <1>2, <1>3, <1>6, <1>7, <3>3
      <4> QED BY <1>1, <1>2, <1>3, <1>4, <1>5, <1>6, <3>1, <3>2, <3>3, <4>1, SMTT(30)
    <3>4. CASE q # prev
      <4>1. next'[q] = next[q] /\ next[q] \in Ring /\ next[q] # p
        BY <1>3, <1>7, <2>1, <3>1, <3>4
      <4> QED BY <1>2, <1>3, <1>4, <1>5, <3>1, <3>2, <4>1, SMTT(30)
    <3> QED BY <3>3, <3>4
  <2>4. ASSUME NEW q \in Ring', NEW r \in Ring', pos'[q] = pos'[r]
        PROVE  q = r
    BY <1>2, <1>3, <1>4, <1>5, <2>4
  <2> QED BY <1>2, <1>3, <1>5, <2>2, <2>3, <2>4, SMTT(30) DEF RingOK, Succ
<1>10. OneRunning'
  <2>1. \A q \in Procs : state'[q] = IF q = p THEN "FREE" ELSE state[q]
    BY DEF reap, TypeOK
  <2>2. \A q \in Procs : state'[q] # "FREE" <=> q \in Ring' \cup {adding'}
    BY <1>2, <1>5, <2>1 DEF reap, OneRunning
  <2> QED BY <1>2, <2>1, <2>2 DEF reap, OneRunning
<1>11. TrapStack'
  BY DEF reap, TrapStack, cpu
<1>12. Handoff'
  <2>1. /\ mode' = "run" => IF_' = TRUE
        /\ in_service' = TRUE => mode' = "irq"
    BY DEF reap, Handoff, cpu
  <2>2. \A q \in Procs : state'[q] = IF q = p THEN "FREE" ELSE state[q]
    BY DEF reap, TypeOK
  <2>3. \A q \in Procs : q # p => frame'[q] = frame[q]
    BY DEF reap, TypeOK
  <2>4. state'[Idle] # "FREE" => run_queue' = Idle
    BY <2>2 DEF reap, Handoff
  <2> QED BY <1>2, <2>1, <2>2, <2>3, <2>4 DEF reap, Handoff, Own, cpu
<1> QED BY <1>8, <1>9, <1>10, <1>11, <1>12

LEMMA IrqStep ==
  ASSUME IInv, irq0 \/ irq_handler
  PROVE  IInv'
<1> USE SchedulerAssumption DEF IInv
<1>1. CASE irq0
  <2>1. RingOK' /\ Ring' = Ring
    BY <1>1, RingSame DEF irq0, RingOK
  <2>2. TypeOK'
    <3>1. IF_' \in BOOLEAN /\ in_service' \in BOOLEAN
      BY <1>1, Zenon DEF irq0
    <3> QED BY <1>1, <3>1 DEF irq0, TypeOK, Modes, search, pcb
  <2>3. Handoff'
    <3>1. mode' = "irq" /\ UNCHANGED <<state, next, current, run_queue, pcb, esp, adding>>
      BY <1>1 DEF irq0
    <3> QED BY <2>1, <3>1 DEF Handoff, Own, pcb
  <2> QED BY <1>1, <2>1, <2>2, <2>3 DEF irq0, OneRunning, TrapStack, pcb
<1>2. CASE irq_handler
  <2>1. RingOK' /\ Ring' = Ring
    BY <1>2, RingSame DEF irq_handler, RingOK
  <2>2. mode' \in {"run", "tick"} /\ (mode' = "run" => IF_' = TRUE) /\ in_service' = FALSE
    BY <1>2 DEF irq_handler
  <2>3. TypeOK'
    <3>1. IF_' \in BOOLEAN /\ in_service' \in BOOLEAN
      BY <1>2, Zenon DEF irq_handler, TypeOK
    <3>2. cursor' \in Procs \cup {NULL} /\ steps' \in 0..SearchBound
      BY <1>2 DEF irq_handler, TypeOK, search
    <3>3. tick_count' \in 0..(TickMod - 1)
      BY <1>2 DEF irq_handler, TypeOK
    <3> QED BY <1>2, <2>2, <3>1, <3>2, <3>3 DEF irq_handler, TypeOK, Modes, pcb
  <2>4. Handoff'
    <3>1. UNCHANGED <<state, next, current, run_queue, pcb, esp, adding>>
      BY <1>2 DEF irq_handler
    <3> QED BY <2>1, <2>2, <3>1 DEF Handoff, Own, pcb
  <2>5. OneRunning'
    BY <1>2, <2>1, <2>2 DEF irq_handler, OneRunning
  <2> QED BY <1>2, <2>1, <2>3, <2>4, <2>5 DEF irq_handler, TrapStack, pcb
<1> QED BY <1>1, <1>2

LEMMA ExitStep ==
  ASSUME IInv, sys_exit
  PROVE  IInv'
<1> USE SchedulerAssumption DEF IInv
<1>1. RingOK' /\ Ring' = Ring
  BY RingSame DEF sys_exit, RingOK
<1>2. \A q \in Procs : state'[q] = IF q = current THEN "ZOMBIE" ELSE state[q]
  BY DEF sys_exit, TypeOK
<1>3. TypeOK'
  <2>1. IF_' \in BOOLEAN /\ in_service' \in BOOLEAN
    BY Zenon DEF sys_exit, TypeOK
  <2> QED BY <2>1, SMTT(30) DEF sys_exit, TypeOK, Modes, States, pcb
<1>4. OneRunning'
  BY <1>1, <1>2 DEF sys_exit, OneRunning, RingOK, TypeOK
<1>5. Handoff'
  <2>1. in_service' = TRUE => mode' = "irq"
    BY DEF sys_exit, Handoff
  <2>2. adding # NULL => adding # current
    BY DEF Handoff, RingOK
  <2> QED BY <1>1, <1>2, <2>1, <2>2, SMTT(30) DEF sys_exit, Handoff, Own, pcb, OneRunning, TypeOK
<1> QED BY <1>1, <1>3, <1>4, <1>5 DEF sys_exit, TrapStack, pcb

LEMMA SkipStep ==
  ASSUME IInv, tick_skip, cursor \in Ring
  PROVE  IInv'
<1> USE SchedulerAssumption DEF IInv
<1>1. RingOK' /\ Ring' = Ring
  BY RingSame DEF tick_skip, RingOK
<1>2. cursor' \in Procs /\ steps' \in 0..SearchBound
  BY SMTT(30) DEF tick_skip, RingOK, Ring, Continue, TypeOK
<1>3. TypeOK'
  BY <1>2 DEF tick_skip, TypeOK, cpu, pcb
<1>4. Handoff'
  <2>1. /\ mode' = "run" => IF_' = TRUE
        /\ in_service' = TRUE => mode' = "irq"
    BY DEF tick_skip, Handoff, cpu
  <2> QED BY <1>1, <2>1 DEF tick_skip, Handoff, Own, cpu, pcb
<1> QED BY <1>1, <1>3, <1>4 DEF tick_skip, OneRunning, TrapStack, cpu, pcb

LEMMA SwitchStep ==
  ASSUME IInv, tick_switch, cursor \in Ring
  PROVE  IInv'
<1> USE SchedulerAssumption DEF IInv, Handover, context_switch, tss_set_kernel_stack
<1>1. RingOK' /\ Ring' = Ring
  BY RingSame DEF tick_switch
<1>2. /\ cursor \in Procs /\ cursor # current /\ state[cursor] = "READY"
      /\ current \in Procs /\ current' = cursor
  BY DEF tick_switch, Found, Ring, TypeOK
<1>3. \A q \in Procs : state'[q] = IF q = cursor THEN "RUNNING"
                                   ELSE IF q = current /\ state[q] = "RUNNING" THEN "READY"
                                   ELSE state[q]
  BY <1>2 DEF tick_switch, TypeOK
<1>4. frame[cursor] \in {"kthread", "iret", "tick"} /\ stack[cursor] = Own(cursor)
  BY <1>2 DEF Handoff
<1>5. mode' = "run" /\ IF_' = TRUE
  BY <1>4, Zenon DEF tick_switch, ResumeIF
<1>6. TypeOK'
  <2>1. IF_' \in BOOLEAN /\ in_service' \in BOOLEAN
    BY <1>5, Zenon DEF tick_switch, TypeOK
  <2>2. state' \in [Procs -> States]
    BY <1>2 DEF tick_switch, TypeOK, States
  <2>3. frame' \in [Procs -> Frames]
    BY <1>2 DEF tick_switch, TypeOK, Frames, Searching
  <2>4. stack' \in [Procs -> Procs \cup {Boot}] /\ esp' \in Procs \cup {Boot}
    BY <1>2 DEF tick_switch, TypeOK
  <2>5. cr3' \in {KernelDir} \cup UserDirs
    BY <1>2 DEF tick_switch, TypeOK
  <2> QED BY <1>2, <1>5, <2>1, <2>2, <2>3, <2>4, <2>5, SMTT(30) DEF tick_switch, TypeOK, Modes
<1>7. OneRunning'
  <2>1. \A q \in Procs : state'[q] # "FREE" <=> q \in Ring' \cup {adding'}
    <3>1. adding' = adding
      BY DEF tick_switch
    <3>2. \A q \in Procs : state'[q] # "FREE" <=> state[q] # "FREE"
      BY <1>2, <1>3
    <3> QED BY <1>1, <3>1, <3>2 DEF OneRunning
  <2> QED BY <1>2, <1>3, <1>5, <2>1 DEF OneRunning
<1>8. TrapStack'
  BY <1>2 DEF tick_switch, TrapStack
<1>9. Handoff'
  <2>1. in_service' = FALSE
    BY SMTT(30) DEF tick_switch, Searching, Handoff, TypeOK
  <2>2. state[current] = "RUNNING" => mode = "tick"
    BY DEF OneRunning, tick_switch, Searching
  <2>3. \A q \in Procs : q # current => frame'[q] = frame[q] /\ stack'[q] = stack[q]
    BY DEF tick_switch, TypeOK
  <2>4. frame'[current] = mode /\ stack'[current] = Own(current)
    BY <1>2, SMTT(30) DEF tick_switch, TypeOK, Handoff
  <2>5. \A q \in Procs : state'[q] = "READY" =>
          stack'[q] = Own(q) /\ frame'[q] \in {"kthread", "iret", "tick"}
    <3> SUFFICES ASSUME NEW q \in Procs, state'[q] = "READY"
                 PROVE  stack'[q] = Own(q) /\ frame'[q] \in {"kthread", "iret", "tick"}
      OBVIOUS
    <3>1. CASE q = current
      BY <1>2, <1>3, <2>2, <2>4, <3>1, Zenon DEF OneRunning, tick_switch, Searching
    <3>2. CASE q # current
      <4>1. state[q] = "READY"
        BY <1>3, <3>2
      <4> QED BY <2>3, <3>2, <4>1 DEF Handoff
    <3> QED BY <3>1, <3>2
  <2>6. adding # NULL => adding # current /\ adding # cursor
    BY DEF Handoff, RingOK
  <2>7. adding' # NULL => /\ adding' \notin Ring' /\ state'[adding'] = "READY"
                          /\ run_queue' = Idle /\ next'[adding'] = next'[run_queue']
    BY <1>1, <1>3, <2>6 DEF tick_switch, Handoff, TypeOK
  <2>8. state'[Idle] # "FREE" => run_queue' = Idle
    BY <1>2, <1>3, Zenon DEF tick_switch, Handoff
  <2>9. esp' = Own(current)'
    BY <1>2, <1>4, Zenon DEF tick_switch, Own
  <2> QED BY <1>5, <2>1, <2>5, <2>7, <2>8, <2>9 DEF Handoff, Own
<1> QED BY <1>1, <1>6, <1>7, <1>8, <1>9

LEMMA NoneStep ==
  ASSUME IInv, tick_none
  PROVE  IInv'
<1> USE SchedulerAssumption DEF IInv
<1>1. RingOK' /\ Ring' = Ring
  BY RingSame, Zenon DEF tick_none, RingOK
<1>2. /\ mode = "exit" => mode' = "halted"
      /\ mode = "tick" => mode' = "run" /\ IF_' = TRUE
      /\ mode \in {"tick", "exit"} /\ in_service' = in_service
  BY Zenon DEF tick_none, Searching
<1>3. TypeOK'
  <2>1. IF_' \in BOOLEAN /\ in_service' \in BOOLEAN
    BY DEF tick_none, TypeOK
  <2> QED BY <1>2, <2>1, SMTT(30) DEF tick_none, TypeOK, Modes, pcb
<1>4. Handoff'
  <2>1. /\ mode' = "run" => IF_' = TRUE
        /\ in_service' = TRUE => mode' = "irq"
    BY <1>2 DEF Handoff
  <2> QED BY <1>1, <2>1, Zenon DEF tick_none, Handoff, Own, pcb
<1>5. OneRunning'
  BY <1>1, <1>2 DEF tick_none, OneRunning
<1> QED BY <1>1, <1>3, <1>4, <1>5 DEF tick_none, TrapStack, pcb

-----------------------------------------------------------------------------
(* The search.                                                             *)

LEMMA DistFacts ==
  ASSUME RingOK
  PROVE  /\ RingSize \in Nat /\ RingSize >= 1
         /\ \A p \in Ring :
              /\ Dist(p) \in 0..(RingSize - 1)
              /\ Dist(p) = 0 <=> p = current
              /\ Dist(next[p]) = IF Dist(p) + 1 = RingSize THEN 0 ELSE Dist(p) + 1
         /\ \A p, q \in Ring : Dist(p) = Dist(q) => p = q
<1>1. /\ RingSize \in Nat /\ current \in Ring
      /\ \A p \in Ring : /\ pos[p] \in 0..(RingSize - 1) /\ next[p] \in Ring
                         /\ pos[next[p]] = IF pos[p] + 1 = RingSize THEN 0 ELSE pos[p] + 1
      /\ \A p, q \in Ring : pos[p] = pos[q] => p = q
  BY RingFinite DEF RingOK, Succ
<1>2. RingSize >= 1
  BY <1>1, SMTT(30)
<1> QED BY <1>1, <1>2, SMTT(60) DEF Dist

\* A search begins at the process after current.
LEMMA WalkBegins ==
  ASSUME RingOK, UNCHANGED <<next, run_queue, pos, current>>,
         cursor' = next[current], steps' = 0
  PROVE  Walk'
<1>1. Ring' = Ring /\ RingSize' = RingSize
  BY RingSame DEF RingOK
<1>2. /\ current \in Ring /\ next[current] \in Ring
      /\ Dist(next[current]) = IF 1 = RingSize THEN 0 ELSE 1
  BY DistFacts, SMTT(30) DEF RingOK
<1>3. Dist(cursor)' = Dist(next[current])
  BY <1>1 DEF Dist
<1> QED BY <1>1, <1>2, <1>3, DistFacts, SMTT(30) DEF Walk

LEMMA WalkStep ==
  ASSUME IInv, Walk, [Next]_vars
  PROVE  Walk'
<1> USE SchedulerAssumption DEF IInv
<1>1. CASE irq_handler
  <2>1. CASE irq0_handler = "scheduler_tick"
    BY <1>1, <2>1, WalkBegins DEF irq_handler
  <2>2. CASE irq0_handler # "scheduler_tick"
    BY <1>1, <2>2 DEF irq_handler, Walk, Searching
  <2> QED BY <2>1, <2>2
<1>2. CASE sys_exit
  BY <1>2, WalkBegins DEF sys_exit
<1>3. CASE tick_skip
  <2>1. /\ cursor \in Ring /\ steps < RingSize /\ steps \in Nat
        /\ Dist(cursor) = IF steps + 1 = RingSize THEN 0 ELSE steps + 1
        /\ \A p \in Ring : Dist(p) \in 1..steps => state[p] # "READY"
        /\ state[cursor] # "READY" /\ cursor # current
    BY <1>3, SMTT(30) DEF tick_skip, Walk, Continue, TypeOK
  <2>2. /\ Ring' = Ring /\ RingSize' = RingSize /\ cursor' = next[cursor]
        /\ steps' = steps + 1 /\ UNCHANGED <<state, next, current, run_queue, pos, mode>>
    BY <1>3, RingSame DEF tick_skip, RingOK
  <2>3. \A p : Dist(p)' = Dist(p)
    BY <2>2 DEF Dist
  <2>4. steps + 1 < RingSize /\ Dist(cursor) = steps + 1
    BY <2>1, DistFacts
  <2>5. cursor' \in Ring
    BY <2>1, <2>2 DEF RingOK
  <2>6. Dist(next[cursor]) = IF steps + 2 = RingSize THEN 0 ELSE steps + 2
    BY <2>1, <2>4, DistFacts, SMTT(30)
  <2>7. \A p \in Ring : Dist(p) \in 1..(steps + 1) => state[p] # "READY"
    BY <2>1, <2>4, DistFacts, SMTT(30)
  <2>8. Dist(cursor)' = Dist(next[cursor])
    BY <2>2 DEF Dist
  <2> QED BY <2>1, <2>2, <2>3, <2>4, <2>5, <2>6, <2>7, <2>8, DistFacts DEF Walk
<1>4. CASE tick_switch
  <2>1. mode' \notin {"tick", "exit"}
    BY <1>4 DEF tick_switch, context_switch
  <2> QED BY <2>1 DEF Walk, Searching
<1>5. CASE tick_none
  <2>1. mode' \notin {"tick", "exit"}
    BY <1>5 DEF tick_none
  <2> QED BY <2>1 DEF Walk, Searching
<1>6. ASSUME mode' \in {"run", "irq", "halted"}
      PROVE  Walk'
  BY <1>6 DEF Walk, Searching
<1>7. CASE UNCHANGED vars
  BY <1>7 DEF vars, search, Walk, Searching, Dist, Ring, RingSize
<1> QED BY <1>1, <1>2, <1>3, <1>4, <1>5, <1>6, <1>7
        DEF Next, process_create, process_create_user, create, scheduler_add, reap,
            irq0, khalt

LEMMA IInvStep ==
  ASSUME IInv, Walk, [Next]_vars
  PROVE  IInv'
<1>1. CASE UNCHANGED vars
  <2>1. Ring' = Ring /\ RingSize' = RingSize
    BY <1>1 DEF vars, Ring, RingSize
  <2>2. RingOK'
    BY <1>1, <2>1, Zenon DEF IInv, vars, RingOK, Succ
  <2>3. TypeOK'
    BY <1>1 DEF IInv, vars, cpu, search, pcb, TypeOK
  <2>4. OneRunning' /\ TrapStack'
    BY <1>1, <2>1, Zenon DEF IInv, vars, cpu, search, pcb, OneRunning, TrapStack
  <2>5. Handoff'
    BY <1>1, <2>1 DEF IInv, vars, cpu, search, pcb, Handoff, Own
  <2> QED BY <2>2, <2>3, <2>4, <2>5 DEF IInv
<1>2. CASE Next
  <2>1. ASSUME NEW p \in Procs, process_create(p)
        PROVE  IInv'
    BY <2>1, CreateStep DEF process_create
  <2>2. ASSUME NEW p \in Procs, NEW dir \in UserDirs, process_create_user(p, dir)
        PROVE  IInv'
    BY <2>2, CreateStep DEF process_create_user
  <2>3. CASE tick_skip
    BY <2>3, SkipStep DEF Walk, tick_skip
  <2>4. CASE tick_switch
    BY <2>4, SwitchStep DEF Walk, tick_switch
  <2>5. CASE khalt
    BY <1>1, <2>5 DEF khalt
  <2> QED BY <1>2, <2>1, <2>2, <2>3, <2>4, <2>5, AddStep, ReapStep, IrqStep, ExitStep,
             NoneStep DEF Next
<1> QED BY <1>1, <1>2

LEMMA Invariance == Spec => [](IInv /\ Walk)
<1>1. Init => IInv /\ Walk
  BY InitIInv DEF Init, Walk, Searching
<1>2. IInv /\ Walk /\ [Next]_vars => (IInv /\ Walk)'
  BY IInvStep, WalkStep
<1> QED BY <1>1, <1>2, PTL DEF Spec

-----------------------------------------------------------------------------
(* The theorems.                                                           *)

\* PCBs, cursors and flags keep their types: in particular scheduler_tick's
\* steps stay within its bound and current is never NULL.
THEOREM TypeCorrect == Spec => []TypeOK
<1>1. IInv => TypeOK
  BY DEF IInv
<1> QED BY <1>1, Invariance, PTL

\* The run queue is one ring, whatever is created, exits or is reaped and
\* wherever the timer interrupts kmain.
THEOREM RingWellFormed == Spec => []RingOK
<1>1. IInv => RingOK
  BY DEF IInv
<1> QED BY <1>1, Invariance, PTL

\* One RUNNING process at most, and the ring loses none.
THEOREM OneRunningAlways == Spec => []OneRunning
<1>1. IInv => OneRunning
  BY DEF IInv
<1> QED BY <1>1, Invariance, PTL

\* context_switch never leaves two contexts on one stack.
THEOREM StacksNeverShared == Spec => []StacksApart
<1>1. IInv => StacksApart
  <2> SUFFICES ASSUME IInv PROVE StacksApart
    OBVIOUS
  <2>1. \A p \in Procs : state[p] = "READY" => stack[p] = Own(p) /\ p # current
    BY DEF IInv, Handoff, OneRunning
  <2>2. \A p, q \in Procs : Own(p) = Own(q) => p = q
    BY SchedulerAssumption DEF Own
  <2>3. esp = Own(current) /\ current \in Procs
    BY DEF IInv, Handoff, TypeOK
  <2> QED BY <2>1, <2>2, <2>3 DEF StacksApart
<1> QED BY <1>1, Invariance, PTL

\* tss.esp0 and CR3 belong to the current process after every switch.
THEOREM TrapStackRight == Spec => []TrapStack
<1>1. IInv => TrapStack
  BY DEF IInv
<1> QED BY <1>1, Invariance, PTL

\* Whatever context runs can be interrupted by the timer.
THEOREM AlwaysInterruptible == Spec => []Interruptible
<1>1. IInv => Interruptible
  <2> SUFFICES ASSUME IInv, mode = "run" PROVE IF_ = TRUE /\ in_service = FALSE
    BY DEF Interruptible
  <2>1. in_service \in BOOLEAN /\ (in_service = TRUE => mode = "irq")
    BY DEF IInv, TypeOK, Handoff
  <2>2. IF_ = TRUE
    BY DEF IInv, Handoff
  <2> QED BY <2>1, <2>2
<1> QED BY <1>1, Invariance, PTL

\* As long as there are at most SearchBound + 2 processes (66, and process.h
\* speaks of 64) a search that ends with nothing has missed nothing.
THEOREM SearchMissesNothing ==
  ASSUME Cardinality(Procs) <= SearchBound + 2
  PROVE  Spec => SearchComplete
<1>1. IInv /\ Walk /\ [Next]_vars => [tick_none => \A p \in Ring : state[p] # "READY"]_vars
  <2> SUFFICES ASSUME IInv, Walk, tick_none, NEW p \in Ring
               PROVE  state[p] # "READY"
    OBVIOUS
  <2>1. /\ cursor \in Ring /\ steps \in Nat /\ steps < RingSize /\ SearchBound \in Nat
        /\ Dist(cursor) = IF steps + 1 = RingSize THEN 0 ELSE steps + 1
        /\ \A q \in Ring : Dist(q) \in 1..steps => state[q] # "READY"
    BY SchedulerAssumption, SMTT(60) DEF tick_none, Walk, IInv, TypeOK
  <2>2. RingOK /\ RingSize <= SearchBound + 2 /\ RingSize \in Nat
    BY RingFinite, SchedulerAssumption DEF IInv
  <2>3. CASE p = current
    BY <2>3 DEF IInv, OneRunning
  <2>4. CASE p # current
    <3>1. Dist(p) \in 1..(RingSize - 1)
      BY <2>2, <2>4, DistFacts, SMTT(30)
    <3>2. CASE cursor = current
      <4>1. steps + 1 = RingSize
        BY <2>1, <2>2, <3>2, DistFacts, SMTT(30)
      <4> QED BY <2>1, <2>2, <3>1, <4>1
    <3>3. CASE cursor # current
      <4>1. state[cursor] # "READY" /\ ~(steps < SearchBound)
        BY <3>3 DEF tick_none, Continue, Found
      <4>2. Dist(p) <= steps + 1
        BY <2>1, <2>2, <3>1, <4>1
      <4>3. CASE Dist(p) = steps + 1
        <5>1. Dist(cursor) = steps + 1
          BY <2>1, <2>2, <3>3, DistFacts
        <5>2. p = cursor
          BY <2>1, <2>2, <4>3, <5>1, DistFacts
        <5> QED BY <4>1, <5>2
      <4>4. CASE Dist(p) # steps + 1
        BY <2>1, <2>2, <3>1, <4>2, <4>4
      <4> QED BY <4>3, <4>4
    <3> QED BY <3>2, <3>3
  <2> QED BY <2>3, <2>4
<1> QED BY <1>1, Invariance, PTL DEF Spec, SearchComplete

\* sys_exit is final: no switch resumes a zombie.
THEOREM ZombiesStayDead == Spec => ZombiesStay
<1> DEFINE Dead(p) == state[p] = "ZOMBIE" =>
                        /\ state'[p] \in {"ZOMBIE", "FREE"}
                        /\ current' = p => current = p
<1>1. ASSUME IInv, Next, NEW p \in Procs
      PROVE  Dead(p)
  <2>1. state \in [Procs -> States] /\ current \in Procs
    BY <1>1 DEF IInv, TypeOK
  <2>2. CASE tick_switch
    BY <2>1, <2>2 DEF tick_switch, Handover, Found, States
  <2>3. CASE sys_exit
    BY <2>1, <2>3 DEF sys_exit
  <2>4. ASSUME NEW q \in Procs, reap(q)
        PROVE  Dead(p)
    BY <2>1, <2>4 DEF reap
  <2>5. ASSUME NEW q \in Procs, NEW f, NEW dir, create(q, f, dir)
        PROVE  Dead(p)
    BY <2>1, <2>5 DEF create
  <2>6. CASE UNCHANGED <<state, current>>
    BY <2>6
  <2> QED BY <1>1, <2>2, <2>3, <2>4, <2>5, <2>6
          DEF Next, process_create, process_create_user, scheduler_add, irq0, irq_handler,
              tick_skip, tick_none, khalt, vars
<1>2. IInv /\ [Next]_vars => [\A p \in Procs : Dead(p)]_vars
  BY <1>1, Zenon
<1> QED BY <1>2, Invariance, PTL DEF Spec, ZombiesStay

-----------------------------------------------------------------------------
(* The blocks of the heap.                                                 *)

\* Which blocks are live.
Blocks ==
  /\ creating \in Procs \cup {NULL}
  /\ creating # NULL => state[creating] = "FREE"
  /\ \A p \in Procs : /\ <<"pcb", p>> \in heap <=> state[p] # "FREE" \/ p = creating
                      /\ <<"stack", p>> \in heap <=> state[p] # "FREE"

\* Processes adds nothing to what the scheduler does.
LEMMA SchedulerStep ==
  ASSUME Blocks, [ProcNext]_proc_vars
  PROVE  [Next]_vars
<1>1. ASSUME NEW p \in Procs, kzalloc_pcb(p) PROVE UNCHANGED vars
  BY <1>1 DEF kzalloc_pcb
<1>2. ASSUME kzalloc_stack_fails PROVE UNCHANGED vars
  BY <1>2 DEF kzalloc_stack_fails
<1>3. ASSUME kzalloc_stack PROVE Next
  BY <1>3 DEF Blocks, kzalloc_stack, Next
<1>4. ASSUME NEW p \in Procs, process_destroy(p) PROVE Next
  BY <1>4 DEF process_destroy, Next
<1>5. ASSUME exit PROVE Next
  BY <1>5 DEF exit, Next
<1>6. ASSUME Handler PROVE Next
  BY <1>6 DEF Handler, Next
<1>7. ASSUME UNCHANGED proc_vars PROVE UNCHANGED vars
  BY <1>7 DEF proc_vars
<1>8. ASSUME scheduler_add \/ irq0 PROVE Next
  BY <1>8 DEF Next
<1> QED BY <1>1, <1>2, <1>3, <1>4, <1>5, <1>6, <1>7, <1>8, Zenon DEF ProcNext

LEMMA BlocksStep ==
  ASSUME IInv, Blocks, [ProcNext]_proc_vars
  PROVE  Blocks'
<1> USE SchedulerAssumption
<1>1. /\ state \in [Procs -> States] /\ current \in Procs
      /\ state[current] # "FREE"
  BY DEF IInv, TypeOK, OneRunning
<1>2. ASSUME NEW p \in Procs, kzalloc_pcb(p) PROVE Blocks'
  <2>1. /\ heap' = heap \cup {<<"pcb", p>>} /\ creating' = p /\ creating = NULL
        /\ <<"pcb", p>> \notin heap /\ state' = state
    BY <1>2 DEF kzalloc_pcb, vars
  <2> QED BY <2>1, Zenon DEF Blocks
<1>3. ASSUME kzalloc_stack_fails PROVE Blocks'
  <2>1. /\ heap' = heap \ {<<"pcb", creating>>} /\ creating' = NULL /\ creating # NULL
        /\ state' = state
    BY <1>3 DEF kzalloc_stack_fails, vars
  <2> QED BY <2>1 DEF Blocks
<1>4. ASSUME kzalloc_stack PROVE Blocks'
  <2>1. /\ heap' = heap \cup {<<"stack", creating>>} /\ creating' = NULL /\ creating # NULL
        /\ state' = [state EXCEPT ![creating] = "READY"]
    BY <1>4 DEF kzalloc_stack, process_create, process_create_user, create
  <2> QED BY <1>1, <2>1 DEF Blocks
<1>5. ASSUME NEW p \in Procs, process_destroy(p) PROVE Blocks'
  <2>1. /\ heap' = heap \ {<<"stack", p>>, <<"pcb", p>>} /\ creating' = creating
        /\ state[p] = "ZOMBIE" /\ state' = [state EXCEPT ![p] = "FREE"]
    BY <1>5 DEF process_destroy, reap
  <2> QED BY <1>1, <2>1 DEF Blocks
<1>6. ASSUME UNCHANGED proc_state, \A p \in Procs : state'[p] = "FREE" <=> state[p] = "FREE"
      PROVE  Blocks'
  <2>1. heap' = heap /\ creating' = creating
    BY <1>6 DEF proc_state
  <2> QED BY <1>6, <2>1 DEF Blocks
<1>7. ASSUME exit PROVE Blocks'
  <2>1. state' = [state EXCEPT ![current] = "ZOMBIE"] /\ UNCHANGED proc_state
    BY <1>7 DEF exit, sys_exit
  <2> QED BY <1>1, <1>6, <2>1
<1>8. ASSUME tick_switch, UNCHANGED proc_state PROVE Blocks'
  <2>1. /\ state[cursor] = "READY" /\ cursor # current
        /\ state' = [state EXCEPT ![current] = IF @ = "RUNNING" THEN "READY" ELSE @,
                                  ![cursor] = "RUNNING"]
    BY <1>8 DEF tick_switch, Found, Handover
  <2> QED BY <1>1, <1>6, <1>8, <2>1
<1>9. ASSUME state' = state, UNCHANGED proc_state PROVE Blocks'
  BY <1>6, <1>9
<1>10. ASSUME scheduler_add \/ irq0 \/ irq_handler \/ tick_skip \/ tick_none \/ khalt
       PROVE  state' = state
  BY <1>10 DEF scheduler_add, irq0, irq_handler, tick_skip, tick_none, khalt, vars
<1>11. ASSUME UNCHANGED proc_vars PROVE Blocks'
  BY <1>9, <1>11 DEF proc_vars, vars
<1> QED BY <1>2, <1>3, <1>4, <1>5, <1>7, <1>8, <1>9, <1>10, <1>11, Zenon DEF ProcNext, Handler

LEMMA BlocksInit == ProcInit => Blocks
  BY SchedulerAssumption DEF ProcInit, Init, Blocks

LEMMA ProcInvariance == ProcSpec => [](IInv /\ Walk /\ Blocks)
<1>1. ProcInit => IInv /\ Walk /\ Blocks
  BY InitIInv, BlocksInit DEF ProcInit, Init, Walk, Searching
<1>2. IInv /\ Walk /\ Blocks /\ [ProcNext]_proc_vars => (IInv /\ Walk /\ Blocks)'
  BY SchedulerStep, IInvStep, WalkStep, BlocksStep
<1> QED BY <1>1, <1>2, PTL DEF ProcSpec

\* Process creation with its failures is a behaviour of the scheduler's model, so
\* the theorems above hold of it too.
THEOREM ProcessesRefine == ProcSpec => Spec
<1>1. ProcInit => Init
  BY DEF ProcInit
<1>2. Blocks /\ [ProcNext]_proc_vars => [Next]_vars
  BY SchedulerStep
<1> QED BY <1>1, <1>2, ProcInvariance, PTL DEF ProcSpec, Spec

\* No block is leaked by a failed creation, and nothing points to a freed one.
THEOREM NoLeakNoDangling == ProcSpec => []BlocksExact
<1>1. IInv /\ Walk /\ Blocks => BlocksExact
  <2> SUFFICES ASSUME IInv, Walk, Blocks PROVE BlocksExact
    OBVIOUS
  <2> DEFINE Live == {p \in Procs : <<"pcb", p>> \in heap}
             Stacks == {Boot} \cup {p \in Procs : <<"stack", p>> \in heap}
  <2>1. \A p \in Procs : /\ p \in Live <=> state[p] # "FREE" \/ p = creating
                         /\ p \in Stacks <=> state[p] # "FREE"
    BY SchedulerAssumption, Zenon DEF Blocks
  <2> HIDE DEF Live
  <2>2. Boot \in Stacks
    OBVIOUS
  <2> HIDE DEF Stacks
  <2>3. \A p \in Ring : p \in Live /\ p \in Stacks
    BY <2>1 DEF IInv, OneRunning, Ring
  <2>4. {current, run_queue} \cup {next[p] : p \in Ring} \subseteq Live
    BY <2>3 DEF IInv, RingOK
  <2>5. Searching => cursor \in Live
    BY <2>3 DEF Walk
  <2>6. {esp, esp0} \subseteq Stacks
    BY <2>2, <2>3 DEF IInv, RingOK, TrapStack, Handoff, Own
  <2>7. \A p \in Procs : state[p] = "READY" => stack[p] \in Stacks
    BY <2>1, <2>2 DEF IInv, Handoff, Own
  <2> QED BY <2>1, <2>4, <2>5, <2>6, <2>7, Zenon DEF BlocksExact, Live, Stacks
<1> QED BY <1>1, ProcInvariance, PTL
=============================================================================
