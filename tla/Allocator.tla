----------------------------- MODULE Allocator -----------------------------
(***************************************************************************)
(* What kernel/mm/heap.h promises to the callers of kmalloc, kzalloc and   *)
(* kfree, with no free list: a set of live regions of the arena, which     *)
(* never overlap, and one outstanding request at a time.                   *)
(***************************************************************************)
EXTENDS Integers

CONSTANTS
  Arena,      \* word addresses that may be handed out
  MaxWords,   \* no region is longer
  Requests    \* byte sizes callers ask for

VARIABLES
  live,       \* regions <<p, s>>: s words at p belong to a caller
  want        \* bytes asked for by the call in progress, 0 between calls

vars == <<live, want>>

Words(r) == r[1]..(r[1] + r[2] - 1)

Init ==
  /\ live = {}
  /\ want = 0

Call(n) ==
  /\ want = 0
  /\ n # 0
  /\ want' = n
  /\ UNCHANGED live

\* "Allocate at least 'size' bytes": a region of the arena no caller owns.
Grant(r) ==
  /\ want # 0
  /\ 4 * r[2] >= want
  /\ Words(r) \subseteq Arena
  /\ \A q \in live : Words(q) \cap Words(r) = {} /\ q[1] # r[1]
  /\ live' = live \cup {r}
  /\ want' = 0

\* "... or NULL".
Refuse ==
  /\ want # 0
  /\ want' = 0
  /\ UNCHANGED live

Free(r) ==
  /\ want = 0
  /\ live' = live \ {r}
  /\ UNCHANGED want

Next ==
  \/ \E n \in Requests : Call(n)
  \/ \E r \in Arena \X (0..MaxWords) : Grant(r)
  \/ Refuse
  \/ \E r \in live : Free(r)

Spec == Init /\ [][Next]_vars
=============================================================================
