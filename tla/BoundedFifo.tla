---------------------------- MODULE BoundedFifo ----------------------------
(***************************************************************************)
(* What kernel/drivers/keyboard.h promises to the readers of stdin: typed  *)
(* characters come out once each and in order; those typed while Capacity  *)
(* characters wait are lost.                                               *)
(***************************************************************************)
EXTENDS Naturals, Sequences

CONSTANTS Chars, Capacity

VARIABLES
  q,      \* typed and not yet read
  got     \* what the last keyboard_getchar returned, <<>> before the first

vars == <<q, got>>

Init ==
  /\ q = <<>>
  /\ got = <<>>

Type(c) ==
  /\ Len(q) < Capacity
  /\ q' = Append(q, c)
  /\ UNCHANGED got

Read ==
  /\ q # <<>>
  /\ got' = Head(q)
  /\ q' = Tail(q)

Next == (\E c \in Chars : Type(c)) \/ Read

Spec == Init /\ [][Next]_vars
=============================================================================
