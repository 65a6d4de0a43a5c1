---------------------------- MODULE MCInterrupts ----------------------------
(***************************************************************************)
(* Four device lines, two of each kind the dispatcher tells apart: with a  *)
(* handler or without, on the master or on the slave.  Line 7 shares its   *)
(* vector with the master's spurious interrupt.                            *)
(***************************************************************************)
EXTENDS Interrupts

MCLines == {0, 1, 7, 8}
MCExceptions == {0, 14}
MCTssBases == {1110016, 2097120}
=============================================================================
