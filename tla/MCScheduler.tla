---------------------------- MODULE MCScheduler ----------------------------
(* TLC instances of Processes.                                             *)
EXTENDS Processes
=============================================================================
