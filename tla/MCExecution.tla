---------------------------- MODULE MCExecution ----------------------------
(* One operation of the consilium runtime on a small instance, for TLC. *)
EXTENDS Execution, TLC
=============================================================================
