----------------------------- MODULE MCLifecycle -----------------------------
(* The life of the process with the program's own bounds in seconds, for TLC. *)
EXTENDS Lifecycle, TLC

CONSTANTS q1, q2
=============================================================================
