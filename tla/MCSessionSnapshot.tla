-------------------------- MODULE MCSessionSnapshot --------------------------
(* Two models and one request, sent as often as it likes, for TLC. *)
EXTENDS SessionSnapshot

CONSTANTS m1, m2, k1
=============================================================================
