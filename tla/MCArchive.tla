------------------------------ MODULE MCArchive ------------------------------
(* The archive of one session on a small instance, for TLC. *)
EXTENDS Archive, TLC

CONSTANTS h1, h2
=============================================================================
