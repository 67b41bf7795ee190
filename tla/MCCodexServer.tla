---------------------------- MODULE MCCodexServer ----------------------------
(* The app-server process and its credential on a small instance, for TLC. *)
EXTENDS CodexServer, TLC

CONSTANTS c1, c2
=============================================================================
