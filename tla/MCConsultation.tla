---------------------------- MODULE MCConsultation ----------------------------
(* The consultation service on small instances, for TLC. *)
EXTENDS Consultation, TLC

CONSTANTS r1, r2, c1, codex, h1, h2, b1, b2

OneCritic == c1 :> codex

\* The messages of a session are the answers to its request.
AnswerEvents == SessionIds \X Bodies

Symmetry == Permutations({h1, h2}) \cup Permutations({b1, b2})
=============================================================================
