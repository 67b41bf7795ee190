----------------------------- MODULE MCRegistrar -----------------------------
(* The Registrar on small instances, for TLC. *)
EXTENDS Registrar, TLC

CONSTANTS s1, s2, e1, e2, r1, r2, c1, c2, codex, claude, t1

\* One registration, or one for each provider.
OneCritic == c1 :> codex
TwoCritics == c1 :> codex @@ c2 :> claude

Symmetry == Permutations({s1, s2}) \cup Permutations({e1, e2}) \cup Permutations({r1, r2})
=============================================================================
