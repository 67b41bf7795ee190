-------------------------- MODULE MCPhasedConsilium --------------------------
(* The three-phase consilium on a small instance, for TLC. *)
EXTENDS PhasedConsilium, TLC

CONSTANTS s1, s2, c1, c2, codex, t1

OneProvider == [c \in Critics |-> codex]

\* Every event id the instance can use.
PhasedEvents ==
  {AssignmentEvent(g, p) : g \in 1..MaxGeneration, p \in {"initial", "critique", "revision"}}
    \cup {TurnEvent(k, i, n) : k \in {"initial", "critique", "revision"}, i \in Agents, n \in 1..MaxAttempts}
    \cup {FinalEvent(n) : n \in 1..MaxAttempts}
=============================================================================
