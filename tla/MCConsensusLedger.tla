-------------------------- MODULE MCConsensusLedger --------------------------
(* The consensus ledger on small instances, for TLC. *)
EXTENDS ConsensusLedger, TLC

CONSTANTS analyst, planner, b1, b2

Symmetry == Permutations({analyst, planner}) \cup Permutations({b1, b2})
=============================================================================
