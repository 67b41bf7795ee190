-------------------------- MODULE MCConsensusRouter --------------------------
(* The consensus router over the ledger on a small instance, for TLC. *)
EXTENDS ConsensusRouter, TLC

CONSTANTS analyst, planner

Symmetry == Permutations({analyst, planner})
=============================================================================
