---------------------------- MODULE MCOwnerAccess ----------------------------
(* Two processes of one owner's site, the second with new keys, for TLC. *)
EXTENDS OwnerAccess, TLC

CONSTANTS old, new, keys1, keys2, owner, b1, b2, b3, s1, s2, c1, c2
MCConfig == [p \in Processes |-> IF p = old THEN keys1 ELSE keys2]
MCIdentity == [c \in Configurations |-> owner]
Symmetric == Permutations(Browsers) \union Permutations(Subjects) \union Permutations(Callbacks)
=============================================================================
