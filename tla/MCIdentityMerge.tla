-------------------------- MODULE MCIdentityMerge --------------------------
(* Requests and records are interchangeable; persons are ordered.          *)
EXTENDS IdentityMerge, TLC

SymmetricMerges == Permutations(Merges) \cup Permutations(Records)
=============================================================================
