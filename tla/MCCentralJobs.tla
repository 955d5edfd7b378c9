--------------------------- MODULE MCCentralJobs ---------------------------
(* Jobs, recordings and keys are interchangeable: safety may be checked up *)
(* to their permutations.                                                  *)
EXTENDS CentralJobs, TLC

SymmetricJobs == Permutations(Jobs) \cup Permutations(Recordings) \cup Permutations(Keys)
=============================================================================
