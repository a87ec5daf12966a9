------------------------------ MODULE MCStore ------------------------------
(* Instances of CoverageStore and of its refinement for TLC. *)
EXTENDS StoreRefinement, TLC

CONSTANTS s1, s2, s3, g1

MCSymmetry == Permutations(Stores \ Sourceless) \cup Permutations(Loads)
============================================================================
