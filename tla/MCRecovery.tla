----------------------------- MODULE MCRecovery -----------------------------
(***************************************************************************)
(* Small instances of Recovery and of its refinement for TLC.              *)
(***************************************************************************)
EXTENDS DurabilityRefinement, TLC

LineSymmetry == Permutations(Lines)
ThreadSymmetry == Permutations(Threads)
=============================================================================
