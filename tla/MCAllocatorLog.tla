--------------------------- MODULE MCAllocatorLog ---------------------------
(***************************************************************************)
(* Small instances of AllocatorLog for TLC.                                *)
(***************************************************************************)
EXTENDS AllocatorLog, TLC

ThreadSymmetry == Permutations(Threads)
=============================================================================
