-------------------------- MODULE MCCheckpointing --------------------------
(***************************************************************************)
(* Small instances of Checkpointing for TLC.                               *)
(***************************************************************************)
EXTENDS Checkpointing, TLC

\* Threads are interchangeable, and so are cache lines.
ThreadSymmetry == Permutations(Threads)
LineSymmetry == Permutations(Lines)
=============================================================================
