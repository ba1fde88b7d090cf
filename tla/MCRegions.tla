------------------------------ MODULE MCRegions ------------------------------
(***************************************************************************)
(* Small instances of Regions for TLC, with cache lines of a few bytes.    *)
(***************************************************************************)
EXTENDS Regions

AllRegions == (0 .. HEAP_SIZE - 1) \X (1 .. HEAP_SIZE)

\* Regions that begin on a line, as what escort_malloc and PNEW return, or stay
\* within one, as PWRITE of an aligned scalar
AlignedRegions ==
  {r \in AllRegions : \/ r[1] % CACHE_LINE_SIZE = 0
                      \/ get_index(r[1]) = get_index(r[1] + r[2] - 1)}
=============================================================================
