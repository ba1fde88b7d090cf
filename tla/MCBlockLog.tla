----------------------------- MODULE MCBlockLog -----------------------------
(***************************************************************************)
(* Module BlockLog for TLC.  Logs are interchangeable, and so are entries; *)
(* the properties are safety properties that name none of them.            *)
(***************************************************************************)
EXTENDS BlockLog, TLC

LogSymmetry == Permutations(Logs) \cup Permutations(Entries)
=============================================================================
