---------------------------- MODULE MCRootTable ----------------------------
(***************************************************************************)
(* Small instances of RootTable for TLC.                                   *)
(***************************************************************************)
EXTENDS RootTable, TLC

CONSTANTS list, tree

\* Two names that share a bucket, each set and read by every thread.
OneBucket == (list :> 0) @@ (tree :> 0)
=============================================================================
