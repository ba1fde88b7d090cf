--------------------------- MODULE MCExecuteRight ---------------------------
(***************************************************************************)
(* Small instances of ExecuteRight for TLC.                                *)
(***************************************************************************)
EXTENDS ExecuteRight
=============================================================================
