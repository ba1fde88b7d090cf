--------------------------- MODULE MCObjectSizes ---------------------------
(***************************************************************************)
(* Small instances of ObjectSizes for TLC.                                 *)
(***************************************************************************)
EXTENDS ObjectSizes

\* Objects of three and of four lines share places, as in a size class; one of
\* them has a partial last byte.  An object of one line may have that byte.
SizeClasses == [n \in {1, 3, 4} |-> IF n = 1 THEN {0, 3} ELSE {2, 6}]
============================================================================
