------------------------------ MODULE LogStore ------------------------------
(***************************************************************************)
(* What the users of plog_t and allocatorlog_t expect of them: independent *)
(* logs.  An entry is appended at the end of its log and stays where it is *)
(* until the log is cleared, which empties that log from its end and       *)
(* touches no other.                                                       *)
(***************************************************************************)
EXTENDS Naturals, Sequences

CONSTANTS Logs, Entries, None

VARIABLES log,      \* the entries of each log
          arg,      \* the entry that is being appended to it
          clearing  \* whether it is being cleared

vars == <<log, arg, clearing>>

Idle(o) == arg[o] = None /\ ~clearing[o]

Init == /\ log = [o \in Logs |-> <<>>]
        /\ arg = [o \in Logs |-> None]
        /\ clearing = [o \in Logs |-> FALSE]

Request(o, e) == /\ Idle(o) /\ arg' = [arg EXCEPT ![o] = e]
                 /\ UNCHANGED <<log, clearing>>

Append1(o) == /\ arg[o] # None
              /\ log' = [log EXCEPT ![o] = Append(@, arg[o])]
              /\ arg' = [arg EXCEPT ![o] = None]
              /\ UNCHANGED clearing

StartClear(o) == /\ Idle(o) /\ clearing' = [clearing EXCEPT ![o] = TRUE]
                 /\ UNCHANGED <<log, arg>>

Shorten(o, n) == /\ clearing[o] /\ n < Len(log[o])
                 /\ log' = [log EXCEPT ![o] = SubSeq(@, 1, n)]
                 /\ UNCHANGED <<arg, clearing>>

EndClear(o) == /\ clearing[o] /\ log[o] = <<>>
               /\ clearing' = [clearing EXCEPT ![o] = FALSE]
               /\ UNCHANGED <<log, arg>>

Next == \E o \in Logs : \/ \E e \in Entries : Request(o, e)
                        \/ Append1(o)
                        \/ StartClear(o)
                        \/ \E n \in 0 .. Len(log[o]) : Shorten(o, n)
                        \/ EndClear(o)

Spec == Init /\ [][Next]_vars
=============================================================================
