------------------------- MODULE BufferedDurability -------------------------
(***************************************************************************)
(* What Escort promises its clients, without threads, logs, bitmaps and    *)
(* lists.  Transactions belong to epochs.  A new epoch may begin while     *)
(* transactions of the old one run; the old one becomes durable as a whole *)
(* once they have ended, and a crash falls back to the last durable epoch. *)
(***************************************************************************)
CONSTANTS Threads, Lines, Values, InitVal

VARIABLES
  heap,     \* what transactions read and write
  closing,  \* what the epoch before the current one has written so far
  durable,  \* what a crash leaves
  phase,    \* "closing" until the previous epoch is durable, then "open"
  run       \* the epoch of each thread's transaction

vars == <<heap, closing, durable, phase, run>>

Init ==
  /\ heap = [l \in Lines |-> InitVal]
  /\ closing = heap /\ durable = heap
  /\ phase = "open"
  /\ run = [t \in Threads |-> "none"]

Begin(t) ==
  /\ run[t] = "none"
  /\ run' = [run EXCEPT ![t] = "current"]
  /\ UNCHANGED <<heap, closing, durable, phase>>

Store(image, R, v) == [l \in Lines |-> IF l \in R THEN v ELSE image[l]]

\* A write belongs to the epoch of its transaction.
Write(t, R, v) ==
  /\ run[t] # "none"
  /\ heap' = Store(heap, R, v)
  /\ closing' = IF run[t] = "previous" THEN Store(closing, R, v) ELSE closing
  /\ UNCHANGED <<durable, phase, run>>

End(t) ==
  /\ run[t] # "none"
  /\ run' = [run EXCEPT ![t] = "none"]
  /\ UNCHANGED <<heap, closing, durable, phase>>

NewEpoch ==
  /\ phase = "open" /\ phase' = "closing"
  /\ closing' = heap
  /\ run' = [t \in Threads |-> IF run[t] = "current" THEN "previous" ELSE run[t]]
  /\ UNCHANGED <<heap, durable>>

\* The previous epoch becomes durable at once, and only when it has ended.
Commit ==
  /\ phase = "closing" /\ phase' = "open"
  /\ \A t \in Threads : run[t] # "previous"
  /\ durable' = closing
  /\ UNCHANGED <<heap, closing, run>>

\* A crash and the restart after it.
Crash ==
  /\ phase' = "open"
  /\ run' = [t \in Threads |-> "none"]
  /\ heap' = durable /\ closing' = durable
  /\ UNCHANGED durable

Next ==
  \/ Crash \/ NewEpoch \/ Commit
  \/ \E t \in Threads :
       Begin(t) \/ End(t) \/ \E R \in SUBSET Lines, v \in Values : Write(t, R, v)

Spec == Init /\ [][Next]_vars
=============================================================================
