------------------------ MODULE DurabilityRefinement ------------------------
(***************************************************************************)
(* The checkpointing protocol with crashes (Recovery) implements           *)
(* BufferedDurability.  An epoch becomes durable in one step, the store of *)
(* the phase NVM_Heap_Update: from there on its image is the NVM heap with *)
(* the redo logs replayed over it, the contexts' logs last.                *)
(***************************************************************************)
EXTENDS Recovery

\* The NVM heap a complete replay of the redo logs would leave
Replayed ==
  [l \in Lines |->
     IF \E t \in ctxs : ulog[t][l] # None
     THEN ulog[CHOOSE t \in ctxs : ulog[t][l] # None][l]
     ELSE IF mlog[l] # None THEN mlog[l] ELSE nvm[l]]

BD == INSTANCE BufferedDurability WITH
        heap <- dram,
        closing <- snap,
        durable <- IF cpc \in UpdatePC THEN Replayed ELSE nvm,
        phase <- IF cpc \in ClosingPC THEN "closing" ELSE "open",
        run <- [t \in Threads |->
                  IF ~InTx(t) THEN "none"
                  ELSE IF Epoch(epoch[t]) = Epoch(GLOBAL_EPOCH) THEN "current"
                  ELSE "previous"]

(***************************************************************************)
(* Every step of the program is a step of the promise or invisible to it,  *)
(* with the two exceptions the findings describe: a copy-on-write that the *)
(* heap update overran, and a crash inside the heap update.                *)
(***************************************************************************)
Excepted == overrun \/ overrun' \/ (cpc \in UpdatePC /\ Restart)
ImplementsDurability == BD!Init /\ [][Excepted \/ BD!Next]_(BD!vars)
=============================================================================
