------------------------ MODULE CheckpointingProofs ------------------------
(***************************************************************************)
(* Theorems about Checkpointing, with and without crashes (Recovery), and  *)
(* that it implements BufferedDurability (DurabilityRefinement), for any   *)
(* number of threads, lines, values and epochs.                            *)
(***************************************************************************)
EXTENDS DurabilityRefinement, EpochWordProofs, TLAPS

(***************************************************************************)
(* TypeOK is not inductive: that a replayed entry has a value depends on   *)
(* the work set holding only logged lines, and that a logged entry has one *)
(* on the line being copied being a line of the heap.                      *)
(***************************************************************************)
WorkOK ==
  /\ \A t \in Threads : pc[t] \in CopyPC => line[t] \in Lines
  /\ cpc \in {"logpush", "logclear"} => cline \in Lines
  /\ cpc = "replay" => cctx = None /\ \A l \in cwork : mlog[l] # None
  /\ cpc = "replayctx" => \A l \in cwork : /\ cctx \in Threads
                                           /\ ulog[cctx][l] # None

TypeInv == TypeOK /\ WorkOK

\* The words stored by end_op and by the first escort_init.
LEMMA ZeroWord == 0 \in Word /\ 2 \in Word
  BY EpochLimitAssumption DEF Word

\* Every step of the program preserves the types.
LEMMA TypeStep == TypeInv /\ [Next]_vars => TypeInv'
  <1> SUFFICES ASSUME TypeInv, [Next]_vars PROVE TypeInv'
    OBVIOUS
  <1>a. \A ph \in {MEE, LP, NHU} : /\ set_phase(GLOBAL_EPOCH, ph) \in Word
                                   /\ set_phase(GLOBAL_EPOCH + 1, ph) \in Word
    BY SetPhaseLaws, EpochLimitAssumption DEF TypeInv, TypeOK, Word, Phase
  <1>b. cprev \in 0..1 /\ \A t \in Threads : curr(t) \in 0..1
    <2>1. GLOBAL_EPOCH \in Nat /\ \A t \in Threads : epoch[t] \in Int
      BY EpochLimitAssumption DEF TypeInv, TypeOK, Word
    <2>2. Epoch(GLOBAL_EPOCH) - 1 \in Int
      BY <2>1, EpochRange, EpochLimitAssumption
    <2> QED BY <2>1, <2>2 DEF cprev, curr, Parity
  <1> USE ConstantsAssumption, ZeroWord
      DEF TypeInv, TypeOK, WorkOK, Heap, Log, UserPC, TxPC, CopyPC, CpPC,
          LogPC, UpdatePC, FreePC, SetBit, ClearBit, gvars, tvars, cvars, hvars
  <1>1. ASSUME NEW t \in Threads, ThreadInit(t) PROVE TypeInv'
    BY <1>1 DEF ThreadInit
  <1>2. ASSUME NEW t \in Threads, NEW S \in SUBSET Lines, LockLines(t, S)
        PROVE  TypeInv'
    BY <1>2 DEF LockLines
  <1>3. ASSUME NEW t \in Threads, BeginLoad(t) PROVE TypeInv'
    BY <1>3 DEF BeginLoad
  <1>4. ASSUME NEW t \in Threads, BeginStore(t) PROVE TypeInv'
    BY <1>4 DEF BeginStore
  <1>5. ASSUME NEW t \in Threads, BeginCheck(t) PROVE TypeInv'
    BY <1>5 DEF BeginCheck, EpochIsCurrent
  <1>6. ASSUME NEW t \in Threads, NEW S \in SUBSET Lines, MarkStart(t, S)
        PROVE  TypeInv'
    BY <1>6 DEF MarkStart
  <1>7. ASSUME NEW t \in Threads, NEW l \in Lines, MarkSkip(t, l)
        PROVE  TypeInv'
    BY <1>7 DEF MarkSkip
  <1>8. ASSUME NEW t \in Threads, NEW l \in Lines, MarkSet(t, l) PROVE TypeInv'
    BY <1>8 DEF MarkSet
  <1>9. ASSUME NEW t \in Threads, NEW l \in Lines, CowTest(t, l) PROVE TypeInv'
    BY <1>9 DEF CowTest
  <1>10. ASSUME NEW t \in Threads, CowClear(t) PROVE TypeInv'
    BY <1>10 DEF CowClear
  <1>11. ASSUME NEW t \in Threads, CowPush(t) PROVE TypeInv'
    <2>1. ulog' \in [Threads -> Log]
      <3>1. line[t] \in Lines /\ dram[line[t]] \in Values
        BY <1>11 DEF CowPush
      <3> QED BY <1>11, <3>1 DEF CowPush
    <2>2. line[t] \in Lines => dram[line[t]] # None
      BY <1>11 DEF CowPush
    <2>3. \A u \in Threads, l \in Lines :
            ulog[u][l] # None => ulog'[u][l] # None
      BY <1>11, <2>2 DEF CowPush
    <2>4. WorkOK'
      BY <1>11, <2>3 DEF CowPush
    <2>5. bitmap' \in [0..1 -> [Lines -> BOOLEAN]]
      BY <1>11 DEF CowPush
    <2> QED
      BY <1>11, <2>1, <2>4, <2>5 DEF CowPush
  <1>12. ASSUME NEW t \in Threads, MarkReturn(t) PROVE TypeInv'
    BY <1>12, <1>b DEF MarkReturn
  <1>13. ASSUME NEW t \in Threads, NEW v \in Values, Write(t, v) PROVE TypeInv'
    BY <1>13 DEF Write, Overwrite
  <1>14. ASSUME NEW t \in Threads, Unlock(t) PROVE TypeInv'
    BY <1>14 DEF Unlock
  <1>15. ASSUME NEW t \in Threads, EndOp(t) PROVE TypeInv'
    BY <1>15 DEF EndOp
  <1>16. ASSUME Stop PROVE TypeInv'
    BY <1>16 DEF Stop
  <1>17. ASSUME Advance PROVE TypeInv'
    BY <1>17, <1>a DEF Advance
  <1>18. ASSUME NEW t \in Threads, WaitCtx(t) PROVE TypeInv'
    BY <1>18 DEF WaitCtx
  <1>19. ASSUME StartLogPersistence PROVE TypeInv'
    BY <1>19, <1>a DEF StartLogPersistence
  <1>20. ASSUME Finalize PROVE TypeInv'
    BY <1>20, <1>a DEF Finalize
  <1>21. ASSUME NEW t \in Threads, LogCtx(t) PROVE TypeInv'
    BY <1>21, <1>b DEF LogCtx
  <1>22. ASSUME NEW l \in Lines, LogTest(l) PROVE TypeInv'
    BY <1>22 DEF LogTest
  <1>23. ASSUME LogPush PROVE TypeInv'
    <2>1. PICK v \in Copies(cline) : mlog' = [mlog EXCEPT ![cline] = v]
      BY <1>23 DEF LogPush
    <2>2. v \in Values
      BY <1>23, <2>1 DEF LogPush, Copies
    <2> QED
      BY <1>23, <2>1, <2>2 DEF LogPush
  <1>24. ASSUME LogClear PROVE TypeInv'
    BY <1>24 DEF LogClear
  <1>25. ASSUME LogCtxDone PROVE TypeInv'
    BY <1>25, <1>b DEF LogCtxDone
  <1>26. ASSUME StartHeapUpdate PROVE TypeInv'
    BY <1>26, <1>a DEF StartHeapUpdate, Logged
  <1>27. ASSUME NEW l \in Lines, ReplayEntry(l) PROVE TypeInv'
    BY <1>27 DEF ReplayEntry
  <1>28. ASSUME ReplayDone PROVE TypeInv'
    BY <1>28 DEF ReplayDone
  <1>29. ASSUME NEW t \in Threads, ReplayCtx(t) PROVE TypeInv'
    BY <1>29 DEF ReplayCtx, Logged
  <1>30. ASSUME NEW l \in Lines, ReplayCtxEntry(l) PROVE TypeInv'
    BY <1>30 DEF ReplayCtxEntry
  <1>31. ASSUME ReplayCtxDone PROVE TypeInv'
    BY <1>31 DEF ReplayCtxDone
  <1>32. ASSUME ClearLog PROVE TypeInv'
    BY <1>32 DEF ClearLog, EmptyLog
  <1>33. ASSUME NEW t \in Threads, ClearCtxLog(t) PROVE TypeInv'
    BY <1>33 DEF ClearCtxLog, EmptyLog
  <1>34. ASSUME EndCheckpoint PROVE TypeInv'
    BY <1>34 DEF EndCheckpoint
  <1>35. ASSUME Loop PROVE TypeInv'
    BY <1>35 DEF Loop
  <1>36. ASSUME Ended PROVE TypeInv'
    BY <1>36 DEF Ended, vars
  <1>37. CASE UNCHANGED vars
    BY <1>37 DEF vars
  <1> HIDE DEF TypeInv
  <1> QED
    BY <1>1, <1>2, <1>3, <1>4, <1>5, <1>6, <1>7, <1>8, <1>9, <1>10, <1>11,
       <1>12, <1>13, <1>14, <1>15, <1>16, <1>17, <1>18, <1>19, <1>20, <1>21,
       <1>22, <1>23, <1>24, <1>25, <1>26, <1>27, <1>28, <1>29, <1>30, <1>31,
       <1>32, <1>33, <1>34, <1>35, <1>36, <1>37
    DEF Next, UserNext, Begin, Mark, CpNext, LogPersistence, HeapUpdate

\* The state after the first escort_init has the types.
LEMMA TypeInit == Init => TypeInv
  <1> SUFFICES ASSUME Init PROVE TypeInv
    OBVIOUS
  <1>1. addrlist \in [Threads -> [0..1 -> SUBSET Lines]]
    BY DEF Init, NoLines
  <1>2. mlog \in Log /\ ulog \in [Threads -> Log]
    BY DEF Init, EmptyLog, Log
  <1>3. pc \in [Threads -> UserPC] /\ cpc \in CpPC
    BY DEF Init, UserPC, CpPC, FreePC
  <1>4. dram \in Heap /\ nvm \in Heap /\ snap \in Heap /\ base \in Heap
    BY ConstantsAssumption DEF Init, Heap
  <1>5. bitmap \in [0..1 -> [Lines -> BOOLEAN]]
    BY DEF Init
  <1>6. WorkOK
    BY DEF Init, WorkOK, CopyPC
  <1> QED
    BY <1>1, <1>2, <1>3, <1>4, <1>5, <1>6, ZeroWord DEF Init, TypeInv, TypeOK

(***************************************************************************)
(* Every variable keeps its type; in particular no log is ever replayed    *)
(* past its last entry into the NVM heap.                                  *)
(***************************************************************************)
THEOREM TypeCorrect == Spec => []TypeOK
  <1>1. Init => TypeInv
    BY TypeInit
  <1>2. TypeInv /\ [Next]_vars => TypeInv'
    BY TypeStep
  <1>3. TypeInv => TypeOK
    BY DEF TypeInv
  <1> QED
    BY <1>1, <1>2, <1>3, PTL DEF Spec

-----------------------------------------------------------------------------
(***************************************************************************)
(* The inductive invariant behind the epoch protocol.  EpochDiscipline     *)
(* alone is not inductive.  When the epoch advances, running transactions  *)
(* must be in the array the wait will scan, so every thread that has begun *)
(* is registered; when finalize() advances it without a wait, there must   *)
(* be none; and what a thread reads while the wait goes on must carry the  *)
(* phase Multi_Epoch_Existence.                                            *)
(***************************************************************************)
EpochInv ==
  /\ \A t \in Threads : pc[t] # "new" => t \in ctxs
  /\ ~isPersisting => \A t \in Threads : pc[t] \in {"new", "idle"}
  /\ EpochDiscipline
  /\ cpc = "wait" =>
       /\ get_phase(GLOBAL_EPOCH) = MEE
       /\ \A t \in Threads : InTx(t) /\ Epoch(epoch[t]) = Epoch(GLOBAL_EPOCH)
                              => get_phase(epoch[t]) = MEE

\* Every step of the program preserves the invariant.
LEMMA EpochStep == TypeInv /\ EpochInv /\ [Next]_vars => EpochInv'
  <1> SUFFICES ASSUME TypeInv, EpochInv, [Next]_vars PROVE EpochInv'
    OBVIOUS
  <1>w. /\ GLOBAL_EPOCH \in Word /\ GLOBAL_EPOCH \in Nat
        /\ Epoch(GLOBAL_EPOCH) \in Int
    BY EpochRange, EpochLimitAssumption DEF TypeInv, TypeOK, Word
  <1>a. \A ph \in {MEE, LP, NHU} :
          Epoch(set_phase(GLOBAL_EPOCH, ph)) = Epoch(GLOBAL_EPOCH)
    BY <1>w, SetPhaseLaws DEF Phase
  <1>b. ASSUME Epoch(GLOBAL_EPOCH) + 1 < EpochLimit, NEW ph \in {MEE, LP, NHU}
        PROVE  /\ Epoch(set_phase(GLOBAL_EPOCH + 1, ph)) = Epoch(GLOBAL_EPOCH) + 1
               /\ get_phase(set_phase(GLOBAL_EPOCH + 1, ph)) = ph
    BY <1>w, <1>b, SetPhaseLaws, SuccEpoch DEF Phase
  <1>t. /\ pc \in [Threads -> UserPC] /\ ctxs \subseteq Threads
        /\ epoch \in [Threads -> Word] /\ MaxEpoch \in Nat
        /\ MaxEpoch < EpochLimit /\ EpochLimit \in Nat
    BY ConstantsAssumption, EpochLimitAssumption DEF TypeInv, TypeOK
  <1> USE <1>w, <1>t
      DEF EpochInv, EpochDiscipline, InTx, UserPC, TxPC, CopyPC, LogPC,
          gvars, tvars, cvars, hvars
  <1>1. ASSUME NEW t \in Threads, ThreadInit(t) PROVE EpochInv'
    BY <1>1 DEF ThreadInit
  <1>2. ASSUME NEW t \in Threads, NEW S \in SUBSET Lines, LockLines(t, S)
        PROVE  EpochInv'
    BY <1>2 DEF LockLines
  <1>3. ASSUME NEW t \in Threads, BeginLoad(t) PROVE EpochInv'
    BY <1>3 DEF BeginLoad
  <1>4. ASSUME NEW t \in Threads, BeginStore(t) PROVE EpochInv'
    BY <1>4 DEF BeginStore
  <1>5. ASSUME NEW t \in Threads, BeginCheck(t) PROVE EpochInv'
    BY <1>5 DEF BeginCheck, EpochIsCurrent
  <1>6. ASSUME NEW t \in Threads, NEW S \in SUBSET Lines, MarkStart(t, S)
        PROVE  EpochInv'
    BY <1>6 DEF MarkStart
  <1>7. ASSUME NEW t \in Threads, NEW l \in Lines, MarkSkip(t, l)
        PROVE  EpochInv'
    BY <1>7 DEF MarkSkip
  <1>8. ASSUME NEW t \in Threads, NEW l \in Lines, MarkSet(t, l) PROVE EpochInv'
    BY <1>8 DEF MarkSet
  <1>9. ASSUME NEW t \in Threads, NEW l \in Lines, CowTest(t, l) PROVE EpochInv'
    BY <1>9 DEF CowTest
  <1>10. ASSUME NEW t \in Threads, CowClear(t) PROVE EpochInv'
    BY <1>10 DEF CowClear
  <1>11. ASSUME NEW t \in Threads, CowPush(t) PROVE EpochInv'
    BY <1>11 DEF CowPush
  <1>12. ASSUME NEW t \in Threads, MarkReturn(t) PROVE EpochInv'
    BY <1>12 DEF MarkReturn
  <1>13. ASSUME NEW t \in Threads, NEW v \in Values, Write(t, v) PROVE EpochInv'
    BY <1>13 DEF Write
  <1>14. ASSUME NEW t \in Threads, Unlock(t) PROVE EpochInv'
    BY <1>14 DEF Unlock
  <1>15. ASSUME NEW t \in Threads, EndOp(t) PROVE EpochInv'
    BY <1>15 DEF EndOp
  <1>16. ASSUME Stop PROVE EpochInv'
    BY <1>16 DEF Stop
  <1>17. ASSUME Advance PROVE EpochInv'
    BY <1>17, <1>b DEF Advance
  <1>18. ASSUME NEW t \in Threads, WaitCtx(t) PROVE EpochInv'
    BY <1>18 DEF WaitCtx, InPreviousEpoch
  <1>19. ASSUME StartLogPersistence PROVE EpochInv'
    BY <1>19, <1>a DEF StartLogPersistence
  <1>20. ASSUME Finalize PROVE EpochInv'
    BY <1>20, <1>b DEF Finalize
  <1>21. ASSUME NEW t \in Threads, LogCtx(t) PROVE EpochInv'
    BY <1>21 DEF LogCtx
  <1>22. ASSUME NEW l \in Lines, LogTest(l) PROVE EpochInv'
    BY <1>22 DEF LogTest
  <1>23. ASSUME LogPush PROVE EpochInv'
    BY <1>23 DEF LogPush
  <1>24. ASSUME LogClear PROVE EpochInv'
    BY <1>24 DEF LogClear
  <1>25. ASSUME LogCtxDone PROVE EpochInv'
    BY <1>25 DEF LogCtxDone
  <1>26. ASSUME StartHeapUpdate PROVE EpochInv'
    BY <1>26, <1>a DEF StartHeapUpdate
  <1>27. ASSUME NEW l \in Lines, ReplayEntry(l) PROVE EpochInv'
    BY <1>27 DEF ReplayEntry
  <1>28. ASSUME ReplayDone PROVE EpochInv'
    BY <1>28 DEF ReplayDone
  <1>29. ASSUME NEW t \in Threads, ReplayCtx(t) PROVE EpochInv'
    BY <1>29 DEF ReplayCtx
  <1>30. ASSUME NEW l \in Lines, ReplayCtxEntry(l) PROVE EpochInv'
    BY <1>30 DEF ReplayCtxEntry
  <1>31. ASSUME ReplayCtxDone PROVE EpochInv'
    BY <1>31 DEF ReplayCtxDone
  <1>32. ASSUME ClearLog PROVE EpochInv'
    BY <1>32 DEF ClearLog
  <1>33. ASSUME NEW t \in Threads, ClearCtxLog(t) PROVE EpochInv'
    BY <1>33 DEF ClearCtxLog
  <1>34. ASSUME EndCheckpoint PROVE EpochInv'
    BY <1>34 DEF EndCheckpoint
  <1>35. ASSUME Loop PROVE EpochInv'
    BY <1>35 DEF Loop
  <1>36. ASSUME Ended PROVE EpochInv'
    BY <1>36 DEF Ended, vars
  <1>37. CASE UNCHANGED vars
    BY <1>37 DEF vars
  <1> HIDE DEF EpochInv
  <1> QED
    BY <1>1, <1>2, <1>3, <1>4, <1>5, <1>6, <1>7, <1>8, <1>9, <1>10, <1>11,
       <1>12, <1>13, <1>14, <1>15, <1>16, <1>17, <1>18, <1>19, <1>20, <1>21,
       <1>22, <1>23, <1>24, <1>25, <1>26, <1>27, <1>28, <1>29, <1>30, <1>31,
       <1>32, <1>33, <1>34, <1>35, <1>36, <1>37
    DEF Next, UserNext, Begin, Mark, CpNext, LogPersistence, HeapUpdate

\* The invariant holds throughout every behaviour.
LEMMA EpochInvInductive == Spec => [](TypeInv /\ EpochInv)
  <1>1. Init => TypeInv /\ EpochInv
    <2>1. Init => EpochInv
      BY DEF Init, EpochInv, EpochDiscipline, InTx, TxPC, CopyPC
    <2> QED BY <2>1, TypeInit
  <1>2. TypeInv /\ EpochInv /\ [Next]_vars => TypeInv' /\ EpochInv'
    BY TypeStep, EpochStep
  <1> QED
    BY <1>1, <1>2, PTL DEF Spec

(***************************************************************************)
(* The comment on begin_op: a transaction runs in the current epoch, or in *)
(* the previous one while the checkpointing thread still waits for it.     *)
(***************************************************************************)
THEOREM EpochsAreDisciplined == Spec => []EpochDiscipline
  <1>1. TypeInv /\ EpochInv => EpochDiscipline
    BY DEF EpochInv
  <1> QED
    BY <1>1, EpochInvInductive, PTL

\* Two transactions of successive epochs are in the wait, and there the later one
\* carries the phase that announces it.
LEMMA OverlapAnnounced == ASSUME TypeInv, EpochInv PROVE OverlapIsAnnounced
  <1> SUFFICES ASSUME NEW t \in Threads, NEW u \in Threads, InTx(t), InTx(u),
                      Epoch(epoch[t]) = Epoch(epoch[u]) + 1
               PROVE  get_phase(epoch[t]) = MEE
    BY DEF OverlapIsAnnounced
  <1>1. Epoch(GLOBAL_EPOCH) \in Int
    BY EpochRange, EpochLimitAssumption DEF TypeInv, TypeOK, Word
  <1>2. cpc = "wait" /\ Epoch(epoch[t]) = Epoch(GLOBAL_EPOCH)
    BY <1>1 DEF EpochInv, EpochDiscipline
  <1> QED
    BY <1>2 DEF EpochInv

(***************************************************************************)
(* What free_with_create_log relies on: a transaction that coexists with   *)
(* one of the previous epoch has read the phase Multi_Epoch_Existence.     *)
(***************************************************************************)
THEOREM OverlapsAreAnnounced == Spec => []OverlapIsAnnounced
  BY OverlapAnnounced, EpochInvInductive, PTL

-----------------------------------------------------------------------------
(***************************************************************************)
(* What checkpoints save: the bitmaps and address lists are clean when     *)
(* they are used again, the redo logs suffice throughout the NVM heap      *)
(* update, and the NVM heap between checkpoints is what an epoch has left. *)
(*                                                                         *)
(* The invariant has three layers.  LockInv is about the locks of clients  *)
(* and the regions they mark.  BitInv is about bitmaps and lists: which    *)
(* bits are set, and where the checkpointing thread will find them.        *)
(* ImageInv is about contents: where, for each line and at each point of a *)
(* checkpoint, the value is that the previous epoch has left.              *)
(***************************************************************************)

Marking == {"mark", "cow", "push"}

(***************************************************************************)
(* A thread marks and writes lines whose locks it holds.                   *)
(***************************************************************************)
LockInv ==
  /\ \A t, u \in Threads : t # u => hold[t] \cap hold[u] = {}
  /\ \A t \in Threads :
       /\ region[t] \subseteq hold[t] /\ left[t] \subseteq region[t]
       /\ pc[t] \notin Marking \cup {"write"} => region[t] = {}
       /\ pc[t] \in CopyPC => line[t] \in left[t]
       /\ pc[t] = "write" => left[t] = {}

-----------------------------------------------------------------------------
\* The transaction of t runs in the current epoch.
Current(t) == Epoch(epoch[t]) = Epoch(GLOBAL_EPOCH)

\* The index of the bitmap and lists of the current epoch
ccurr == 1 - cprev

\* Line l is in a list of parity p, or mark() is about to put it there.
Listed(p, l) ==
  \E t \in Threads :
    \/ l \in addrlist[t][p]
    \/ /\ pc[t] \in Marking /\ curr(t) = p /\ fresh[t]
       /\ l \in region[t] /\ l \notin left[t]

\* The checkpointing thread will come to line l of the previous epoch's lists.
ToVisit(l) ==
  \E t \in cset : l \in addrlist[t][cprev] /\ (cctx = t => l \in cwork)

\* What mark() has done so far to the bits of its region.
MarkInv ==
  \A t \in Threads : InTx(t) =>
    /\ \A l \in region[t] : l \notin left[t] => bitmap[curr(t)][l]
    /\ pc[t] \in CopyPC => ~bitmap[curr(t)][line[t]]
    /\ pc[t] = "push" => ~bitmap[prev(t)][line[t]]
    /\ ~Current(t) => \A l \in hold[t] : ~bitmap[ccurr][l]

\* Every bit that is set leads to a list entry the checkpointing thread will visit.
ListInv ==
  \A l \in Lines :
    /\ ~(bitmap[0][l] /\ bitmap[1][l])
    /\ \A p \in 0..1 : bitmap[p][l] =>
         /\ p = ccurr \/ cpc = "wait" => Listed(p, l)
         /\ p = cprev => \/ cpc = "wait"
                         \/ cpc \in LogPC /\ ToVisit(l)

\* Lists belong to registered contexts, and are cleared context by context.
ArrayInv ==
  /\ \A t \in Threads : t \notin ctxs => addrlist[t] = NoLines /\ ulog[t] = EmptyLog
  /\ cpc \notin LogPC \cup {"replayctx"} => cctx = None
  /\ cpc \in LogPC => \A t \in Threads : t \notin cset => addrlist[t][cprev] = {}
  /\ cpc \notin LogPC \cup {"wait"} => \A t \in Threads : addrlist[t][cprev] = {}

BitInv == MarkInv /\ ListInv /\ ArrayInv

-----------------------------------------------------------------------------
\* A thread has cleared the bit of line l and is about to log its old value.
Copying(l) == \E t \in Threads : pc[t] = "push" /\ line[t] = l

\* A context's log has the old value of line l.
Copied(l) == \E t \in Threads : ulog[t][l] # None

\* What a line will be when the checkpointing thread's log is replayed on heap
Redone(heap, l) == IF mlog[l] = None THEN heap[l] ELSE mlog[l]

\* A line that no current transaction has marked is as the previous epoch left it.
DramInv == \A l \in Lines : ~bitmap[ccurr][l] => dram[l] = snap[l]

\* The last checkpoint saves the heap as it is.
FinalInv ==
  /\ final => snap = dram /\ ~isPersisting /\ cpc \in LogPC \cup UpdatePC \cup {"ended"}
  /\ cpc = "ended" => final

\* No checkpoint is under way.
Rest ==
  cpc \in FreePC \cup {"ended"} =>
    /\ nvm = snap /\ mlog = EmptyLog
    /\ \A t \in Threads : ulog[t] = EmptyLog

\* The previous epoch is being awaited and logged.
Closing ==
  cpc \in {"wait"} \cup LogPC =>
    /\ nvm = base
    /\ cpc = "wait" => mlog = EmptyLog
    /\ \A t \in Threads : pc[t] \in CopyPC => Current(t)
    /\ \A t \in Threads, l \in Lines :
         ulog[t][l] # None => ulog[t][l] = snap[l] /\ bitmap[ccurr][l]
    /\ \A l \in Lines : \/ bitmap[cprev][l] \/ Copying(l) \/ Copied(l)
                        \/ snap[l] = Redone(base, l)
    /\ cpc = "logpush" => bitmap[cprev][cline] \/ Copying(cline) \/ Copied(cline)
    /\ cpc = "logclear" => \/ Copying(cline) \/ Copied(cline)
                           \/ mlog[cline] = snap[cline]

\* The logs are being replayed and cleared.
Updating ==
  cpc \in UpdatePC =>
    /\ \A t \in Threads, l \in Lines : ulog[t][l] \in {None, snap[l]}
    /\ cpc = "replay" => \A l \in Lines :
         /\ Copied(l) \/ snap[l] = Redone(nvm, l)
         /\ mlog[l] # None /\ l \notin cwork => nvm[l] = mlog[l]
    /\ cpc = "replayctx" => \A l \in Lines :
         \/ nvm[l] = snap[l]
         \/ \E t \in cset : ulog[t][l] # None /\ (cctx = t => l \in cwork)
    /\ cpc = "replayctx" => \A l \in Lines : 
         Copied(l) \/ mlog[l] \in {None, snap[l]}
    /\ cpc = "clearctx" =>
         /\ nvm = snap /\ mlog = EmptyLog
         /\ \A t \in Threads : t \notin cset => ulog[t] = EmptyLog

ImageInv ==
  ~overrun =>
    /\ Rest /\ Closing /\ Updating
    /\ cpc \notin {"wait"} \cup LogPC => \A t \in Threads : pc[t] \notin CopyPC

HeapInv == LockInv /\ BitInv /\ DramInv /\ FinalInv /\ ImageInv

-----------------------------------------------------------------------------
(***************************************************************************)
(* Lemmas on steps: what each kind of step leaves alone.                   *)
(***************************************************************************)

\* The checkpointing thread touches no thread's transaction and not the heap.
LEMMA CpFrame ==
  ASSUME CpNext
  PROVE  UNCHANGED <<dram, isPersisting, pc, epoch, reg, hold, region, left, line,
                     fresh>>
  BY DEF CpNext, LogPersistence, HeapUpdate, Loop, Advance, Finalize, WaitCtx,
         StartLogPersistence, LogCtx, LogTest, LogPush, LogClear, LogCtxDone,
         StartHeapUpdate, ReplayEntry, ReplayCtxEntry, ReplayDone, ReplayCtx,
         ClearCtxLog, ReplayCtxDone, ClearLog, EndCheckpoint, gvars, tvars

\* A transaction touches nothing of the checkpointing thread.
LEMMA UserFrame ==
  ASSUME NEW t \in Threads, UserNext(t)
  PROVE  UNCHANGED <<GLOBAL_EPOCH, nvm, isPersisting, cpc, cset, cctx, cwork,
                     cline, mlog, final, base, overrun>>
  BY DEF UserNext, Begin, Mark, ThreadInit, LockLines, BeginLoad, BeginStore,
         BeginCheck, MarkStart, MarkSkip, MarkSet, CowTest, CowClear, CowPush,
         MarkReturn, Write, Unlock, EndOp, gvars, cvars, hvars

(***************************************************************************)
(* Of the two bitmaps and lists, a transaction uses that of its epoch: the *)
(* checkpointing thread's previous one if it is the one waited for.        *)
(***************************************************************************)
LEMMA ThreadParity ==
  ASSUME TypeInv, EpochInv, NEW t \in Threads, InTx(t)
  PROVE  /\ Current(t) => curr(t) = ccurr /\ prev(t) = cprev
         /\ ~Current(t) => /\ curr(t) = cprev /\ prev(t) = ccurr
                           /\ cpc = "wait" /\ t \in cset
  <1>1. /\ epoch[t] \in Word /\ GLOBAL_EPOCH \in Word
        /\ epoch[t] \in Nat /\ GLOBAL_EPOCH \in Nat
    BY EpochLimitAssumption DEF TypeInv, TypeOK, Word
  <1>2. Epoch(epoch[t]) \in Nat /\ Epoch(GLOBAL_EPOCH) \in Nat
    BY <1>1, EpochRange, EpochLimitAssumption
  <1>3. curr(t) = Parity(Epoch(epoch[t]))
    BY <1>1, WordParity DEF curr
  <1> QED
    BY <1>2, <1>3 DEF Current, prev, ccurr, cprev, Parity, EpochInv, EpochDiscipline

\* The bitmaps and lists are the 0th and the 1st.
LEMMA ParityRange ==
  ASSUME TypeInv
  PROVE  /\ cprev \in 0..1 /\ ccurr \in 0..1 /\ cprev # ccurr
         /\ \A t \in Threads : curr(t) \in 0..1 /\ prev(t) \in 0..1
                                /\ prev(t) # curr(t) /\ prev(t) = 1 - curr(t)
  <1>1. GLOBAL_EPOCH \in Nat /\ \A t \in Threads : epoch[t] \in Int
    BY EpochLimitAssumption DEF TypeInv, TypeOK, Word
  <1>2. Epoch(GLOBAL_EPOCH) \in Int
    BY <1>1, EpochRange, EpochLimitAssumption
  <1> QED BY <1>1, <1>2 DEF cprev, ccurr, curr, prev, Parity

\* The epoch number, and with it the roles of the bitmaps, changes only when an
\* epoch begins, in checkpointing() and in finalize().
LEMMA EpochChange ==
  ASSUME TypeInv, Next
  PROVE  /\ Advance \/ Finalize => /\ Epoch(GLOBAL_EPOCH') = Epoch(GLOBAL_EPOCH) + 1
                                   /\ cprev' = ccurr /\ ccurr' = cprev
         /\ ~Advance /\ ~Finalize => /\ Epoch(GLOBAL_EPOCH') = Epoch(GLOBAL_EPOCH)
                                     /\ cprev' = cprev /\ ccurr' = ccurr
  <1>1. GLOBAL_EPOCH \in Word /\ GLOBAL_EPOCH \in Nat /\ Epoch(GLOBAL_EPOCH) \in Nat
    BY EpochRange, EpochLimitAssumption DEF TypeInv, TypeOK, Word
  <1>2. ASSUME Advance \/ Finalize
        PROVE  Epoch(GLOBAL_EPOCH') = Epoch(GLOBAL_EPOCH) + 1
    <2>1. Epoch(GLOBAL_EPOCH) + 1 < EpochLimit
      BY <1>1, <1>2, ConstantsAssumption, EpochLimitAssumption DEF Advance, Finalize
    <2> QED
      BY <1>1, <1>2, <2>1, SetPhaseLaws, SuccEpoch DEF Advance, Finalize, Phase
  <1>3. ASSUME ~Advance, ~Finalize
        PROVE  Epoch(GLOBAL_EPOCH') = Epoch(GLOBAL_EPOCH)
    <2>1. CASE StartLogPersistence \/ StartHeapUpdate
      BY <1>1, <2>1, SetPhaseLaws DEF StartLogPersistence, StartHeapUpdate, Phase
    <2>2. CASE ~StartLogPersistence /\ ~StartHeapUpdate
      <3>1. UNCHANGED GLOBAL_EPOCH
        BY <1>3, <2>2, UserFrame
           DEF Next, CpNext, LogPersistence, HeapUpdate, Loop, WaitCtx, LogCtx,
               LogTest, LogPush, LogClear, LogCtxDone, ReplayEntry,
               ReplayCtxEntry, ReplayDone, ReplayCtx, ClearCtxLog,
               ReplayCtxDone, ClearLog, EndCheckpoint, Stop, Ended, vars, gvars
      <3> QED BY <3>1
    <2> QED BY <2>1, <2>2
  <1>4. ASSUME Advance \/ Finalize PROVE cprev' = ccurr /\ ccurr' = cprev
    BY <1>1, <1>2, <1>4 DEF cprev, ccurr, Parity
  <1>5. ASSUME ~Advance, ~Finalize PROVE cprev' = cprev /\ ccurr' = ccurr
    BY <1>3, <1>5 DEF cprev, ccurr
  <1> QED
    BY <1>2, <1>3, <1>4, <1>5

-----------------------------------------------------------------------------
\* Every step preserves the discipline of locks and regions.
LEMMA LockStep ==
  ASSUME TypeInv, LockInv, [Next]_vars
  PROVE  LockInv'
  <1> USE DEF LockInv, Marking, CopyPC
  <1>t. /\ pc \in [Threads -> UserPC] /\ hold \in [Threads -> SUBSET Lines]
        /\ region \in [Threads -> SUBSET Lines] /\ left \in [Threads -> SUBSET Lines]
        /\ line \in [Threads -> Lines \cup {None}]
    BY DEF TypeInv, TypeOK
  <1> USE <1>t
  <1>1. ASSUME NEW t \in Threads, ThreadInit(t) PROVE LockInv'
    BY <1>1 DEF ThreadInit
  <1>2. ASSUME NEW t \in Threads, NEW S \in SUBSET Lines, LockLines(t, S)
        PROVE  LockInv'
    BY <1>2 DEF LockLines
  <1>3. ASSUME NEW t \in Threads, Begin(t) PROVE LockInv'
    BY <1>3 DEF Begin, BeginLoad, BeginStore, BeginCheck
  <1>4. ASSUME NEW t \in Threads, NEW S \in SUBSET Lines, MarkStart(t, S)
        PROVE  LockInv'
    BY <1>4 DEF MarkStart
  <1>5. ASSUME NEW t \in Threads, NEW l \in Lines,
               MarkSkip(t, l) \/ MarkSet(t, l) \/ CowTest(t, l)
        PROVE  LockInv'
    BY <1>5 DEF MarkSkip, MarkSet, CowTest
  <1>6. ASSUME NEW t \in Threads, CowClear(t) \/ CowPush(t) \/ MarkReturn(t)
        PROVE  LockInv'
    BY <1>6 DEF CowClear, CowPush, MarkReturn
  <1>7. ASSUME NEW t \in Threads, NEW v \in Values, Write(t, v) PROVE LockInv'
    BY <1>7 DEF Write
  <1>8. ASSUME NEW t \in Threads, Unlock(t) \/ EndOp(t) PROVE LockInv'
    BY <1>8 DEF Unlock, EndOp
  <1>9. ASSUME CpNext \/ Stop \/ Ended \/ UNCHANGED vars PROVE LockInv'
    BY <1>9, CpFrame DEF Stop, Ended, vars, tvars
  <1> QED
    BY <1>1, <1>2, <1>3, <1>4, <1>5, <1>6, <1>7, <1>8, <1>9
       DEF Next, UserNext, Mark

-----------------------------------------------------------------------------
\* bitmap_t::set and bitmap_t::clear change one bit.
LEMMA SetBitEffect ==
  ASSUME TypeInv, NEW p \in 0..1, NEW l \in Lines, SetBit(p, l)
  PROVE  \A q \in 0..1, m \in Lines :
           bitmap'[q][m] <=> bitmap[q][m] \/ (q = p /\ m = l)
  BY DEF TypeInv, TypeOK, SetBit

LEMMA ClearBitEffect ==
  ASSUME TypeInv, NEW p \in 0..1, NEW l \in Lines, ClearBit(p, l)
  PROVE  \A q \in 0..1, m \in Lines :
           bitmap'[q][m] <=> bitmap[q][m] /\ ~(q = p /\ m = l)
  BY DEF TypeInv, TypeOK, ClearBit

\* Every step preserves what mark() has done to the bits of its region.
LEMMA MarkStep ==
  ASSUME TypeInv, EpochInv, LockInv, BitInv, [Next]_vars
  PROVE  MarkInv'
  <1>t. /\ pc \in [Threads -> UserPC] /\ hold \in [Threads -> SUBSET Lines]
        /\ region \in [Threads -> SUBSET Lines] /\ left \in [Threads -> SUBSET Lines]
        /\ line \in [Threads -> Lines \cup {None}] /\ epoch \in [Threads -> Word]
    BY DEF TypeInv, TypeOK
  <1>p. /\ cprev \in 0..1 /\ ccurr \in 0..1 /\ cprev # ccurr
        /\ \A t \in Threads : /\ curr(t) \in 0..1 /\ prev(t) \in 0..1
                              /\ prev(t) # curr(t)
    BY ParityRange
  <1>c. \A t \in Threads : InTx(t) =>
          /\ Current(t) => curr(t) = ccurr /\ prev(t) = cprev
          /\ ~Current(t) => curr(t) = cprev /\ prev(t) = ccurr /\ cpc = "wait"
    BY ThreadParity
  <1>m. /\ MarkInv
        /\ \A l \in Lines : cpc \notin LogPC \cup {"wait"} => ~bitmap[cprev][l]
    BY <1>p DEF BitInv, ListInv
  <1>u. ASSUME NEW t \in Threads, UserNext(t)
        PROVE  ccurr' = ccurr /\ GLOBAL_EPOCH' = GLOBAL_EPOCH
    BY <1>u, UserFrame DEF ccurr, cprev
  <1> USE <1>t DEF MarkInv, InTx, TxPC, CopyPC
  <1>0. ASSUME NEW t \in Threads, UserNext(t), ThreadInit(t) PROVE MarkInv'
    BY <1>0, <1>u, <1>m DEF ThreadInit, Current, curr, prev, gvars
  <1>1. ASSUME NEW t \in Threads, UserNext(t), NEW S \in SUBSET Lines,
               LockLines(t, S) \/ MarkStart(t, S)
        PROVE  MarkInv'
    BY <1>1, <1>u, <1>m DEF LockLines, MarkStart, Current, curr, prev, gvars
  <1>2. ASSUME NEW t \in Threads, UserNext(t), Begin(t) PROVE MarkInv'
    BY <1>2, <1>u, <1>m DEF Begin, BeginLoad, BeginStore, BeginCheck,
          EpochIsCurrent, Current, curr, prev, LockInv, Marking, gvars
  <1>3. ASSUME NEW t \in Threads, UserNext(t), NEW l \in Lines,
               MarkSkip(t, l) \/ CowTest(t, l)
        PROVE  MarkInv'
    BY <1>3, <1>u, <1>m DEF MarkSkip, CowTest, Current, curr, prev, gvars
  <1>4. ASSUME NEW t \in Threads, UserNext(t), NEW l \in Lines, MarkSet(t, l)
        PROVE  MarkInv'
    <2>1. \A q \in 0..1, m \in Lines :
            bitmap'[q][m] <=> bitmap[q][m] \/ (q = curr(t) /\ m = l)
      BY <1>4, <1>p, SetBitEffect DEF MarkSet
    <2>2. \A u \in Threads : u # t => l \notin hold[u]
      BY <1>4 DEF MarkSet, LockInv
    <2>3. ASSUME NEW u \in Threads, InTx(u)'
          PROVE  (/\ \A m \in region[u] : m \notin left[u] => bitmap[curr(u)][m]
                  /\ pc[u] \in CopyPC => ~bitmap[curr(u)][line[u]]
                  /\ pc[u] = "push" => ~bitmap[prev(u)][line[u]]
                  /\ ~Current(u) => \A m \in hold[u] : ~bitmap[ccurr][m])'
      <3>1. CASE u = t
        BY <1>4, <1>u, <1>m, <1>c, <1>p, <2>1, <2>2, <2>3, <3>1
           DEF MarkSet, Current, curr, prev, LockInv
      <3>2. CASE u # t
        <4>1. /\ pc'[u] = pc[u] /\ line'[u] = line[u] /\ hold'[u] = hold[u]
              /\ region'[u] = region[u] /\ left'[u] = left[u]
              /\ curr(u)' = curr(u) /\ prev(u)' = prev(u) /\ (Current(u)' <=> Current(u))
              /\ ccurr' = ccurr
          BY <1>4, <1>u, <3>2 DEF MarkSet, Current, curr, prev
        <4> QED
          BY <1>m, <1>p, <2>1, <2>2, <2>3, <3>2, <4>1 DEF LockInv
      <3> QED BY <3>1, <3>2
    <2> QED BY <2>3
  <1>5. ASSUME NEW t \in Threads, UserNext(t), CowClear(t) PROVE MarkInv'
    <2>1. line[t] \in Lines /\ line[t] \in hold[t] /\ line[t] \in left[t]
      BY <1>5 DEF CowClear, LockInv
    <2>2. \A q \in 0..1, m \in Lines :
            bitmap'[q][m] <=> bitmap[q][m] /\ ~(q = prev(t) /\ m = line[t])
      BY <1>5, <1>p, <2>1, ClearBitEffect DEF CowClear
    <2>3. \A u \in Threads : u # t => line[t] \notin hold[u]
      BY <2>1 DEF LockInv
    <2> QED
      BY <1>5, <1>u, <1>m, <1>p, <2>1, <2>2, <2>3
         DEF CowClear, Current, curr, prev, LockInv
  <1>6. ASSUME NEW t \in Threads, UserNext(t), CowPush(t) PROVE MarkInv'
    <2>1. line[t] \in Lines /\ line[t] \in hold[t]
      BY <1>6 DEF CowPush, LockInv
    <2>2. \A q \in 0..1, m \in Lines :
            bitmap'[q][m] <=> bitmap[q][m] \/ (q = curr(t) /\ m = line[t])
      BY <1>6, <1>p, <2>1, SetBitEffect DEF CowPush
    <2>3. \A u \in Threads : u # t => line[t] \notin hold[u]
      BY <2>1 DEF LockInv
    <2>4. ASSUME NEW u \in Threads, InTx(u)'
          PROVE  (/\ \A m \in region[u] : m \notin left[u] => bitmap[curr(u)][m]
                  /\ pc[u] \in CopyPC => ~bitmap[curr(u)][line[u]]
                  /\ pc[u] = "push" => ~bitmap[prev(u)][line[u]]
                  /\ ~Current(u) => \A m \in hold[u] : ~bitmap[ccurr][m])'
      <3>1. CASE u = t
        BY <1>6, <1>u, <1>m, <1>c, <1>p, <2>1, <2>2, <2>3, <2>4, <3>1
           DEF CowPush, Current, curr, prev, LockInv
      <3>2. CASE u # t
        <4>1. /\ pc'[u] = pc[u] /\ line'[u] = line[u] /\ hold'[u] = hold[u]
              /\ region'[u] = region[u] /\ left'[u] = left[u]
              /\ curr(u)' = curr(u) /\ prev(u)' = prev(u) /\ (Current(u)' <=> Current(u))
              /\ ccurr' = ccurr
          BY <1>6, <1>u, <3>2 DEF CowPush, Current, curr, prev
        <4> QED
          BY <1>m, <1>p, <2>1, <2>2, <2>3, <2>4, <3>2, <4>1 DEF LockInv
      <3> QED BY <3>1, <3>2
    <2> QED BY <2>4
  <1>7. ASSUME NEW t \in Threads, UserNext(t),
               MarkReturn(t) \/ Unlock(t) \/ EndOp(t) \/ \E v \in Values : Write(t, v)
        PROVE  MarkInv'
    BY <1>7, <1>u, <1>m DEF MarkReturn, Write, Unlock, EndOp, Current, curr, prev,
          LockInv, Marking, gvars
  <1>8. ASSUME LogClear, CpNext, Next PROVE MarkInv'
    <2>1. cline \in Lines /\ cpc # "wait"
      BY <1>8 DEF LogClear, TypeInv, WorkOK
    <2>2. \A q \in 0..1, m \in Lines :
            bitmap'[q][m] <=> bitmap[q][m] /\ ~(q = cprev /\ m = cline)
      BY <1>8, <1>p, <2>1, ClearBitEffect DEF LogClear
    <2>3. ccurr' = ccurr /\ GLOBAL_EPOCH' = GLOBAL_EPOCH
      BY <1>8 DEF LogClear, ccurr, cprev
    <2> QED
      BY <1>8, <1>m, <1>c, <1>p, <2>1, <2>2, <2>3, CpFrame
         DEF Current, curr, prev, LockInv
  <1>9. ASSUME Advance \/ Finalize, CpNext, Next PROVE MarkInv'
    <2>1. ccurr' = cprev /\ \A l \in Lines : ~bitmap[cprev][l]
      BY <1>9, <1>m, EpochChange DEF Advance, Finalize, LogPC
    <2> QED
      BY <1>9, <1>m, <2>1, CpFrame DEF Advance, Finalize, Current, curr, prev
  <1>10. ASSUME CpNext, Next, ~LogClear, ~Advance, ~Finalize PROVE MarkInv'
    <2>1. UNCHANGED bitmap
      BY <1>10 DEF CpNext, LogPersistence, HeapUpdate, Loop, WaitCtx,
            StartLogPersistence, LogCtx, LogTest, LogPush, LogCtxDone,
            StartHeapUpdate, ReplayEntry, ReplayCtxEntry, ReplayDone, ReplayCtx,
            ClearCtxLog, ReplayCtxDone, ClearLog, EndCheckpoint, gvars
    <2>2. ccurr' = ccurr /\ Epoch(GLOBAL_EPOCH') = Epoch(GLOBAL_EPOCH)
      BY <1>10, EpochChange
    <2> QED
      BY <1>m, <1>10, <2>1, <2>2, CpFrame DEF Current, curr, prev
  <1>11. ASSUME Stop \/ Ended \/ UNCHANGED vars PROVE MarkInv'
    BY <1>11, <1>m DEF Stop, Ended, vars, gvars, tvars, Current, curr, prev,
          ccurr, cprev
  <1> HIDE DEF MarkInv
  <1> QED
    BY <1>0, <1>1, <1>2, <1>3, <1>4, <1>5, <1>6, <1>7, <1>8, <1>9, <1>10, <1>11
       DEF Next, UserNext, Mark

(***************************************************************************)
(* What the step of a user thread does to bits and lists: a bit that it    *)
(* sets is of its epoch and of a line it is about to list, and had no bit  *)
(* of the other epoch; lists only grow, and only those of its epoch.       *)
(***************************************************************************)
LEMMA UserBits ==
  ASSUME TypeInv, LockInv, MarkInv, NEW t \in Threads, UserNext(t),
         NEW q \in 0..1, NEW l \in Lines, bitmap'[q][l], ~bitmap[q][l]
  PROVE  /\ InTx(t) /\ q = curr(t) /\ ~bitmap[prev(t)][l]
         /\ pc'[t] \in Marking /\ fresh'[t] /\ curr(t)' = q
         /\ l \in region'[t] /\ l \notin left'[t]
  <1>t. /\ pc \in [Threads -> UserPC] /\ left \in [Threads -> SUBSET Lines]
        /\ region \in [Threads -> SUBSET Lines] /\ fresh \in [Threads -> BOOLEAN]
        /\ line \in [Threads -> Lines \cup {None}]
        /\ curr(t) \in 0..1 /\ prev(t) \in 0..1
    BY ParityRange DEF TypeInv, TypeOK
  <1>1. ASSUME NEW m \in Lines, MarkSet(t, m)
        PROVE  q = curr(t) /\ l = m
    BY <1>1, <1>t, SetBitEffect DEF MarkSet
  <1>2. ASSUME CowPush(t)
        PROVE  q = curr(t) /\ l = line[t] /\ l \in Lines /\ l \in left[t]
    <2>1. line[t] \in Lines /\ line[t] \in left[t]
      BY <1>2, <1>t DEF CowPush, LockInv, CopyPC
    <2> QED BY <1>2, <1>t, <2>1, SetBitEffect DEF CowPush
  <1>3. ASSUME CowClear(t) PROVE FALSE
    <2>1. line[t] \in Lines
      BY <1>3, <1>t DEF CowClear, LockInv, CopyPC
    <2> QED BY <1>3, <1>t, <2>1, ClearBitEffect DEF CowClear
  <1>4. (\E m \in Lines : MarkSet(t, m)) \/ CowPush(t)
    BY <1>3 DEF UserNext, Begin, Mark, ThreadInit, LockLines, BeginLoad,
         BeginStore, BeginCheck, MarkStart, MarkSkip, CowTest, MarkReturn, Write,
         Unlock, EndOp, gvars
  <1>5. CASE \E m \in Lines : MarkSet(t, m)
    <2>1. MarkSet(t, l) /\ q = curr(t)
      BY <1>1, <1>5
    <2>2. curr(t)' = curr(t)
      BY <2>1 DEF MarkSet, curr
    <2>3. /\ l \in region'[t] /\ l \notin left'[t] /\ fresh'[t]
          /\ pc'[t] = "mark" /\ pc[t] = "mark" /\ ~bitmap[prev(t)][l]
      BY <2>1, <1>t DEF MarkSet, LockInv
    <2> QED
      BY <2>1, <2>2, <2>3 DEF InTx, TxPC, Marking
  <1>6. CASE CowPush(t)
    BY <1>2, <1>6, <1>t DEF CowPush, LockInv, MarkInv, InTx, TxPC, CopyPC, Marking,
         curr
  <1> QED BY <1>4, <1>5, <1>6

LEMMA UserLists ==
  ASSUME TypeInv, NEW t \in Threads, UserNext(t)
  PROVE  \A u \in Threads, p \in 0..1 :
           /\ addrlist[u][p] \subseteq addrlist'[u][p]
           /\ addrlist'[u][p] # addrlist[u][p] => u = t /\ InTx(t) /\ p = curr(t)
  <1>1. addrlist \in [Threads -> [0..1 -> SUBSET Lines]] /\ curr(t) \in 0..1
    BY ParityRange DEF TypeInv, TypeOK
  <1>2. CASE MarkReturn(t)
    BY <1>1, <1>2 DEF MarkReturn, InTx, TxPC, CopyPC
  <1>3. CASE ~MarkReturn(t)
    BY <1>3 DEF UserNext, Begin, Mark, ThreadInit, LockLines, BeginLoad,
         BeginStore, BeginCheck, MarkStart, MarkSkip, MarkSet, CowTest, CowClear,
         CowPush, Write, Unlock, EndOp
  <1> QED BY <1>2, <1>3

\* A line that is listed, or about to be, stays so while user threads run.
LEMMA UserListed ==
  ASSUME TypeInv, NEW t \in Threads, UserNext(t),
         NEW p \in 0..1, NEW l \in Lines, Listed(p, l)
  PROVE  Listed(p, l)'
  <1>t. /\ pc \in [Threads -> UserPC] /\ left \in [Threads -> SUBSET Lines]
        /\ region \in [Threads -> SUBSET Lines] /\ fresh \in [Threads -> BOOLEAN]
        /\ addrlist \in [Threads -> [0..1 -> SUBSET Lines]]
        /\ epoch \in [Threads -> Word]
    BY DEF TypeInv, TypeOK
  <1>1. PICK u \in Threads :
          \/ l \in addrlist[u][p]
          \/ /\ pc[u] \in Marking /\ curr(u) = p /\ fresh[u]
             /\ l \in region[u] /\ l \notin left[u]
    BY DEF Listed
  <1>2. CASE l \in addrlist[u][p]
    BY <1>2, UserLists DEF Listed
  <1>3. CASE /\ pc[u] \in Marking /\ curr(u) = p /\ fresh[u]
             /\ l \in region[u] /\ l \notin left[u]
    <2>1. CASE u = t /\ MarkReturn(t)
      <3>1. l \in addrlist'[u][p]
        BY <1>t, <1>3, <2>1 DEF MarkReturn
      <3> QED BY <3>1 DEF Listed
    <2>2. CASE ~(u = t /\ MarkReturn(t))
      <3>1. /\ pc'[u] \in Marking /\ curr(u)' = p /\ fresh'[u]
            /\ l \in region'[u] /\ l \notin left'[u]
        BY <1>t, <1>3, <2>2 DEF UserNext, Begin, Mark, ThreadInit, LockLines,
             BeginLoad, BeginStore, BeginCheck, MarkStart, MarkSkip, MarkSet,
             CowTest, CowClear, CowPush, MarkReturn, Write, Unlock, EndOp,
             Marking, curr
      <3> QED BY <3>1 DEF Listed
    <2> QED BY <2>1, <2>2
  <1> QED BY <1>1, <1>2, <1>3

\* Every step keeps set bits in lists that the checkpointing thread will visit.
LEMMA ListStep ==
  ASSUME TypeInv, EpochInv, LockInv, BitInv, [Next]_vars
  PROVE  ListInv'
  <1>p. cprev \in 0..1 /\ ccurr \in 0..1 /\ cprev # ccurr
    BY ParityRange
  <1>i. MarkInv /\ ListInv /\ ArrayInv
    BY DEF BitInv
  <1>t. /\ bitmap \in [0..1 -> [Lines -> BOOLEAN]]
        /\ addrlist \in [Threads -> [0..1 -> SUBSET Lines]]
        /\ ctxs \subseteq Threads /\ cset \subseteq Threads /\ None \notin Threads
        /\ cpc \in CpPC
    BY ConstantsAssumption DEF TypeInv, TypeOK
  <1>1. ASSUME NEW t \in Threads, UserNext(t) PROVE ListInv'
    <2>1. UNCHANGED <<cprev, ccurr, cpc, cset, cctx, cwork>>
      BY <1>1, UserFrame DEF cprev, ccurr
    <2>2. ASSUME NEW p \in 0..1, NEW l \in Lines, bitmap'[p][l], ~bitmap[p][l]
          PROVE  /\ p = curr(t) /\ ~bitmap[1 - p][l] /\ Listed(p, l)'
                 /\ cpc # "wait" => p = ccurr
      <3>1. /\ InTx(t) /\ p = curr(t) /\ ~bitmap[prev(t)][l]
            /\ pc'[t] \in Marking /\ fresh'[t] /\ curr(t)' = p
            /\ l \in region'[t] /\ l \notin left'[t]
        BY <1>1, <1>i, <2>2, UserBits
      <3>2. Listed(p, l)'
        BY <3>1 DEF Listed
      <3>3. prev(t) = 1 - p /\ (cpc # "wait" => p = ccurr)
        BY <3>1, ThreadParity, ParityRange
      <3> QED BY <3>1, <3>2, <3>3
    <2>3. ASSUME NEW l \in Lines PROVE ~(bitmap'[0][l] /\ bitmap'[1][l])
      BY <1>i, <2>2 DEF ListInv
    <2>4. ASSUME NEW p \in 0..1, NEW l \in Lines, bitmap'[p][l],
                 p = ccurr \/ cpc = "wait"
          PROVE  Listed(p, l)'
      BY <1>1, <1>i, <2>2, <2>4, UserListed DEF ListInv
    <2>5. ASSUME NEW l \in Lines, ToVisit(l) PROVE ToVisit(l)'
      <3>1. PICK u \in cset : l \in addrlist[u][cprev] /\ (cctx = u => l \in cwork)
        BY <2>5 DEF ToVisit
      <3>2. l \in addrlist'[u][cprev]
        BY <1>t, <1>p, <1>1, <3>1, UserLists
      <3> QED BY <2>1, <3>1, <3>2 DEF ToVisit
    <2>6. ASSUME NEW p \in 0..1, NEW l \in Lines, bitmap'[p][l], p = cprev
          PROVE  cpc = "wait" \/ (cpc \in LogPC /\ ToVisit(l)')
      BY <1>i, <1>p, <2>2, <2>5, <2>6 DEF ListInv
    <2> QED BY <2>1, <2>3, <2>4, <2>6 DEF ListInv
  <1>2. ASSUME CpNext, Next,
               UNCHANGED <<cprev, ccurr>>,
               \A p \in 0..1, l \in Lines : bitmap'[p][l] => bitmap[p][l],
               \A u \in Threads : addrlist'[u][ccurr] = addrlist[u][ccurr],
               cpc' = "wait" => cpc = "wait" /\ UNCHANGED addrlist,
               \A l \in Lines : bitmap'[cprev][l] =>
                 cpc' = "wait" \/ (cpc' \in LogPC /\ ToVisit(l)')
        PROVE  ListInv'
    <2>1. ASSUME NEW p \in 0..1, NEW l \in Lines, bitmap'[p][l],
                 p = ccurr \/ cpc' = "wait"
          PROVE  Listed(p, l)'
      <3>1. Listed(p, l)
        BY <1>i, <1>2, <2>1 DEF ListInv
      <3> QED
        BY <1>2, <2>1, <3>1, CpFrame DEF Listed, curr
    <2> QED
      BY <1>i, <1>2, <2>1 DEF ListInv
  <1>v. \A l \in Lines : bitmap[cprev][l] =>
          cpc = "wait" \/ (cpc \in LogPC /\ ToVisit(l))
    BY <1>i, <1>p DEF ListInv
  <1>3. ASSUME CpNext, Next, NEW t \in Threads, WaitCtx(t) PROVE ListInv'
    <2>1. UNCHANGED <<cprev, ccurr, bitmap, addrlist, cpc>> /\ cpc = "wait"
      BY <1>3 DEF WaitCtx, cprev, ccurr, gvars, tvars
    <2> QED BY <1>2, <1>3, <2>1
  <1>4. ASSUME CpNext, Next, StartLogPersistence PROVE ListInv'
    <2>1. /\ UNCHANGED <<bitmap, addrlist>> /\ cpc' = "log" /\ cset' = ctxs
          /\ cctx' = None /\ cpc = "wait" /\ cset = {}
      BY <1>4, <1>i DEF StartLogPersistence, tvars, ArrayInv, LogPC
    <2>2. UNCHANGED <<cprev, ccurr>>
      BY <1>4, EpochChange DEF StartLogPersistence, Advance, Finalize
    <2>3. ASSUME NEW l \in Lines, bitmap[cprev][l] PROVE ToVisit(l)'
      <3>1. Listed(cprev, l)
        BY <1>i, <1>p, <2>1, <2>3 DEF ListInv
      <3>2. PICK t \in Threads :
              \/ l \in addrlist[t][cprev]
              \/ pc[t] \in Marking /\ curr(t) = cprev
        BY <3>1 DEF Listed
      <3>3. pc[t] \in Marking => curr(t) # cprev
        BY <1>p, <2>1, ThreadParity DEF Marking, InTx, TxPC, CopyPC
      <3>4. l \in addrlist[t][cprev] /\ t \in ctxs
        BY <1>i, <1>p, <3>2, <3>3 DEF ArrayInv, NoLines
      <3> QED BY <1>t, <2>1, <2>2, <3>4 DEF ToVisit
    <2> QED BY <1>2, <1>4, <2>1, <2>2, <2>3 DEF LogPC
  <1>5. ASSUME CpNext, Next, NEW t \in Threads, LogCtx(t) PROVE ListInv'
    <2>1. /\ UNCHANGED <<cprev, ccurr, bitmap, addrlist, cpc, cset>> /\ cpc = "log"
          /\ cctx = None /\ cctx' = t /\ cwork' = addrlist[t][cprev]
      BY <1>5 DEF LogCtx, cprev, ccurr, gvars, tvars
    <2>2. \A l \in Lines : ToVisit(l) => ToVisit(l)'
      BY <2>1 DEF ToVisit
    <2> QED BY <1>2, <1>5, <1>v, <2>1, <2>2
  <1>6. ASSUME CpNext, Next, NEW m \in Lines, LogTest(m) PROVE ListInv'
    <2>1. /\ UNCHANGED <<cprev, ccurr, bitmap, addrlist, cset, cctx>>
          /\ cpc = "log" /\ cpc' \in LogPC /\ cpc' # "wait"
          /\ \A l \in Lines : bitmap[cprev][l] /\ l \in cwork => l \in cwork'
      BY <1>6 DEF LogTest, cprev, ccurr, gvars, tvars, LogPC
    <2>2. \A l \in Lines : bitmap[cprev][l] /\ ToVisit(l) => ToVisit(l)'
      BY <2>1 DEF ToVisit
    <2> QED BY <1>2, <1>6, <1>v, <2>1, <2>2
  <1>7. ASSUME CpNext, Next, LogPush PROVE ListInv'
    <2>1. /\ UNCHANGED <<cprev, ccurr, bitmap, addrlist, cset, cctx, cwork>>
          /\ cpc = "logpush" /\ cpc' \in LogPC /\ cpc' # "wait"
      BY <1>7 DEF LogPush, cprev, ccurr, gvars, tvars, LogPC
    <2>2. \A l \in Lines : ToVisit(l) => ToVisit(l)'
      BY <2>1 DEF ToVisit
    <2> QED BY <1>2, <1>7, <1>v, <2>1, <2>2
  <1>8. ASSUME CpNext, Next, LogClear PROVE ListInv'
    <2>1. /\ UNCHANGED <<cprev, ccurr, addrlist, cset, cctx>>
          /\ cpc = "logclear" /\ cpc' \in LogPC /\ cpc' # "wait"
          /\ cwork' = cwork \ {cline} /\ cline \in Lines
      BY <1>8 DEF LogClear, cprev, ccurr, tvars, LogPC, TypeInv, WorkOK
    <2>2. \A q \in 0..1, l \in Lines :
            bitmap'[q][l] <=> bitmap[q][l] /\ ~(q = cprev /\ l = cline)
      BY <1>8, <1>p, <2>1, ClearBitEffect DEF LogClear
    <2>3. \A l \in Lines : l # cline /\ ToVisit(l) => ToVisit(l)'
      BY <2>1 DEF ToVisit
    <2> QED BY <1>p, <1>2, <1>8, <1>v, <2>1, <2>2, <2>3
  <1>9. ASSUME CpNext, Next, LogCtxDone PROVE ListInv'
    <2>1. /\ UNCHANGED <<cprev, ccurr, bitmap, cpc>> /\ cpc = "log"
          /\ cset' = cset \ {cctx} /\ cctx' = None /\ cwork = {} /\ cctx # None
      BY <1>9 DEF LogCtxDone, cprev, ccurr, gvars
    <2>2. \A u \in Threads, p \in 0..1 :
            addrlist'[u][p] = IF u = cctx /\ p = cprev THEN {} ELSE addrlist[u][p]
      BY <1>9, <1>t, <1>p DEF LogCtxDone, TypeInv, TypeOK
    <2>3. \A l \in Lines : ToVisit(l) => ToVisit(l)'
      BY <1>t, <1>p, <2>1, <2>2 DEF ToVisit
    <2> QED BY <1>p, <1>2, <1>9, <1>v, <2>1, <2>2, <2>3
  <1>10. ASSUME CpNext, Next, StartHeapUpdate PROVE ListInv'
    <2>1. /\ UNCHANGED <<bitmap, addrlist>> /\ cpc = "log" /\ cpc' = "replay"
          /\ cset = {}
      BY <1>10 DEF StartHeapUpdate, tvars
    <2>2. UNCHANGED <<cprev, ccurr>>
      BY <1>10, EpochChange DEF StartHeapUpdate, Advance, Finalize
    <2>3. \A l \in Lines : ~bitmap[cprev][l]
      BY <1>v, <2>1 DEF ToVisit
    <2> QED BY <1>2, <1>10, <2>1, <2>2, <2>3
  <1>11. ASSUME CpNext, Next, HeapUpdate \/ EndCheckpoint \/ Loop PROVE ListInv'
    <2>1. /\ UNCHANGED <<cprev, ccurr, bitmap, addrlist>> /\ cpc' # "wait"
          /\ cpc \notin LogPC \cup {"wait"}
      BY <1>11 DEF HeapUpdate, ReplayEntry, ReplayCtxEntry, ReplayDone, ReplayCtx,
           ClearCtxLog, ReplayCtxDone, ClearLog, EndCheckpoint, Loop, cprev, ccurr,
           gvars, tvars, LogPC
    <2> QED BY <1>2, <1>11, <1>v, <2>1
  <1>12. ASSUME CpNext, Next, Advance \/ Finalize PROVE ListInv'
    <2>1. UNCHANGED <<bitmap, addrlist>> /\ cpc \in FreePC
      BY <1>12 DEF Advance, Finalize, tvars, FreePC
    <2>2. cprev' = ccurr /\ ccurr' = cprev
      BY <1>12, EpochChange
    <2>3. \A l \in Lines : ~bitmap[cprev][l]
      BY <1>v, <2>1 DEF FreePC, LogPC
    <2>4. \A p \in 0..1, l \in Lines : bitmap[p][l] => p = ccurr /\ Listed(p, l)
      BY <1>i, <1>p, <2>3 DEF ListInv, ccurr
    <2>5. \A p \in 0..1, l \in Lines : Listed(p, l) => Listed(p, l)'
      BY <1>12, <2>1, CpFrame DEF Listed, curr
    <2>6. CASE Advance
      <3>1. cpc' = "wait"
        BY <2>6 DEF Advance
      <3> QED BY <1>i, <1>p, <2>1, <2>2, <2>4, <2>5, <3>1 DEF ListInv
    <2>7. CASE Finalize
      <3>1. /\ cpc' = "log" /\ cset' = ctxs /\ cctx' = None
            /\ \A t \in Threads : pc[t] \notin Marking
        BY <1>i, <2>7 DEF Finalize, ArrayInv, LogPC, EpochInv, Marking
      <3>2. ASSUME NEW l \in Lines, Listed(ccurr, l) PROVE ToVisit(l)'
        <4>1. PICK t \in Threads : l \in addrlist[t][ccurr]
          BY <3>1, <3>2 DEF Listed
        <4>2. t \in ctxs
          BY <1>i, <1>p, <4>1 DEF ArrayInv, NoLines
        <4> QED BY <1>t, <2>1, <2>2, <3>1, <4>1, <4>2 DEF ToVisit
      <3> QED BY <1>i, <1>p, <2>1, <2>2, <2>4, <3>1, <3>2 DEF ListInv, LogPC
    <2> QED BY <1>12, <2>6, <2>7
  <1>13. ASSUME Stop \/ Ended \/ UNCHANGED vars PROVE ListInv'
    <2>1. /\ UNCHANGED <<bitmap, cprev, ccurr, cpc, cset, cctx, cwork>>
          /\ UNCHANGED <<pc, epoch, fresh, region, left, addrlist>>
      BY <1>13 DEF Stop, Ended, vars, gvars, tvars, cvars, cprev, ccurr
    <2>2. \A p \in 0..1, l \in Lines : Listed(p, l)' <=> Listed(p, l)
      BY <2>1 DEF Listed, curr
    <2>3. \A l \in Lines : ToVisit(l)' <=> ToVisit(l)
      BY <2>1 DEF ToVisit
    <2> QED BY <1>i, <2>1, <2>2, <2>3 DEF ListInv
  <1> QED
    BY <1>1, <1>3, <1>4, <1>5, <1>6, <1>7, <1>8, <1>9, <1>10, <1>11, <1>12, <1>13
       DEF Next, CpNext, LogPersistence

\* Every step keeps the lists in the array of contexts, cleared in their turn.
LEMMA ArrayStep ==
  ASSUME TypeInv, EpochInv, LockInv, BitInv, [Next]_vars
  PROVE  ArrayInv'
  <1>p. cprev \in 0..1 /\ ccurr \in 0..1 /\ cprev # ccurr
    BY ParityRange
  <1>i. ArrayInv
    BY DEF BitInv
  <1>t. /\ addrlist \in [Threads -> [0..1 -> SUBSET Lines]]
        /\ ulog \in [Threads -> Log]
        /\ ctxs \subseteq Threads /\ cset \subseteq Threads /\ None \notin Threads
        /\ cctx \in Threads \cup {None}
    BY ConstantsAssumption DEF TypeInv, TypeOK
  <1>1. ASSUME NEW t \in Threads, UserNext(t) PROVE ArrayInv'
    <2>1. UNCHANGED <<cprev, cpc, cset, cctx>>
      BY <1>1, UserFrame DEF cprev
    <2>2. /\ ctxs \subseteq ctxs'
          /\ addrlist'[t] # addrlist[t] \/ ulog'[t] # ulog[t] => pc[t] # "new"
          /\ \A u \in Threads : u # t => addrlist'[u] = addrlist[u] /\ ulog'[u] = ulog[u]
      BY <1>1, <1>t DEF UserNext, Begin, Mark, ThreadInit, LockLines, BeginLoad,
           BeginStore, BeginCheck, MarkStart, MarkSkip, MarkSet, CowTest, CowClear,
           CowPush, MarkReturn, Write, Unlock, EndOp, cvars
    <2>3. \A u \in Threads : u \notin ctxs' => addrlist'[u] = NoLines /\ ulog'[u] = EmptyLog
      BY <1>i, <2>2 DEF ArrayInv, EpochInv
    <2>4. ASSUME cpc # "wait", NEW u \in Threads
          PROVE  addrlist'[u][cprev] = addrlist[u][cprev]
      BY <1>1, <1>p, <2>4, UserLists, ThreadParity
    <2> QED BY <1>i, <2>1, <2>3, <2>4 DEF ArrayInv, LogPC
  <1>2. ASSUME Advance \/ Finalize PROVE ArrayInv'
    <2>1. /\ UNCHANGED <<addrlist, ulog, ctxs, cctx>> /\ cset' = ctxs
          /\ cpc \in FreePC /\ cpc' \in {"wait", "log"}
      BY <1>2 DEF Advance, Finalize, tvars, FreePC
    <2>2. cprev' = ccurr
      BY <1>2, EpochChange DEF Next, CpNext
    <2> QED
      BY <1>i, <1>p, <2>1, <2>2 DEF ArrayInv, NoLines, FreePC, LogPC
  <1>3. ASSUME StartLogPersistence PROVE ArrayInv'
    <2>1. /\ UNCHANGED <<addrlist, ulog, ctxs, cctx>> /\ cset' = ctxs
          /\ cpc = "wait" /\ cpc' = "log"
      BY <1>3 DEF StartLogPersistence, tvars
    <2>2. cprev' = cprev
      BY <1>3, EpochChange DEF Next, CpNext, StartLogPersistence, Advance, Finalize
    <2> QED
      BY <1>i, <1>p, <2>1, <2>2 DEF ArrayInv, NoLines, LogPC
  <1>4. ASSUME StartHeapUpdate PROVE ArrayInv'
    <2>1. /\ UNCHANGED <<addrlist, ulog, ctxs, cctx>> /\ cset = {} /\ cctx = None
          /\ cpc = "log" /\ cpc' = "replay"
      BY <1>4 DEF StartHeapUpdate, tvars
    <2>2. cprev' = cprev
      BY <1>4, EpochChange DEF Next, CpNext, StartHeapUpdate, Advance, Finalize
    <2> QED
      BY <1>i, <1>p, <2>1, <2>2 DEF ArrayInv, LogPC
  <1>5. ASSUME LogCtxDone PROVE ArrayInv'
    <2>1. /\ UNCHANGED <<ulog, ctxs, cprev, cpc>> /\ cpc = "log"
          /\ cset' = cset \ {cctx} /\ cctx \in Threads
      BY <1>5, <1>t DEF LogCtxDone, cprev, gvars
    <2>2. /\ addrlist' \in [Threads -> [0..1 -> SUBSET Lines]]
          /\ \A u \in Threads, p \in 0..1 :
            addrlist'[u][p] = IF u = cctx /\ p = cprev THEN {} ELSE addrlist[u][p]
      BY <1>5, <1>t, <1>p, <2>1 DEF LogCtxDone
    <2>3. ASSUME NEW u \in Threads, u \notin ctxs PROVE addrlist'[u] = NoLines
      <3>1. addrlist'[u] \in [0..1 -> SUBSET Lines] /\ NoLines \in [0..1 -> SUBSET Lines]
        BY <2>2 DEF NoLines
      <3>2. \A p \in 0..1 : addrlist'[u][p] = NoLines[p]
        BY <1>i, <2>2, <2>3 DEF ArrayInv, NoLines
      <3> QED BY <3>1, <3>2
    <2> QED
      BY <1>i, <1>p, <1>t, <2>1, <2>2, <2>3 DEF ArrayInv, LogPC
  <1>6. ASSUME NEW t \in Threads, WaitCtx(t) \/ LogCtx(t) \/ ReplayCtx(t) \/ ClearCtxLog(t)
        PROVE  ArrayInv'
    <2>1. /\ UNCHANGED <<addrlist, ctxs, cprev, cpc>>
          /\ cpc \in LogPC => UNCHANGED cset
          /\ cpc \notin LogPC \cup {"replayctx"} => UNCHANGED cctx
          /\ \A u \in Threads : ulog'[u] \in {ulog[u], EmptyLog}
      BY <1>6, <1>t DEF WaitCtx, LogCtx, ReplayCtx, ClearCtxLog, gvars, tvars, LogPC, cprev
    <2> QED BY <1>i, <2>1 DEF ArrayInv
  <1>7. ASSUME CpNext, ~Advance, ~Finalize, ~StartLogPersistence, ~StartHeapUpdate,
               ~LogCtxDone,
               \A t \in Threads : ~WaitCtx(t) /\ ~LogCtx(t) /\ ~ReplayCtx(t) /\ ~ClearCtxLog(t)
        PROVE  ArrayInv'
    <2>1. /\ UNCHANGED <<addrlist, ulog, ctxs, cprev>>
          /\ cpc' \in LogPC => cpc \in LogPC /\ UNCHANGED cset
          /\ cpc' \notin LogPC \cup {"replayctx"} => cctx' = None
          /\ cpc' \notin LogPC \cup {"wait"} => cpc \notin LogPC \cup {"wait"}
      BY <1>7, <1>i DEF CpNext, LogPersistence, HeapUpdate, Loop, LogTest, LogPush,
           LogClear, ReplayEntry, ReplayCtxEntry, ReplayDone, ReplayCtxDone,
           ClearLog, EndCheckpoint, gvars, tvars, LogPC, cprev, ArrayInv
    <2> QED BY <1>i, <2>1 DEF ArrayInv
  <1>8. ASSUME Stop \/ Ended \/ UNCHANGED vars PROVE ArrayInv'
    BY <1>8, <1>i DEF Stop, Ended, vars, gvars, tvars, cvars, cprev, ArrayInv
  <1> QED
    BY <1>1, <1>2, <1>3, <1>4, <1>5, <1>6, <1>7, <1>8 DEF Next

\* Every step preserves what is known of bitmaps and lists.
LEMMA BitStep ==
  ASSUME TypeInv, EpochInv, LockInv, BitInv, [Next]_vars
  PROVE  BitInv'
  BY MarkStep, ListStep, ArrayStep DEF BitInv

-----------------------------------------------------------------------------
\* A bit that a user thread clears is of the previous epoch, and of the line whose
\* value it goes on to log.
LEMMA UserClears ==
  ASSUME TypeInv, EpochInv, LockInv, MarkInv, NEW t \in Threads, UserNext(t),
         NEW q \in 0..1, NEW l \in Lines, bitmap[q][l], ~bitmap'[q][l]
  PROVE  CowClear(t) /\ q = cprev /\ l = line[t] /\ Current(t)
  <1>t. /\ line \in [Threads -> Lines \cup {None}]
        /\ curr(t) \in 0..1 /\ prev(t) \in 0..1
    BY ParityRange DEF TypeInv, TypeOK
  <1>1. ASSUME NEW m \in Lines, MarkSet(t, m) PROVE FALSE
    BY <1>1, <1>t, SetBitEffect DEF MarkSet
  <1>2. ASSUME CowPush(t) PROVE FALSE
    <2>1. line[t] \in Lines
      BY <1>2, <1>t DEF CowPush, TypeInv, WorkOK, CopyPC
    <2> QED BY <1>2, <1>t, <2>1, SetBitEffect DEF CowPush
  <1>3. CowClear(t)
    BY <1>1, <1>2 DEF UserNext, Begin, Mark, ThreadInit, LockLines, BeginLoad,
         BeginStore, BeginCheck, MarkStart, MarkSkip, CowTest, MarkReturn, Write,
         Unlock, EndOp, gvars
  <1>4. pc[t] = "cow" /\ line[t] \in Lines /\ InTx(t) /\ line[t] \in hold[t]
    BY <1>3 DEF CowClear, TypeInv, WorkOK, CopyPC, InTx, TxPC, LockInv
  <1>5. q = prev(t) /\ l = line[t]
    BY <1>3, <1>4, <1>t, ClearBitEffect DEF CowClear
  <1>6. Current(t)
    BY <1>4, <1>5, ThreadParity DEF MarkInv
  <1> QED BY <1>3, <1>4, <1>5, <1>6, ThreadParity

\* What a write changes: lines whose bit of its epoch is set.
LEMMA WriteEffect ==
  ASSUME TypeInv, EpochInv, LockInv, MarkInv, NEW t \in Threads, NEW v \in Values,
         Write(t, v)
  PROVE  /\ InTx(t) /\ region[t] \subseteq hold[t]
         /\ \A l \in region[t] : bitmap[curr(t)][l]
         /\ \A l \in Lines : dram'[l] = IF l \in region[t] THEN v ELSE dram[l]
         /\ Current(t) => snap' = snap
         /\ ~Current(t) => \A l \in Lines :
              snap'[l] = IF l \in region[t] THEN v ELSE snap[l]
  BY DEF Write, InTx, TxPC, LockInv, MarkInv, Current, Overwrite

\* Every other step of a user thread leaves the DRAM heap alone.
LEMMA UserHeap ==
  ASSUME NEW t \in Threads, UserNext(t), \A v \in Values : ~Write(t, v)
  PROVE  UNCHANGED <<dram, snap>>
  BY DEF UserNext, Begin, Mark, ThreadInit, LockLines, BeginLoad,
         BeginStore, BeginCheck, MarkStart, MarkSkip, MarkSet, CowTest, CowClear,
         CowPush, MarkReturn, Unlock, EndOp, gvars, hvars

\* The checkpointing thread sets no bit, and clears one of the previous epoch.
LEMMA CpBits ==
  ASSUME TypeInv, CpNext, NEW q \in 0..1, NEW l \in Lines
  PROVE  /\ bitmap'[q][l] => bitmap[q][l]
         /\ bitmap[q][l] /\ ~bitmap'[q][l] => LogClear /\ q = cprev /\ l = cline
  <1>1. CASE LogClear
    <2>1. cline \in Lines /\ cprev \in 0..1
      BY <1>1, ParityRange DEF LogClear, TypeInv, WorkOK
    <2> QED BY <1>1, <2>1, ClearBitEffect DEF LogClear
  <1>2. CASE ~LogClear
    <2>1. UNCHANGED bitmap
      BY <1>2 DEF CpNext, LogPersistence, HeapUpdate, Loop, Advance, Finalize, WaitCtx,
            StartLogPersistence, LogCtx, LogTest, LogPush, LogCtxDone,
            StartHeapUpdate, ReplayEntry, ReplayCtxEntry, ReplayDone, ReplayCtx,
            ClearCtxLog, ReplayCtxDone, ClearLog, EndCheckpoint, gvars
    <2> QED BY <2>1
  <1> QED BY <1>1, <1>2

\* Every step keeps the unmarked lines as the previous epoch left them.
LEMMA DramStep ==
  ASSUME TypeInv, EpochInv, LockInv, BitInv, DramInv, [Next]_vars
  PROVE  DramInv'
  <1>p. cprev \in 0..1 /\ ccurr \in 0..1 /\ cprev # ccurr
    BY ParityRange
  <1>i. MarkInv
    BY DEF BitInv
  <1>1. ASSUME NEW t \in Threads, UserNext(t) PROVE DramInv'
    <2>1. ccurr' = ccurr
      BY <1>1, UserFrame DEF ccurr, cprev
    <2>2. \A l \in Lines : bitmap[ccurr][l] => bitmap'[ccurr][l]
      BY <1>1, <1>i, <1>p, UserClears
    <2>3. CASE \E v \in Values : Write(t, v)
      <3>1. PICK v \in Values : Write(t, v)
        BY <2>3
      <3>2. InTx(t) => (Current(t) => curr(t) = ccurr)
        BY ThreadParity
      <3> QED
        BY <1>i, <2>1, <2>2, <3>1, <3>2, WriteEffect DEF DramInv
    <2>4. CASE ~\E v \in Values : Write(t, v)
      BY <1>1, <2>1, <2>2, <2>4, UserHeap DEF DramInv
    <2> QED BY <2>3, <2>4
  <1>2. ASSUME CpNext, Next PROVE DramInv'
    <2>1. CASE Advance \/ Finalize
      BY <2>1 DEF Advance, Finalize, DramInv
    <2>2. CASE ~Advance /\ ~Finalize
      <3>1. ccurr' = ccurr
        BY <1>2, <2>2, EpochChange
      <3>2. UNCHANGED <<dram, snap>>
        BY <1>2, <2>2, CpFrame
           DEF CpNext, LogPersistence, HeapUpdate, Loop, WaitCtx,
            StartLogPersistence, LogCtx, LogTest, LogPush, LogClear, LogCtxDone,
            StartHeapUpdate, ReplayEntry, ReplayCtxEntry, ReplayDone, ReplayCtx,
            ClearCtxLog, ReplayCtxDone, ClearLog, EndCheckpoint, hvars
      <3> QED BY <1>2, <1>p, <3>1, <3>2, CpBits DEF DramInv
    <2> QED BY <2>1, <2>2
  <1>3. ASSUME Stop \/ Ended \/ UNCHANGED vars PROVE DramInv'
    BY <1>3 DEF Stop, Ended, vars, gvars, hvars, ccurr, cprev, DramInv
  <1> QED BY <1>1, <1>2, <1>3 DEF Next

\* Every step keeps the heap that the last checkpoint saves.
LEMMA FinalStep ==
  ASSUME TypeInv, EpochInv, FinalInv, [Next]_vars
  PROVE  FinalInv'
  <1>1. ASSUME NEW t \in Threads, UserNext(t) PROVE FinalInv'
    <2>1. UNCHANGED <<isPersisting, cpc, final>>
      BY <1>1, UserFrame
    <2>2. final => \A v \in Values : ~Write(t, v)
      BY DEF FinalInv, EpochInv, Write
    <2>3. final => UNCHANGED <<dram, snap>>
      BY <1>1, <2>2, UserHeap
    <2> QED BY <2>1, <2>3 DEF FinalInv
  <1>2. ASSUME CpNext PROVE FinalInv'
    <2>1. UNCHANGED <<dram, isPersisting>>
      BY <1>2, CpFrame
    <2>2. CASE Finalize
      BY <2>1, <2>2 DEF Finalize, FinalInv, LogPC
    <2>3. CASE Advance \/ Loop
      BY <2>1, <2>3 DEF Advance, Loop, FinalInv, LogPC, UpdatePC
    <2>4. CASE EndCheckpoint
      BY <2>1, <2>4 DEF EndCheckpoint, FinalInv, LogPC, UpdatePC, hvars
    <2>5. CASE ~Finalize /\ ~Advance /\ ~Loop /\ ~EndCheckpoint
      <3>1. /\ UNCHANGED <<snap, final>> /\ cpc' # "ended"
            /\ cpc \in LogPC \cup UpdatePC => cpc' \in LogPC \cup UpdatePC
            /\ cpc # "ended"
        BY <1>2, <2>5
           DEF CpNext, LogPersistence, HeapUpdate, WaitCtx,
            StartLogPersistence, LogCtx, LogTest, LogPush, LogClear, LogCtxDone,
            StartHeapUpdate, ReplayEntry, ReplayCtxEntry, ReplayDone, ReplayCtx,
            ClearCtxLog, ReplayCtxDone, ClearLog, hvars, LogPC, UpdatePC
      <3> QED BY <2>1, <3>1 DEF FinalInv
    <2> QED BY <2>2, <2>3, <2>4, <2>5
  <1>3. ASSUME Stop \/ Ended \/ UNCHANGED vars PROVE FinalInv'
    BY <1>3 DEF Stop, Ended, vars, gvars, cvars, hvars, FinalInv
  <1> QED BY <1>1, <1>2, <1>3 DEF Next

-----------------------------------------------------------------------------
(***************************************************************************)
(* How a user thread moves the old value of a line: from the DRAM heap,    *)
(* where the bit of the previous epoch guards it, into its log.            *)
(***************************************************************************)
LEMMA UserLogs ==
  ASSUME TypeInv, NEW t \in Threads, UserNext(t),
         NEW u \in Threads, NEW l \in Lines, ulog'[u][l] # ulog[u][l]
  PROVE  CowPush(t) /\ u = t /\ l = line[t] /\ ulog'[u][l] = dram[l]
  <1>1. CowPush(t)
    BY DEF UserNext, Begin, Mark, ThreadInit, LockLines, BeginLoad,
         BeginStore, BeginCheck, MarkStart, MarkSkip, MarkSet, CowTest, CowClear,
         MarkReturn, Write, Unlock, EndOp
  <1>2. ulog \in [Threads -> Log] /\ line[t] \in Lines
    BY <1>1 DEF TypeInv, TypeOK, WorkOK, CowPush, CopyPC
  <1>3. ulog' = [ulog EXCEPT ![t][line[t]] = dram[line[t]]]
    BY <1>1 DEF CowPush
  <1> QED BY <1>1, <1>2, <1>3 DEF Log

LEMMA UserCopies ==
  ASSUME TypeInv, EpochInv, LockInv, MarkInv, NEW t \in Threads, UserNext(t),
         NEW l \in Lines
  PROVE  /\ Copied(l) => Copied(l)'
         /\ Copying(l) => Copying(l)' \/ Copied(l)'
         /\ bitmap[cprev][l] /\ ~bitmap'[cprev][l] => Copying(l)'
  <1>t. /\ pc \in [Threads -> UserPC] /\ line \in [Threads -> Lines \cup {None}]
        /\ ulog \in [Threads -> Log] /\ cprev \in 0..1
        /\ \A m \in Lines : dram[m] # None
    BY ParityRange, ConstantsAssumption DEF TypeInv, TypeOK, Heap
  <1>1. ASSUME NEW u \in Threads, ulog[u][l] # None PROVE ulog'[u][l] # None
    BY <1>t, <1>1, UserLogs
  <1>2. ASSUME NEW u \in Threads, pc[u] = "push", line[u] = l
        PROVE  Copying(l)' \/ Copied(l)'
    <2>1. CASE CowPush(t) /\ u = t
      <3>1. ulog'[u][l] = dram[l]
        BY <1>t, <1>2, <2>1 DEF CowPush, Log
      <3> QED BY <1>t, <3>1 DEF Copied
    <2>2. CASE ~(CowPush(t) /\ u = t)
      <3>1. pc'[u] = "push" /\ line'[u] = l
        BY <1>t, <1>2, <2>2 DEF UserNext, Begin, Mark, ThreadInit, LockLines, BeginLoad,
             BeginStore, BeginCheck, MarkStart, MarkSkip, MarkSet, CowTest,
             CowClear, CowPush, MarkReturn, Write, Unlock, EndOp
      <3> QED BY <3>1 DEF Copying
    <2> QED BY <2>1, <2>2
  <1>3. ASSUME bitmap[cprev][l], ~bitmap'[cprev][l] PROVE Copying(l)'
    <2>1. CowClear(t) /\ l = line[t]
      BY <1>t, <1>3, UserClears
    <2>2. pc'[t] = "push" /\ line'[t] = l
      BY <1>t, <2>1 DEF CowClear
    <2> QED BY <2>2 DEF Copying
  <1> QED BY <1>1, <1>2, <1>3 DEF Copied, Copying

\* What the previous epoch leaves changes only while it is awaited, and only at
\* lines whose bit is set.
LEMMA UserSnap ==
  ASSUME TypeInv, EpochInv, LockInv, MarkInv, NEW t \in Threads, UserNext(t)
  PROVE  /\ cpc # "wait" => snap' = snap
         /\ \A l \in Lines : snap'[l] # snap[l] => bitmap[cprev][l] /\ UNCHANGED bitmap
  <1>1. CASE \E v \in Values : Write(t, v)
    <2>1. PICK v \in Values : Write(t, v)
      BY <1>1
    <2>2. InTx(t) => /\ cpc # "wait" => Current(t)
                     /\ ~Current(t) => curr(t) = cprev
      BY ThreadParity
    <2>3. UNCHANGED bitmap
      BY <2>1 DEF Write
    <2> QED BY <2>1, <2>2, <2>3, WriteEffect
  <1>2. CASE ~\E v \in Values : Write(t, v)
    BY <1>2, UserHeap
  <1> QED BY <1>1, <1>2

\* A thread that begins to copy a line is of the current epoch, and finds a bit of
\* the previous one.
LEMMA UserCopying ==
  ASSUME TypeInv, EpochInv, LockInv, MarkInv, NEW t \in Threads, UserNext(t),
         NEW u \in Threads, pc'[u] \in CopyPC
  PROVE  /\ Current(u)' <=> Current(u)
         /\ \/ pc[u] \in CopyPC
            \/ Current(u) /\ \E l \in Lines : bitmap[cprev][l]
  <1>t. /\ pc \in [Threads -> UserPC] /\ epoch \in [Threads -> Word]
        /\ left \in [Threads -> SUBSET Lines]
    BY DEF TypeInv, TypeOK
  <1>1. /\ epoch'[u] = epoch[u]
        /\ pc[u] \in CopyPC \/ (u = t /\ \E l \in Lines : CowTest(t, l))
    BY <1>t DEF UserNext, Begin, Mark, ThreadInit, LockLines, BeginLoad,
             BeginStore, BeginCheck, MarkStart, MarkSkip, MarkSet, CowTest,
             CowClear, CowPush, MarkReturn, Write, Unlock, EndOp, CopyPC
  <1>2. ASSUME NEW l \in Lines, CowTest(t, l) PROVE Current(t) /\ bitmap[cprev][l]
    <2>1. InTx(t) /\ l \in hold[t] /\ bitmap[prev(t)][l]
      BY <1>2 DEF CowTest, InTx, TxPC, LockInv
    <2>2. Current(t)
      BY <2>1, ThreadParity DEF MarkInv
    <2> QED BY <2>1, <2>2, ThreadParity
  <1>3. Current(u)' <=> Current(u)
    BY <1>1, UserFrame DEF Current
  <1> QED BY <1>1, <1>2, <1>3

\* The steps of user threads preserve what is known of contents.
LEMMA UserImage ==
  ASSUME TypeInv, EpochInv, LockInv, BitInv, DramInv, ImageInv, ~overrun,
         NEW t \in Threads, UserNext(t)
  PROVE  ImageInv'
  <1>p. cprev \in 0..1 /\ ccurr \in 0..1 /\ cprev # ccurr
    BY ParityRange
  <1>i. /\ MarkInv /\ ListInv
        /\ Rest /\ Closing /\ Updating
        /\ cpc \notin {"wait"} \cup LogPC => \A u \in Threads : pc[u] \notin CopyPC
    BY DEF BitInv, ImageInv
  <1>f. UNCHANGED <<cprev, ccurr, nvm, cpc, cset, cctx, cwork, cline, mlog, base>>
    BY UserFrame DEF cprev, ccurr
  <1>h. nvm' = nvm /\ cpc' = cpc /\ mlog' = mlog /\ base' = base /\ cline' = cline
    BY <1>f
  <1>c. ASSUME NEW u \in Threads, pc'[u] \in CopyPC
        PROVE  Current(u)' /\ cpc \in {"wait"} \cup LogPC
    <2>1. /\ Current(u)' <=> Current(u)
          /\ pc[u] \in CopyPC \/ (Current(u) /\ \E l \in Lines : bitmap[cprev][l])
      BY <1>c, <1>i, UserCopying
    <2>2. (\E l \in Lines : bitmap[cprev][l]) => cpc \in {"wait"} \cup LogPC
      BY <1>i, <1>p DEF ListInv
    <2>3. pc[u] \in CopyPC => cpc \in {"wait"} \cup LogPC /\ Current(u)
      BY <1>i DEF Closing
    <2> QED BY <2>1, <2>2, <2>3
  <1>q. ASSUME cpc \notin {"wait"} \cup LogPC
        PROVE  \A u \in Threads, l \in Lines : ulog'[u][l] = ulog[u][l]
    BY <1>q, <1>i, UserLogs DEF CowPush, CopyPC
  <1>z. ASSUME cpc \notin {"wait"} \cup LogPC, NEW u \in Threads
        PROVE  ulog'[u] = ulog[u]
    <2>1. ulog' \in [Threads -> Log] /\ ulog \in [Threads -> Log]
      BY TypeStep DEF TypeInv, TypeOK, Next
    <2> QED BY <1>q, <1>z, <2>1 DEF Log
  <1>1. Rest'
    BY <1>i, <1>h, <1>z, UserSnap DEF Rest, FreePC, LogPC
  <1>2. Updating'
    <2> SUFFICES ASSUME cpc \in UpdatePC PROVE Updating'
      BY <1>h DEF Updating
    <2>1. /\ snap' = snap /\ cpc \notin {"wait"} \cup LogPC
          /\ \A u \in Threads, l \in Lines : ulog'[u][l] = ulog[u][l]
          /\ \A u \in Threads : ulog'[u] = ulog[u]
      BY <1>i, <1>q, <1>z, UserSnap DEF UpdatePC, LogPC
    <2>2. \A l \in Lines : /\ Copied(l)' <=> Copied(l)
                           /\ Redone(nvm, l)' = Redone(nvm, l)
      BY <1>f, <2>1 DEF Copied, Redone
    <2> QED
      BY <1>i, <1>f, <2>1, <2>2 DEF Updating, TypeInv, TypeOK
  <1>3. Closing'
    <2> SUFFICES ASSUME cpc \in {"wait"} \cup LogPC PROVE Closing'
      BY <1>h DEF Closing
    <2>1. \A l \in Lines : bitmap[cprev][l] \/ Copying(l) \/ Copied(l)
                            => bitmap'[cprev][l] \/ Copying(l)' \/ Copied(l)'
      BY <1>i, UserCopies
    <2>2. \A l \in Lines : snap'[l] # snap[l] => bitmap'[cprev][l] /\ bitmap[cprev][l]
      BY <1>i, UserSnap
    <2>3. \A u \in Threads : pc'[u] \in CopyPC => Current(u)'
      BY <1>c
    <2>4. ASSUME NEW u \in Threads, NEW l \in Lines, ulog'[u][l] # None
          PROVE  ulog'[u][l] = snap'[l] /\ bitmap'[ccurr][l]
      <3>1. CASE ulog'[u][l] = ulog[u][l]
        <4>1. ulog[u][l] = snap[l] /\ bitmap[ccurr][l]
          BY <1>i, <2>4, <3>1 DEF Closing
        <4>2. ~bitmap[cprev][l]
          BY <1>i, <1>p, <4>1 DEF ListInv
        <4>3. bitmap'[ccurr][l]
          BY <1>i, <1>p, <4>1, UserClears
        <4> QED BY <2>2, <3>1, <4>1, <4>2, <4>3
      <3>2. CASE ulog'[u][l] # ulog[u][l]
        <4>1. CowPush(t) /\ u = t /\ l = line[t] /\ ulog'[u][l] = dram[l]
          BY <3>2, UserLogs
        <4>2. InTx(t) /\ Current(t) /\ curr(t) = ccurr /\ ~bitmap[ccurr][l]
          <5>1. InTx(t) /\ Current(t) /\ ~bitmap[curr(t)][l]
            BY <1>i, <4>1 DEF CowPush, Closing, MarkInv, InTx, TxPC, CopyPC
          <5> QED BY <5>1, ThreadParity
        <4>3. snap'[l] = snap[l] /\ dram[l] = snap[l]
          BY <4>1, <4>2 DEF CowPush, hvars, DramInv
        <4>4. bitmap'[ccurr][l]
          BY <1>p, <4>1, <4>2, SetBitEffect DEF CowPush
        <4> QED BY <4>1, <4>3, <4>4
      <3> QED BY <3>1, <3>2
    <2>5. ASSUME NEW l \in Lines
          PROVE  \/ bitmap'[cprev][l] \/ Copying(l)' \/ Copied(l)'
                 \/ snap'[l] = Redone(base, l)'
      <3>1. Redone(base, l)' = Redone(base, l)
        BY <1>h DEF Redone
      <3> QED BY <1>i, <2>1, <2>2, <3>1 DEF Closing
    <2>6. cpc = "logpush" => bitmap'[cprev][cline] \/ Copying(cline)' \/ Copied(cline)'
      <3>1. cpc = "logpush" => cline \in Lines /\ cline' = cline
        BY <1>f DEF TypeInv, WorkOK
      <3> QED BY <1>i, <2>1, <3>1 DEF Closing, Copying, Copied
    <2>7. cpc = "logclear" => \/ Copying(cline)' \/ Copied(cline)'
                              \/ mlog[cline] = snap'[cline]
      <3>1. cpc = "logclear" => cline \in Lines /\ cline' = cline /\ snap' = snap
        BY <1>f, <1>i, UserSnap DEF TypeInv, WorkOK
      <3>2. \A l \in Lines : Copying(l) \/ Copied(l) => Copying(l)' \/ Copied(l)'
        BY <1>i, UserCopies
      <3> QED BY <1>i, <3>1, <3>2 DEF Closing, Copying, Copied
    <2> QED
      BY <1>i, <1>f, <1>h, <2>3, <2>4, <2>5, <2>6, <2>7 DEF Closing
  <1> QED BY <1>1, <1>2, <1>3, <1>c, <1>h DEF ImageInv

\* The steps of the checkpointing thread preserve what is known of contents.
LEMMA CpImage ==
  ASSUME TypeInv, EpochInv, LockInv, BitInv, DramInv, ImageInv, ~overrun, ~overrun',
         CpNext, Next
  PROVE  ImageInv'
  <1>p. cprev \in 0..1 /\ ccurr \in 0..1 /\ cprev # ccurr
    BY ParityRange
  <1>i. /\ MarkInv /\ ListInv /\ ArrayInv
        /\ Rest /\ Closing /\ Updating
        /\ cpc \notin {"wait"} \cup LogPC => \A u \in Threads : pc[u] \notin CopyPC
    BY DEF BitInv, ImageInv
  <1>t. /\ snap \in Heap /\ base \in Heap /\ nvm \in Heap /\ dram \in Heap
        /\ mlog \in Log /\ ulog \in [Threads -> Log] /\ None \notin Values
        /\ None \notin Threads
    BY ConstantsAssumption DEF TypeInv, TypeOK
  <1>f. UNCHANGED <<dram, pc, epoch, region, line>>
    BY CpFrame
  <1>g. \A l \in Lines : Copying(l)' <=> Copying(l)
    BY <1>f DEF Copying
  <1>1. CASE Advance \/ Finalize
    <2>1. /\ nvm' = nvm /\ mlog' = mlog /\ ulog' = ulog /\ bitmap' = bitmap
          /\ snap' = dram /\ base' = snap /\ cpc \in FreePC /\ cpc' \in {"wait", "log"}
      BY <1>1 DEF Advance, Finalize, tvars, FreePC
    <2>2. cprev' = ccurr
      BY <1>1, EpochChange
    <2>3. /\ nvm = snap /\ mlog = EmptyLog /\ \A t \in Threads : ulog[t] = EmptyLog
          /\ \A t \in Threads : pc[t] \notin CopyPC
      BY <1>i, <2>1 DEF Rest, FreePC, LogPC
    <2>4. ASSUME NEW l \in Lines
          PROVE  bitmap'[ccurr][l] \/ snap'[l] = Redone(base, l)'
      <3>1. Redone(base, l)' = snap[l]
        BY <2>1, <2>3 DEF Redone, EmptyLog
      <3> QED BY <2>1, <3>1 DEF DramInv
    <2>5. \A t \in Threads, l \in Lines : ulog'[t][l] = None
      BY <2>1, <2>3 DEF EmptyLog
    <2>6. Closing'
      BY <1>f, <2>1, <2>2, <2>3, <2>4, <2>5 DEF Closing
    <2> QED BY <2>1, <2>6 DEF ImageInv, Rest, Updating, FreePC, UpdatePC, LogPC
  <1>2. CASE Loop
    BY <1>2, <1>i, <1>f DEF Loop, ImageInv, Rest, Closing, Updating, FreePC, UpdatePC,
         LogPC, gvars, tvars, hvars
  <1>k. ASSUME UNCHANGED <<nvm, base, snap, ulog, mlog>>, ~Advance, ~Finalize,
               cpc \in {"wait"} \cup LogPC, cpc' \in {"wait"} \cup LogPC,
               cpc' = "wait" => cpc = "wait",
               \A l \in Lines : bitmap[cprev][l] =>
                 \/ bitmap'[cprev][l] \/ Copying(l) \/ Copied(l)
                 \/ snap[l] = Redone(base, l),
               cpc' = "logpush" => cline' \in Lines /\ bitmap'[cprev][cline'],
               cpc' # "logclear"
        PROVE  ImageInv'
    <2>1. cprev' = cprev /\ ccurr' = ccurr /\ Epoch(GLOBAL_EPOCH') = Epoch(GLOBAL_EPOCH)
      BY <1>k, EpochChange
    <2>2. \A l \in Lines : /\ Copied(l)' <=> Copied(l)
                           /\ Redone(base, l)' = Redone(base, l)
      BY <1>k DEF Copied, Redone
    <2>3. \A l \in Lines : bitmap[ccurr][l] => bitmap'[ccurr][l]
      BY <1>p, CpBits
    <2>4. \A t \in Threads : Current(t)' <=> Current(t)
      BY <1>f, <2>1 DEF Current
    <2>5. /\ nvm = base /\ (cpc = "wait" => mlog = EmptyLog)
          /\ \A t \in Threads : pc[t] \in CopyPC => Current(t)
          /\ \A t \in Threads, l \in Lines :
               ulog[t][l] # None => ulog[t][l] = snap[l] /\ bitmap[ccurr][l]
          /\ \A l \in Lines : \/ bitmap[cprev][l] \/ Copying(l) \/ Copied(l)
                              \/ snap[l] = Redone(base, l)
      BY <1>k, <1>i DEF Closing
    <2>6. ASSUME NEW l \in Lines
          PROVE  \/ bitmap'[cprev][l] \/ Copying(l)' \/ Copied(l)'
                 \/ snap'[l] = Redone(base, l)'
      BY <1>g, <1>k, <2>2, <2>5
    <2>7. ASSUME NEW t \in Threads, NEW l \in Lines, ulog'[t][l] # None
          PROVE  ulog'[t][l] = snap'[l] /\ bitmap'[ccurr][l]
      BY <1>k, <2>3, <2>5, <2>7
    <2>8. Closing'
      BY <1>f, <1>k, <2>1, <2>4, <2>5, <2>6, <2>7 DEF Closing
    <2> QED BY <1>k, <2>8 DEF ImageInv, Rest, Updating, FreePC, UpdatePC, LogPC
  <1>3. CASE StartLogPersistence \/ (\E t \in Threads : WaitCtx(t) \/ LogCtx(t)) \/ LogCtxDone
    <2>1. /\ UNCHANGED <<nvm, base, snap, ulog, mlog, bitmap>> /\ ~Advance /\ ~Finalize
          /\ cpc \in {"wait"} \cup LogPC /\ cpc' \in {"wait"} \cup LogPC
          /\ cpc' = "wait" => cpc = "wait"
          /\ cpc' # "logpush" /\ cpc' # "logclear"
      BY <1>3 DEF StartLogPersistence, WaitCtx, LogCtx, LogCtxDone, Advance, Finalize,
           gvars, tvars, hvars, LogPC
    <2> QED BY <1>k, <2>1
  <1>4. CASE \E l \in Lines : LogTest(l)
    <2>1. /\ UNCHANGED <<nvm, base, snap, ulog, mlog, bitmap>> /\ ~Advance /\ ~Finalize
          /\ cpc \in {"wait"} \cup LogPC /\ cpc' \in {"wait"} \cup LogPC
          /\ cpc' # "wait" /\ cpc' # "logclear"
          /\ cpc' = "logpush" => cline' \in Lines /\ bitmap[cprev][cline']
      BY <1>4 DEF LogTest, Advance, Finalize, gvars, tvars, hvars, LogPC
    <2> QED BY <1>k, <2>1
  <1>5. CASE LogClear
    <2>1. /\ UNCHANGED <<nvm, base, snap, ulog, mlog>> /\ ~Advance /\ ~Finalize
          /\ cpc = "logclear" /\ cpc' = "log" /\ cline \in Lines
      BY <1>5 DEF LogClear, Advance, Finalize, tvars, hvars, TypeInv, WorkOK
    <2>2. \/ Copying(cline) \/ Copied(cline) \/ mlog[cline] = snap[cline]
      BY <1>i, <2>1 DEF Closing, LogPC
    <2>3. mlog[cline] = snap[cline] => snap[cline] = Redone(base, cline)
      BY <1>t, <2>1 DEF Redone, Heap
    <2>4. \A l \in Lines : bitmap[cprev][l] => \/ bitmap'[cprev][l] \/ Copying(l)
                              \/ Copied(l) \/ snap[l] = Redone(base, l)
      BY <1>p, <2>2, <2>3, CpBits
    <2> QED BY <1>k, <2>1, <2>4 DEF LogPC
  <1>6. CASE LogPush
    <2>1. /\ UNCHANGED <<nvm, base, snap, ulog, bitmap, cline, cprev, ccurr, GLOBAL_EPOCH>>
          /\ cpc = "logpush" /\ cpc' = "logclear" /\ cline \in Lines
      BY <1>6 DEF LogPush, gvars, tvars, hvars, cprev, ccurr, TypeInv, WorkOK
    <2>2. PICK v \in Copies(cline) : mlog' = [mlog EXCEPT ![cline] = v]
      BY <1>6 DEF LogPush
    <2>3. bitmap[cprev][cline] => v = snap[cline]
      <3> SUFFICES ASSUME bitmap[cprev][cline] PROVE v = snap[cline]
        OBVIOUS
      <3>1. ~bitmap[ccurr][cline]
        BY <1>i, <1>p, <2>1 DEF ListInv
      <3>2. ASSUME NEW t \in Threads, pc[t] = "write", cline \in region[t] PROVE FALSE
        <4>1. InTx(t) /\ cline \notin left[t]
          BY <3>2 DEF InTx, TxPC, LockInv
        <4>2. curr(t) = ccurr
          BY <2>1, <4>1, ThreadParity
        <4> QED BY <1>i, <3>1, <3>2, <4>1, <4>2 DEF MarkInv
      <3>3. v = dram[cline]
        BY <2>2, <3>2 DEF Copies
      <3> QED BY <2>1, <3>1, <3>3 DEF DramInv
    <2>4. bitmap[cprev][cline] \/ Copying(cline) \/ Copied(cline)
      BY <1>i, <2>1 DEF Closing, LogPC
    <2>5. \A l \in Lines : mlog'[l] = IF l = cline THEN v ELSE mlog[l]
      BY <1>t, <2>1, <2>2 DEF Log
    <2>6. \A l \in Lines : /\ Copied(l)' <=> Copied(l)
                           /\ l # cline => Redone(base, l)' = Redone(base, l)
      BY <2>1, <2>5 DEF Copied, Redone
    <2>7. \A l \in Lines : \/ bitmap[cprev][l] \/ Copying(l)' \/ Copied(l)'
                           \/ snap[l] = Redone(base, l)'
      BY <1>g, <1>i, <2>1, <2>4, <2>6 DEF Closing, LogPC
    <2>8. Copying(cline)' \/ Copied(cline)' \/ mlog'[cline] = snap[cline]
      <3>1. Copied(cline) => Copied(cline)'
        BY <2>1 DEF Copied
      <3>2. Copying(cline) => Copying(cline)'
        BY <1>f, <2>1 DEF Copying
      <3> QED BY <2>1, <2>3, <2>4, <2>5, <3>1, <3>2
    <2>9. \A t \in Threads : Current(t)' <=> Current(t)
      BY <1>f, <2>1 DEF Current
    <2>10. Closing'
      BY <1>f, <1>i, <2>1, <2>7, <2>8, <2>9 DEF Closing, LogPC
    <2> QED BY <2>1, <2>10 DEF ImageInv, Rest, Updating, FreePC, UpdatePC, LogPC
  <1>7. CASE StartHeapUpdate
    <2>1. /\ UNCHANGED <<nvm, snap, ulog, mlog>> /\ cset = {} /\ cwork' = Logged(mlog)
          /\ cpc = "log" /\ cpc' = "replay"
          /\ \A t \in Threads : pc[t] \notin CopyPC
      BY <1>7 DEF StartHeapUpdate, tvars
    <2>2. \A l \in Lines : ~bitmap[cprev][l] /\ ~Copying(l)
      BY <1>i, <1>p, <2>1 DEF ListInv, ToVisit, Copying, CopyPC
    <2>3. \A l \in Lines : /\ Copied(l)' <=> Copied(l)
                           /\ Redone(nvm, l)' = Redone(base, l)
      BY <1>i, <2>1 DEF Copied, Redone, Closing, LogPC
    <2>4. /\ \A t \in Threads, l \in Lines : ulog[t][l] \in {None, snap[l]}
          /\ \A l \in Lines : Copied(l) \/ snap[l] = Redone(base, l)
      BY <1>i, <2>1, <2>2 DEF Closing, LogPC
    <2>5. \A l \in Lines : mlog[l] # None => l \in cwork'
      BY <2>1 DEF Logged
    <2>6. Updating'
      BY <2>1, <2>3, <2>4, <2>5 DEF Updating
    <2> QED BY <1>f, <2>1, <2>6 DEF ImageInv, Rest, Closing, FreePC, UpdatePC, LogPC
  <1>u. ASSUME Updating', cpc \in UpdatePC, cpc' \in UpdatePC PROVE ImageInv'
    BY <1>f, <1>i, <1>u DEF ImageInv, Rest, Closing, FreePC, UpdatePC, LogPC
  <1>8. CASE \E m \in Lines : ReplayEntry(m)
    <2>1. PICK m \in Lines : ReplayEntry(m)
      BY <1>8
    <2>2. /\ UNCHANGED <<snap, ulog, mlog, cpc>> /\ cpc = "replay"
          /\ cwork' = cwork \ {m} /\ m \in cwork
          /\ nvm' = [nvm EXCEPT ![m] = mlog[m]] /\ mlog[m] # None
      BY <2>1 DEF ReplayEntry, tvars, hvars, TypeInv, WorkOK
    <2>3. \A l \in Lines : nvm'[l] = IF l = m THEN mlog[m] ELSE nvm[l]
      BY <1>t, <2>2 DEF Heap
    <2>4. \A l \in Lines : /\ Copied(l)' <=> Copied(l)
                           /\ Redone(nvm, l)' = Redone(nvm, l)
      BY <2>2, <2>3 DEF Copied, Redone
    <2>5. Updating'
      BY <1>i, <2>2, <2>3, <2>4 DEF Updating, UpdatePC
    <2> QED BY <1>u, <2>2, <2>5 DEF UpdatePC
  <1>9. CASE ReplayDone
    <2>1. /\ UNCHANGED <<nvm, snap, ulog, mlog>> /\ cpc = "replay" /\ cpc' = "replayctx"
          /\ cset' = ctxs /\ cwork = {} /\ cctx' = None
      BY <1>9 DEF ReplayDone, gvars, tvars, hvars, TypeInv, WorkOK
    <2>2. /\ \A t \in Threads, l \in Lines : ulog[t][l] \in {None, snap[l]}
          /\ \A l \in Lines : /\ Copied(l) \/ snap[l] = Redone(nvm, l)
                              /\ mlog[l] # None => nvm[l] = mlog[l]
      BY <1>i, <2>1 DEF Updating, UpdatePC
    <2>3. \A l \in Lines : Copied(l) => \E t \in ctxs : ulog[t][l] # None
      BY <1>i DEF Copied, ArrayInv, EmptyLog
    <2>4. \A l \in Lines : \/ nvm[l] = snap[l]
                           \/ \E t \in ctxs : ulog[t][l] # None
      BY <2>2, <2>3 DEF Redone
    <2>5. \A l \in Lines : Copied(l)' \/ mlog[l] \in {None, snap[l]}
      BY <2>1, <2>2 DEF Redone, Copied
    <2>6. \A t \in ctxs : cctx' # t
      BY <1>t, <2>1 DEF TypeInv, TypeOK
    <2>7. Updating'
      BY <2>1, <2>2, <2>4, <2>5, <2>6 DEF Updating
    <2> QED BY <1>u, <2>1, <2>7 DEF UpdatePC
  <1>10. CASE \E t \in Threads : ReplayCtx(t)
    <2>1. PICK t \in Threads : ReplayCtx(t)
      BY <1>10
    <2>2. /\ UNCHANGED <<nvm, snap, ulog, mlog, cset, cpc>> /\ cpc = "replayctx"
          /\ cctx = None /\ cctx' = t /\ cwork' = Logged(ulog[t])
      BY <2>1 DEF ReplayCtx, gvars, tvars, hvars
    <2>3. \A l \in Lines : Copied(l)' <=> Copied(l)
      BY <2>2 DEF Copied
    <2>4. \A l \in Lines : ulog[t][l] # None => l \in cwork'
      BY <2>2 DEF Logged
    <2>5. Updating'
      BY <1>i, <2>2, <2>3, <2>4 DEF Updating, UpdatePC
    <2> QED BY <1>u, <2>2, <2>5 DEF UpdatePC
  <1>11. CASE \E m \in Lines : ReplayCtxEntry(m)
    <2>1. PICK m \in Lines : ReplayCtxEntry(m)
      BY <1>11
    <2>2. /\ UNCHANGED <<snap, ulog, mlog, cset, cctx, cpc>> /\ cpc = "replayctx"
          /\ cwork' = cwork \ {m} /\ nvm' = [nvm EXCEPT ![m] = ulog[cctx][m]]
          /\ cctx \in Threads /\ ulog[cctx][m] # None
      BY <2>1 DEF ReplayCtxEntry, tvars, hvars, TypeInv, WorkOK
    <2>3. ulog[cctx][m] = snap[m]
      BY <1>i, <2>2 DEF Updating, UpdatePC
    <2>4. \A l \in Lines : nvm'[l] = IF l = m THEN snap[m] ELSE nvm[l]
      BY <1>t, <2>2, <2>3 DEF Heap
    <2>5. \A l \in Lines : Copied(l)' <=> Copied(l)
      BY <2>2 DEF Copied
    <2>6. Updating'
      BY <1>i, <2>2, <2>4, <2>5 DEF Updating, UpdatePC
    <2> QED BY <1>u, <2>2, <2>6 DEF UpdatePC
  <1>12. CASE ReplayCtxDone
    <2>1. /\ UNCHANGED <<nvm, snap, ulog, mlog, cpc>> /\ cpc = "replayctx"
          /\ cset' = cset \ {cctx} /\ cctx' = None /\ cwork = {}
      BY <1>12 DEF ReplayCtxDone, gvars, tvars, hvars
    <2>2. \A l \in Lines : Copied(l)' <=> Copied(l)
      BY <2>1 DEF Copied
    <2>3. \A t \in cset : cctx' # t
      BY <1>t, <2>1 DEF TypeInv, TypeOK
    <2>4. Updating'
      BY <1>i, <2>1, <2>2, <2>3 DEF Updating, UpdatePC
    <2> QED BY <1>u, <2>1, <2>4 DEF UpdatePC
  <1>13. CASE ClearLog
    <2>1. /\ UNCHANGED <<nvm, snap, ulog>> /\ cpc = "replayctx" /\ cpc' = "clearctx"
          /\ cset' = ctxs /\ cset = {} /\ mlog' = EmptyLog
      BY <1>13 DEF ClearLog, gvars, tvars, hvars
    <2>2. \A l \in Lines : nvm[l] = snap[l]
      BY <1>i, <2>1 DEF Updating, UpdatePC
    <2>3. nvm = snap
      BY <1>t, <2>2 DEF Heap
    <2>4. \A t \in Threads : t \notin ctxs => ulog[t] = EmptyLog
      BY <1>i DEF ArrayInv
    <2>5. \A t \in Threads, l \in Lines : ulog[t][l] \in {None, snap[l]}
      BY <1>i, <2>1 DEF Updating, UpdatePC
    <2>6. Updating'
      BY <2>1, <2>3, <2>4, <2>5 DEF Updating
    <2> QED BY <1>u, <2>1, <2>6 DEF UpdatePC
  <1>14. CASE \E t \in Threads : ClearCtxLog(t)
    <2>1. PICK t \in Threads : ClearCtxLog(t)
      BY <1>14
    <2>2. /\ UNCHANGED <<nvm, snap, mlog, cpc>> /\ cpc = "clearctx"
          /\ cset' = cset \ {t} /\ ulog' = [ulog EXCEPT ![t] = EmptyLog]
      BY <2>1 DEF ClearCtxLog, gvars, hvars
    <2>3. \A u \in Threads : ulog'[u] = IF u = t THEN EmptyLog ELSE ulog[u]
      BY <1>t, <2>2
    <2>4. \A l \in Lines : EmptyLog[l] = None
      BY DEF EmptyLog
    <2>5. Updating'
      BY <1>i, <2>2, <2>3, <2>4 DEF Updating, UpdatePC
    <2> QED BY <1>u, <2>2, <2>5 DEF UpdatePC
  <1>15. CASE EndCheckpoint
    <2>1. /\ UNCHANGED <<nvm, snap, mlog, ulog>> /\ cpc = "clearctx"
          /\ cset = {} /\ cpc' \in {"ended", "idle"}
      BY <1>15 DEF EndCheckpoint, gvars, tvars, hvars
    <2>2. nvm = snap /\ mlog = EmptyLog /\ \A t \in Threads : ulog[t] = EmptyLog
      BY <1>i, <2>1 DEF Updating, UpdatePC
    <2> QED
      BY <1>f, <1>i, <2>1, <2>2
         DEF ImageInv, Rest, Closing, Updating, FreePC, UpdatePC, LogPC
  <1> QED
    BY <1>1, <1>2, <1>3, <1>4, <1>5, <1>6, <1>7, <1>8, <1>9, <1>10, <1>11, <1>12,
       <1>13, <1>14, <1>15 DEF CpNext, LogPersistence, HeapUpdate

\* Every step preserves what is known of contents.  An overrun is never undone.
LEMMA ImageStep ==
  ASSUME TypeInv, EpochInv, LockInv, BitInv, DramInv, ImageInv, [Next]_vars
  PROVE  ImageInv'
  <1> SUFFICES ASSUME ~overrun' PROVE ImageInv'
    BY DEF ImageInv
  <1>1. ASSUME NEW t \in Threads, UserNext(t) PROVE ImageInv'
    <2>1. ~overrun
      BY <1>1, UserFrame
    <2> QED BY <1>1, <2>1, UserImage
  <1>2. ASSUME CpNext PROVE ImageInv'
    <2>1. ~overrun
      BY <1>2 DEF CpNext, LogPersistence, HeapUpdate, Loop, Advance, Finalize, WaitCtx,
            StartLogPersistence, LogCtx, LogTest, LogPush, LogClear, LogCtxDone,
            StartHeapUpdate, ReplayEntry, ReplayCtxEntry, ReplayDone, ReplayCtx,
            ClearCtxLog, ReplayCtxDone, ClearLog, EndCheckpoint, hvars
    <2>2. Next
      BY <1>2 DEF Next
    <2> QED BY <1>2, <2>1, <2>2, CpImage
  <1>3. ASSUME Stop \/ Ended \/ UNCHANGED vars PROVE ImageInv'
    <2>1. /\ UNCHANGED <<bitmap, nvm, pc, epoch, line, ulog, cpc, cset, cctx, cwork>>
          /\ UNCHANGED <<cline, mlog, snap, base, overrun, cprev, ccurr, GLOBAL_EPOCH>>
      BY <1>3 DEF Stop, Ended, vars, gvars, tvars, cvars, hvars, cprev, ccurr
    <2>2. /\ \A t \in Threads : Current(t)' <=> Current(t)
          /\ \A l \in Lines : /\ Copying(l)' <=> Copying(l)
                              /\ Copied(l)' <=> Copied(l)
                              /\ Redone(base, l)' = Redone(base, l)
                              /\ Redone(nvm, l)' = Redone(nvm, l)
      BY <2>1 DEF Current, Copying, Copied, Redone
    <2>3. /\ Copying(cline)' <=> Copying(cline)
          /\ Copied(cline)' <=> Copied(cline)
      BY <2>1 DEF Copying, Copied
    <2>4. Closing => Closing'
      BY <2>1, <2>2, <2>3 DEF Closing
    <2>5. Updating => Updating'
      BY <2>1, <2>2 DEF Updating
    <2> QED BY <2>1, <2>4, <2>5 DEF ImageInv, Rest
  <1> QED BY <1>1, <1>2, <1>3 DEF Next

-----------------------------------------------------------------------------
\* The program starts in a state of the invariant, and every step preserves it.
LEMMA HeapInit == Init => HeapInv
  <1> SUFFICES ASSUME Init PROVE HeapInv
    OBVIOUS
  <1>p. cprev \in 0..1 /\ ccurr \in 0..1
    BY TypeInit, ParityRange
  <1>1. LockInv /\ FinalInv
    BY DEF Init, LockInv, FinalInv, Marking, CopyPC
  <1>2. MarkInv /\ ListInv /\ DramInv
    BY <1>p DEF Init, MarkInv, ListInv, DramInv, InTx, TxPC, CopyPC
  <1>3. ArrayInv
    BY <1>p DEF Init, ArrayInv, NoLines
  <1>4. ImageInv
    BY DEF Init, ImageInv, Rest, Closing, Updating, CopyPC, LogPC, UpdatePC
  <1> QED BY <1>1, <1>2, <1>3, <1>4 DEF HeapInv, BitInv

LEMMA HeapStep ==
  ASSUME TypeInv, EpochInv, HeapInv, [Next]_vars
  PROVE  HeapInv'
  BY LockStep, BitStep, DramStep, FinalStep, ImageStep DEF HeapInv

LEMMA HeapInvInductive == Spec => [](TypeInv /\ EpochInv /\ HeapInv)
  <1>1. Init => HeapInv
    BY HeapInit
  <1>2. TypeInv /\ EpochInv /\ HeapInv /\ [Next]_vars => HeapInv'
    BY HeapStep
  <1> QED
    BY <1>1, <1>2, EpochInvInductive, PTL DEF Spec

\* What the invariant says of the state, whatever has led to it.
LEMMA HeapInvImplies ==
  ASSUME TypeInv, HeapInv
  PROVE  BitmapRecycled /\ CheckpointImage /\ RedoLogsComplete /\ CleanShutdown
  <1>p. cprev \in 0..1
    BY ParityRange
  <1>1. BitmapRecycled
    BY <1>p DEF HeapInv, BitInv, ListInv, ArrayInv, BitmapRecycled, FreePC, UpdatePC,
         LogPC
  <1>2. CheckpointImage
    BY DEF HeapInv, ImageInv, Rest, Closing, CheckpointImage
  <1>3. RedoLogsComplete
    <2> SUFFICES ASSUME ~overrun, cpc \in UpdatePC, NEW l \in Lines
                 PROVE  /\ \A t \in Threads : ulog[t][l] \in {None, snap[l]}
                        /\ (\A t \in Threads : ulog[t][l] = None) =>
                             snap[l] = IF mlog[l] = None THEN nvm[l] ELSE mlog[l]
      BY DEF RedoLogsComplete
    <2>1. Updating /\ cset \subseteq Threads
      BY DEF HeapInv, ImageInv, TypeInv, TypeOK
    <2>2. CASE cpc = "replay"
      BY <2>1, <2>2 DEF Updating, Copied, Redone
    <2>3. CASE cpc = "replayctx"
      BY <2>1, <2>3 DEF Updating, Copied
    <2>4. CASE cpc = "clearctx"
      BY <2>1, <2>4 DEF Updating, EmptyLog
    <2> QED BY <2>2, <2>3, <2>4 DEF UpdatePC
  <1>4. CleanShutdown
    BY DEF HeapInv, FinalInv, ImageInv, Rest, CleanShutdown
  <1> QED BY <1>1, <1>2, <1>3, <1>4

(***************************************************************************)
(* The two bitmaps and address lists are reused in turn: when an epoch     *)
(* begins, those of its parity are clear, so mark() sees its writes as new *)
(* and log_persistence_unit finds in its lists only what it has written.   *)
(***************************************************************************)
THEOREM BitmapsAreRecycled == Spec => []BitmapRecycled
  BY HeapInvInductive, HeapInvImplies, PTL

(***************************************************************************)
(* As long as no thread was copying a line when an NVM heap update began,  *)
(* the NVM heap between checkpoints is exactly what the previous epoch has *)
(* left, and stays what the one before left until the next update begins.  *)
(***************************************************************************)
THEOREM CheckpointsAreImages == Spec => []CheckpointImage
  BY HeapInvInductive, HeapInvImplies, PTL

(***************************************************************************)
(* Under the same condition, from the start of the NVM heap update to the  *)
(* last clear of a log, replaying the redo logs over the NVM heap as it is *)
(* yields what the previous epoch has left.                                *)
(***************************************************************************)
THEOREM RedoLogsAreComplete == Spec => []RedoLogsComplete
  BY HeapInvInductive, HeapInvImplies, PTL

(***************************************************************************)
(* Under the same condition, once finalize() has ended, the NVM heap has   *)
(* every write of every transaction.                                       *)
(***************************************************************************)
THEOREM ShutdownIsClean == Spec => []CleanShutdown
  BY HeapInvInductive, HeapInvImplies, PTL

-----------------------------------------------------------------------------
(***************************************************************************)
(* Crashes of both kinds, restarts, and the refinement.                    *)
(*                                                                         *)
(* Recovery re-establishes the invariant of the running program from any   *)
(* heap and word a crash can leave.  Outside the NVM heap update a crash   *)
(* leaves the NVM heap as it is, everything replayed into it being behind  *)
(* a fence.  With the meaning of the invariant, this gives the image that  *)
(* recovery finds and each step of the refinement.                         *)
(***************************************************************************)

\* What a crash can leave: epoch words, and a heap that may be as it is now.
MediaInv ==
  /\ words \subseteq Word
  /\ pending \in [Lines -> SUBSET Values]
  /\ \A l \in Lines : nvm[l] \in pending[l]

RInv == TypeInv /\ EpochInv /\ HeapInv /\ MediaInv /\ DurableBeforeClear

-----------------------------------------------------------------------------
\* Epoch() masks the phase out, so escort_init never sees Log_Persistence and
\* takes the NVM heap as it is.
LEMMA RecoveredHeapIsFound ==
  ASSUME NEW heap, NEW word \in Word
  PROVE  RecoveredHeap(heap, word) = heap
  <1>1. word \in Nat
    BY EpochLimitAssumption DEF Word
  <1>2. Epoch(word) \in Nat /\ Epoch(word) < EpochLimit
    BY <1>1, EpochRange, EpochLimitAssumption
  <1>3. get_phase(Epoch(word)) = NHU /\ Epoch(Epoch(word)) = Epoch(word)
    BY <1>2, EpochOfSmall
  <1> QED BY <1>3 DEF RecoveredHeap, NHU, LP

\* recovery::copy into a zeroed DRAM heap copies all of the NVM heap.
LEMMA CopyCopies ==
  ASSUME NEW heap \in Heap
  PROVE  copy([l \in Lines |-> InitVal], heap) = heap
  BY DEF copy, Heap

\* Recovery gives the new process a state of the invariant.
LEMMA RestartInv ==
  ASSUME MediaInv, NEW heap \in CrashHeaps, NEW word \in words, RestartFrom(heap, word)
  PROVE  /\ nvm' = heap /\ dram' = heap /\ snap' = heap /\ RInv'
  <1>1. /\ nvm' = heap /\ dram' = heap /\ snap' = heap /\ base' = heap
        /\ heap \in Heap /\ GLOBAL_EPOCH' = word /\ word \in Word
    <2>1. heap \in Heap /\ word \in Word
      BY DEF MediaInv, CrashHeaps
    <2>2. nvm' = heap
      BY <2>1, RecoveredHeapIsFound DEF RestartFrom
    <2> QED
      BY <2>1, <2>2, CopyCopies DEF RestartFrom, RecoveredEpoch
  <1>2. TypeInv'
    <2>1. addrlist' \in [Threads -> [0..1 -> SUBSET Lines]]
      BY DEF RestartFrom, NoLines
    <2>2. mlog' \in Log /\ ulog' \in [Threads -> Log]
      BY DEF RestartFrom, init_manager, FreshLogs, EmptyLog, Log
    <2>3. pc' \in [Threads -> UserPC] /\ cpc' \in CpPC
      BY DEF RestartFrom, UserPC, CpPC, FreePC
    <2>4. bitmap' \in [0..1 -> [Lines -> BOOLEAN]]
      BY DEF RestartFrom, init_bitmap
    <2>5. WorkOK'
      BY DEF RestartFrom, WorkOK, CopyPC
    <2> QED
      BY <1>1, <2>1, <2>2, <2>3, <2>4, <2>5, ZeroWord DEF RestartFrom, TypeInv, TypeOK
  <1>3. EpochInv'
    BY DEF RestartFrom, EpochInv, EpochDiscipline, InTx, TxPC, CopyPC
  <1>4. HeapInv'
    <2>1. TypeInv' => (cprev \in 0..1 /\ ccurr \in 0..1)'
      BY ParityRange, PTL
    <2>2. LockInv' /\ FinalInv'
      BY DEF RestartFrom, LockInv, FinalInv, Marking, CopyPC
    <2>3. MarkInv' /\ ListInv' /\ DramInv'
      BY <1>1, <1>2, <2>1
         DEF RestartFrom, init_bitmap, MarkInv, ListInv, DramInv, InTx, TxPC, CopyPC
    <2>4. ArrayInv'
      BY <1>2, <2>1 DEF RestartFrom, ArrayInv, NoLines, FreshLogs, init_manager
    <2>5. ImageInv'
      BY <1>1 DEF RestartFrom, FreshLogs, init_manager, ImageInv, Rest, Closing,
           Updating, CopyPC, LogPC, UpdatePC
    <2> QED BY <2>2, <2>3, <2>4, <2>5 DEF HeapInv, BitInv
  <1>5. MediaInv' /\ DurableBeforeClear'
    BY <1>1 DEF RestartFrom, MediaInv, DurableBeforeClear, Heap
  <1> QED BY <1>1, <1>2, <1>3, <1>4, <1>5 DEF RInv

-----------------------------------------------------------------------------
\* The NVM heap changes only while redo logs are replayed into it.
LEMMA HeapChange ==
  ASSUME Next
  PROVE  nvm' = nvm \/ (cpc \in {"replay", "replayctx"} /\ cpc' = cpc)
  BY UserFrame DEF Next, CpNext, LogPersistence, HeapUpdate, Loop, Advance, Finalize,
       WaitCtx, StartLogPersistence, LogCtx, LogTest, LogPush, LogClear, LogCtxDone,
       StartHeapUpdate, ReplayEntry, ReplayCtxEntry, ReplayDone, ReplayCtx,
       ClearCtxLog, ReplayCtxDone, ClearLog, EndCheckpoint, Stop, Ended, vars, gvars

\* A step of the running process keeps the fences where they are needed.
LEMMA RunMedia ==
  ASSUME TypeInv, TypeInv', MediaInv, DurableBeforeClear, Run
  PROVE  MediaInv' /\ DurableBeforeClear'
  <1>1. /\ nvm \in Heap /\ nvm' \in Heap /\ GLOBAL_EPOCH' \in Word
    BY DEF TypeInv, TypeOK
  <1>2. words' \subseteq Word
    BY <1>1 DEF Run, MediaInv
  <1>3. \A l \in Lines :
          pending'[l] = IF Fence \/ ~PowerFails THEN {nvm'[l]}
                        ELSE IF nvm'[l] = nvm[l] THEN pending[l] ELSE Values
    BY DEF Run
  <1>4. pending' \in [Lines -> SUBSET Values]
    <2>1. pending' = [l \in Lines |-> pending'[l]]
      BY DEF Run
    <2>2. ASSUME NEW l \in Lines PROVE pending'[l] \subseteq Values
      <3>1. nvm'[l] \in Values /\ pending[l] \subseteq Values
        BY <1>1 DEF MediaInv, Heap
      <3>2. pending'[l] = {nvm'[l]} \/ pending'[l] = pending[l] \/ pending'[l] = Values
        BY <1>3
      <3> QED BY <3>1, <3>2
    <2> QED BY <2>1, <2>2
  <1>5. \A l \in Lines : nvm'[l] \in pending'[l]
    BY <1>1, <1>3 DEF MediaInv, Heap
  <1>6. ASSUME cpc' \notin {"replay", "replayctx"}, NEW l \in Lines
        PROVE  pending'[l] = {nvm'[l]}
    <2>1. CASE cpc \in {"replay", "replayctx"}
      BY <1>3, <1>6, <2>1 DEF Fence
    <2>2. CASE cpc \notin {"replay", "replayctx"}
      <3>1. nvm' = nvm /\ pending[l] = {nvm[l]}
        BY <2>2, HeapChange DEF Run, DurableBeforeClear
      <3> QED BY <1>3, <3>1
    <2> QED BY <2>1, <2>2
  <1> QED BY <1>2, <1>4, <1>5, <1>6 DEF MediaInv, DurableBeforeClear

LEMMA RStep ==
  ASSUME RInv, [RNext]_rvars
  PROVE  RInv'
  <1>1. CASE Run
    <2>1. [Next]_vars
      BY <1>1 DEF Run
    <2>2. TypeInv' /\ EpochInv' /\ HeapInv'
      BY <2>1, TypeStep, EpochStep, HeapStep DEF RInv
    <2> QED BY <1>1, <2>2, RunMedia DEF RInv
  <1>2. CASE Restart
    BY <1>2, RestartInv DEF Restart, RInv
  <1>3. CASE UNCHANGED rvars
    <2>1. UNCHANGED vars /\ UNCHANGED <<nvm, cpc, pending, words>>
      BY <1>3 DEF rvars, vars, gvars, cvars
    <2>2. TypeInv' /\ EpochInv' /\ HeapInv'
      BY <2>1, TypeStep, EpochStep, HeapStep DEF RInv
    <2> QED BY <2>1, <2>2 DEF RInv, MediaInv, DurableBeforeClear
  <1> QED BY <1>1, <1>2, <1>3 DEF RNext

LEMMA RInitInv == RInit => RInv
  <1> SUFFICES ASSUME RInit PROVE RInv
    OBVIOUS
  <1>1. TypeInv /\ HeapInv
    BY TypeInit, HeapInit DEF RInit
  <1>2. EpochInv
    BY DEF RInit, Init, EpochInv, EpochDiscipline, InTx, TxPC, CopyPC
  <1>3. MediaInv /\ DurableBeforeClear
    BY <1>1 DEF RInit, MediaInv, DurableBeforeClear, TypeInv, TypeOK, Heap
  <1> QED BY <1>1, <1>2, <1>3 DEF RInv

\* The invariant holds throughout every behaviour, crashes included.
LEMMA RInvInductive == RSpec => []RInv
  <1>1. RInit => RInv
    BY RInitInv
  <1>2. RInv /\ [RNext]_rvars => RInv'
    BY RStep
  <1> QED BY <1>1, <1>2, PTL DEF RSpec

-----------------------------------------------------------------------------
(***************************************************************************)
(* clear_redo_logs begins only when every line that was replayed is in NVM *)
(* for good, whether crashes are kills or power failures.                  *)
(***************************************************************************)
THEOREM ReplayIsDurable == RSpec => []DurableBeforeClear
  BY RInvInductive, PTL DEF RInv

(***************************************************************************)
(* What the theorems above prove of one process holds of every process in  *)
(* a series of crashes and restarts: escort_init leaves no bit, list entry *)
(* or log entry behind that a later checkpoint would trip over, and no     *)
(* transaction of an earlier process in the way of the epoch protocol.     *)
(***************************************************************************)
THEOREM RestartsAreHarmless ==
  RSpec => [](/\ TypeOK /\ EpochDiscipline /\ OverlapIsAnnounced
              /\ BitmapRecycled /\ CheckpointImage /\ RedoLogsComplete /\ CleanShutdown)
  <1>1. ASSUME RInv
        PROVE  /\ TypeOK /\ EpochDiscipline /\ OverlapIsAnnounced
               /\ BitmapRecycled /\ CheckpointImage /\ RedoLogsComplete /\ CleanShutdown
    BY <1>1, HeapInvImplies, OverlapAnnounced DEF RInv, TypeInv, EpochInv
  <1> QED BY <1>1, RInvInductive, PTL

\* Outside the NVM heap update, what recovery finds is the last checkpoint.
LEMMA CrashImage ==
  ASSUME RInv, ~overrun, cpc \notin UpdatePC, NEW heap \in CrashHeaps
  PROVE  /\ heap = nvm
         /\ heap = IF cpc \in ClosingPC THEN base ELSE snap
  <1>1. heap \in Heap /\ nvm \in Heap /\ cpc \in CpPC
    BY DEF CrashHeaps, RInv, TypeInv, TypeOK
  <1>2. \A l \in Lines : pending[l] = {nvm[l]}
    BY DEF RInv, DurableBeforeClear, UpdatePC
  <1>3. \A l \in Lines : heap[l] = nvm[l]
    BY <1>2 DEF CrashHeaps
  <1>4. heap = nvm
    BY <1>1, <1>3 DEF Heap
  <1>5. CheckpointImage
    BY HeapInvImplies DEF RInv
  <1> QED BY <1>1, <1>4, <1>5 DEF CheckpointImage, ClosingPC, CpPC

(***************************************************************************)
(* A crash outside the NVM heap update loses at most the epochs that were  *)
(* not yet being replayed: whatever the crash leaves, escort_init recovers *)
(* exactly the heap of the last finished checkpoint.                       *)
(***************************************************************************)
THEOREM RecoveryIsExact == RSpec => []RecoveryKeepsCheckpoint
  <1>1. ASSUME RInv PROVE RecoveryKeepsCheckpoint
    <2>1. words \subseteq Word
      BY <1>1 DEF RInv, MediaInv
    <2> QED
      BY <1>1, <2>1, CrashImage, RecoveredHeapIsFound DEF RecoveryKeepsCheckpoint
  <1> QED BY <1>1, RInvInductive, PTL

(***************************************************************************)
(* The epoch number never skips: a step leaves it, adds one, or, after a   *)
(* crash, takes up a word that the killed process had stored.              *)
(***************************************************************************)
THEOREM EpochsAreSuccessive == RSpec => EpochAdvancesByOne
  <1>1. ASSUME RInv, [RNext]_rvars
        PROVE  [\/ Epoch(GLOBAL_EPOCH') - Epoch(GLOBAL_EPOCH) \in {0, 1}
                \/ GLOBAL_EPOCH' \in words]_rvars
    <2>1. Epoch(GLOBAL_EPOCH) \in Int
      BY <1>1, EpochRange, EpochLimitAssumption DEF RInv, TypeInv, TypeOK, Word
    <2>2. CASE Run
      <3>1. TypeInv /\ Next
        BY <1>1, <2>2 DEF RInv, Run
      <3> QED BY <2>1, <3>1, EpochChange
    <2>3. CASE Restart
      BY <2>3 DEF Restart, RestartFrom, RecoveredEpoch
    <2> QED BY <1>1, <2>2, <2>3 DEF RNext
  <1> QED BY <1>1, RInvInductive, PTL DEF RSpec, EpochAdvancesByOne

-----------------------------------------------------------------------------
(***************************************************************************)
(* The refinement mapping.                                                 *)
(***************************************************************************)
Durable == IF cpc \in UpdatePC THEN Replayed ELSE nvm
Open    == IF cpc \in ClosingPC THEN "closing" ELSE "open"
Runs    == [t \in Threads |-> IF ~InTx(t) THEN "none"
                              ELSE IF Current(t) THEN "current" ELSE "previous"]

\* What a complete replay would leave is what the previous epoch has left, so an
\* epoch is durable from the moment its logs are complete.
LEMMA DurableImage ==
  ASSUME TypeInv, HeapInv, ~overrun
  PROVE  Durable = IF cpc \in ClosingPC THEN base ELSE snap
  <1>1. CASE cpc \in UpdatePC
    <2>1. snap \in Heap /\ ctxs \subseteq Threads
      BY DEF TypeInv, TypeOK
    <2>2. RedoLogsComplete /\ \A t \in Threads : t \notin ctxs => ulog[t] = EmptyLog
      BY HeapInvImplies DEF HeapInv, BitInv, ArrayInv
    <2>3. ASSUME NEW l \in Lines PROVE Replayed[l] = snap[l]
      <3>1. CASE \E t \in ctxs : ulog[t][l] # None
        <4> DEFINE t == CHOOSE t \in ctxs : ulog[t][l] # None
        <4>1. t \in ctxs /\ ulog[t][l] # None
          BY <3>1
        <4>2. ulog[t][l] = snap[l]
          BY <1>1, <2>1, <2>2, <4>1 DEF RedoLogsComplete
        <4> QED BY <3>1, <4>2 DEF Replayed
      <3>2. CASE ~\E t \in ctxs : ulog[t][l] # None
        <4>1. \A t \in Threads : ulog[t][l] = None
          BY <2>2, <3>2 DEF EmptyLog
        <4>2. snap[l] = IF mlog[l] = None THEN nvm[l] ELSE mlog[l]
          BY <1>1, <2>2, <4>1 DEF RedoLogsComplete
        <4> QED BY <3>2, <4>2 DEF Replayed
      <3> QED BY <3>1, <3>2
    <2>4. Replayed = snap
      <3>1. Replayed = [l \in Lines |-> Replayed[l]]
        BY DEF Replayed
      <3> QED BY <2>1, <2>3, <3>1 DEF Heap
    <2> QED BY <1>1, <2>4 DEF Durable, UpdatePC, ClosingPC, LogPC
  <1>2. CASE cpc \notin UpdatePC
    BY <1>2, HeapInvImplies
       DEF Durable, CheckpointImage, ClosingPC, TypeInv, TypeOK, CpPC
  <1> QED BY <1>1, <1>2

\* The promise, in terms of the mapping.
LEMMA Mapped ==
  /\ BD!vars = <<dram, snap, Durable, Open, Runs>>
  /\ BD!vars' = <<dram, snap, Durable, Open, Runs>>'
  BY DEF BD!vars, Durable, Open, Runs, Current

\* The mapping holds of the next state too.
LEMMA DurableImageNext ==
  ASSUME RInv', ~overrun'
  PROVE  Durable' = IF cpc' \in ClosingPC THEN base' ELSE snap'
  <1>1. TypeInv' /\ HeapInv'
    BY DEF RInv
  <1>2. (TypeInv /\ HeapInv /\ ~overrun
           => Durable = IF cpc \in ClosingPC THEN base ELSE snap)'
    BY DurableImage, PTL
  <1> QED BY <1>1, <1>2 DEF ClosingPC, LogPC

\* A step of a user thread begins, continues or ends a transaction of the promise.
LEMMA UserRefines ==
  ASSUME RInv, RInv', ~overrun, ~overrun', NEW t \in Threads, UserNext(t)
  PROVE  BD!Next \/ UNCHANGED <<dram, snap, Durable, Open, Runs>>
  <1>i. TypeInv /\ EpochInv /\ HeapInv /\ LockInv /\ MarkInv
    BY DEF RInv, HeapInv, BitInv
  <1>t. pc \in [Threads -> UserPC] /\ epoch \in [Threads -> Word]
    BY <1>i DEF TypeInv, TypeOK
  <1>f. UNCHANGED <<GLOBAL_EPOCH, cpc, base>>
    BY UserFrame
  <1>d. Durable' = Durable /\ Open' = Open
    <2>1. cpc # "wait" => snap' = snap
      BY <1>i, UserSnap
    <2> QED
      BY <1>i, <1>f, <2>1, DurableImage, DurableImageNext DEF Open, ClosingPC
  <1>1. CASE \E v \in Values : Write(t, v)
    <2>1. PICK v \in Values : Write(t, v)
      BY <1>1
    <2>2. Runs' = Runs /\ Runs[t] # "none" /\ (Runs[t] = "previous" <=> ~Current(t))
      BY <1>t, <1>f, <2>1 DEF Write, Runs, InTx, TxPC, Current
    <2>3. /\ dram' = Overwrite(dram, region[t], v)
          /\ snap' = IF Current(t) THEN snap ELSE Overwrite(snap, region[t], v)
          /\ region[t] \in SUBSET Lines
      BY <1>i, <2>1 DEF Write, Current, TypeInv, TypeOK
    <2>4. BD!Write(t, region[t], v)
      BY <1>d, <2>2, <2>3 DEF BD!Write, BD!Store, Overwrite, Durable, Open, Runs, Current
    <2> QED BY <2>3, <2>4 DEF BD!Next
  <1>2. CASE ~\E v \in Values : Write(t, v)
    <2>1. UNCHANGED <<dram, snap>>
      BY <1>2, UserHeap
    <2>2. CASE BeginCheck(t) /\ EpochIsCurrent(t)
      <3>1. Runs[t] = "none" /\ Runs' = [Runs EXCEPT ![t] = "current"]
        BY <1>t, <1>f, <2>2 DEF BeginCheck, EpochIsCurrent, Runs, InTx, TxPC, CopyPC, Current
      <3>2. BD!Begin(t)
        BY <1>d, <2>1, <3>1 DEF BD!Begin, Durable, Open, Runs, Current
      <3> QED BY <3>2 DEF BD!Next
    <2>3. CASE EndOp(t)
      <3>1. Runs[t] # "none" /\ Runs' = [Runs EXCEPT ![t] = "none"]
        BY <1>t, <1>f, <2>3 DEF EndOp, Runs, InTx, TxPC, CopyPC, Current
      <3>2. BD!End(t)
        BY <1>d, <2>1, <3>1 DEF BD!End, Durable, Open, Runs, Current
      <3> QED BY <3>2 DEF BD!Next
    <2>4. CASE ~(BeginCheck(t) /\ EpochIsCurrent(t)) /\ ~EndOp(t)
      <3>1. \A u \in Threads : /\ InTx(u)' <=> InTx(u)
                               /\ InTx(u) => epoch'[u] = epoch[u]
        BY <1>t, <1>2, <2>4 DEF UserNext, Begin, Mark, ThreadInit, LockLines, BeginLoad,
             BeginStore, BeginCheck, MarkStart, MarkSkip, MarkSet, CowTest,
             CowClear, CowPush, MarkReturn, Unlock, InTx, TxPC, CopyPC
      <3>2. Runs' = Runs
        BY <1>f, <3>1 DEF Runs, Current
      <3> QED BY <1>d, <2>1, <3>2
    <2> QED BY <2>2, <2>3, <2>4
  <1> QED BY <1>1, <1>2

(***************************************************************************)
(* The checkpointing thread begins an epoch of the promise, makes the one  *)
(* before it durable in the step that stores NVM_Heap_Update, and does all *)
(* the rest unseen.                                                        *)
(***************************************************************************)
LEMMA CpRefines ==
  ASSUME RInv, RInv', ~overrun, ~overrun', Next, CpNext
  PROVE  BD!Next \/ UNCHANGED <<dram, snap, Durable, Open, Runs>>
  <1>i. TypeInv /\ EpochInv /\ HeapInv
    BY DEF RInv
  <1>f. UNCHANGED <<dram, pc, epoch>>
    BY CpFrame
  <1>d. /\ Durable = IF cpc \in ClosingPC THEN base ELSE snap
        /\ Durable' = IF cpc' \in ClosingPC THEN base' ELSE snap'
    BY <1>i, DurableImage, DurableImageNext
  <1>n. \A t \in Threads : InTx(t) /\ cpc # "wait" => Current(t)
    BY <1>i, ThreadParity
  <1>1. CASE Advance \/ Finalize
    <2>1. /\ snap' = dram /\ base' = snap
          /\ cpc \notin ClosingPC /\ cpc' \in ClosingPC /\ cpc # "wait"
      BY <1>1 DEF Advance, Finalize, ClosingPC, LogPC
    <2>2. Epoch(GLOBAL_EPOCH') = Epoch(GLOBAL_EPOCH) + 1 /\ Epoch(GLOBAL_EPOCH) \in Int
      BY <1>1, <1>i, EpochChange, EpochRange, EpochLimitAssumption
         DEF TypeInv, TypeOK, Word
    <2>3. \A t \in Threads : InTx(t)' <=> InTx(t)
      BY <1>f DEF InTx
    <2>4. \A t \in Threads : InTx(t) => ~Current(t)'
      BY <1>f, <1>n, <2>1, <2>2 DEF Current
    <2>5. Runs' = [t \in Threads |-> IF Runs[t] = "current" THEN "previous" ELSE Runs[t]]
      BY <1>n, <2>1, <2>3, <2>4 DEF Runs
    <2>6. BD!NewEpoch
      BY <1>d, <1>f, <2>1, <2>5 DEF BD!NewEpoch, Durable, Open, Runs, Current
    <2> QED BY <2>6 DEF BD!Next
  <1>2. CASE StartHeapUpdate
    <2>1. /\ snap' = snap /\ cpc = "log" /\ cpc' = "replay"
      BY <1>2 DEF StartHeapUpdate
    <2>2. Epoch(GLOBAL_EPOCH') = Epoch(GLOBAL_EPOCH)
      BY <1>2, <1>i, EpochChange DEF StartHeapUpdate, Advance, Finalize
    <2>3. Runs' = Runs /\ \A t \in Threads : Runs[t] # "previous"
      BY <1>f, <1>n, <2>1, <2>2 DEF Runs, InTx, Current
    <2>4. /\ cpc \in ClosingPC /\ cpc' \notin ClosingPC
      BY <2>1 DEF ClosingPC, LogPC
    <2>5. BD!Commit
      BY <1>d, <1>f, <2>1, <2>3, <2>4 DEF BD!Commit, Durable, Open, Runs, Current
    <2> QED BY <2>5 DEF BD!Next
  <1>3. CASE ~Advance /\ ~Finalize /\ ~StartHeapUpdate
    <2>1. /\ UNCHANGED <<snap, base>> /\ (cpc' \in ClosingPC <=> cpc \in ClosingPC)
      BY <1>3 DEF CpNext, LogPersistence, HeapUpdate, Loop, WaitCtx,
            StartLogPersistence, LogCtx, LogTest, LogPush, LogClear, LogCtxDone,
            ReplayEntry, ReplayCtxEntry, ReplayDone, ReplayCtx,
            ClearCtxLog, ReplayCtxDone, ClearLog, EndCheckpoint, hvars, ClosingPC, LogPC
    <2>2. Epoch(GLOBAL_EPOCH') = Epoch(GLOBAL_EPOCH)
      BY <1>3, <1>i, EpochChange
    <2>3. Runs' = Runs
      BY <1>f, <2>2 DEF Runs, InTx, Current
    <2> QED BY <1>d, <1>f, <2>1, <2>3 DEF Open
  <1> QED BY <1>1, <1>2, <1>3

\* A crash outside the NVM heap update is a crash of the promise.
LEMMA RestartRefines ==
  ASSUME RInv, RInv', ~overrun, ~overrun', cpc \notin UpdatePC, Restart
  PROVE  BD!Next
  <1>1. PICK h \in CrashHeaps, word \in words : RestartFrom(h, word)
    BY DEF Restart
  <1>2. nvm' = h /\ dram' = h /\ snap' = h
    BY <1>1, RestartInv DEF RInv
  <1>3. h = Durable
    BY CrashImage, DurableImage DEF RInv
  <1>4. cpc' = "idle" /\ \A t \in Threads : ~InTx(t)'
    BY <1>1 DEF RestartFrom, InTx, TxPC, CopyPC
  <1>5. /\ Durable' = h /\ Open' = "open" /\ Runs' = [t \in Threads |-> "none"]
    BY <1>2, <1>4 DEF Durable, Open, Runs, UpdatePC, ClosingPC, LogPC
  <1>6. BD!Crash
    BY <1>2, <1>3, <1>5 DEF BD!Crash, Durable, Open, Runs, Current
  <1> QED BY <1>6 DEF BD!Next

(***************************************************************************)
(* The promise of Escort, buffered durability: every step of the program   *)
(* is a step of BufferedDurability or invisible to it, except a crash in   *)
(* the NVM heap update and what follows a copy-on-write the update overran.*)
(***************************************************************************)
THEOREM Refinement == RSpec => ImplementsDurability
  <1>1. RInit => BD!Init
    <2> SUFFICES ASSUME RInit PROVE BD!Init
      OBVIOUS
    <2>1. Init
      BY DEF RInit
    <2>2. cpc \notin UpdatePC /\ cpc \notin ClosingPC /\ \A t \in Threads : ~InTx(t)
      BY <2>1 DEF Init, UpdatePC, ClosingPC, LogPC, InTx, TxPC, CopyPC
    <2> QED BY <2>1, <2>2 DEF Init, BD!Init
  <1>2. ASSUME RInv, RInv', [RNext]_rvars PROVE [Excepted \/ BD!Next]_(BD!vars)
    <2> SUFFICES ASSUME ~overrun, ~overrun', ~(cpc \in UpdatePC /\ Restart)
                 PROVE  BD!Next \/ UNCHANGED <<dram, snap, Durable, Open, Runs>>
      BY Mapped DEF Excepted
    <2>1. CASE Restart
      BY <1>2, <2>1, RestartRefines
    <2>2. CASE Run
      <3>1. Next
        BY <2>2 DEF Run
      <3>2. CASE \E t \in Threads : UserNext(t)
        BY <1>2, <3>2, UserRefines
      <3>3. CASE CpNext
        BY <1>2, <3>1, <3>3, CpRefines
      <3>4. CASE Stop \/ Ended
        <4>1. /\ UNCHANGED <<dram, snap, base, cpc, pc, epoch, GLOBAL_EPOCH>>
          BY <3>4 DEF Stop, Ended, vars, gvars, tvars, cvars, hvars
        <4>2. Runs' = Runs /\ Open' = Open
          BY <4>1 DEF Runs, Open, InTx, Current
        <4>3. Durable' = Durable
          BY <1>2, <4>1, DurableImage, DurableImageNext DEF RInv
        <4> QED BY <4>1, <4>2, <4>3
      <3> QED BY <3>1, <3>2, <3>3, <3>4 DEF Next
    <2>3. CASE UNCHANGED rvars
      <3>1. /\ UNCHANGED <<dram, snap, base, cpc, pc, epoch, GLOBAL_EPOCH>>
        BY <2>3 DEF rvars, vars, gvars, tvars, cvars, hvars
      <3>2. Runs' = Runs /\ Open' = Open
        BY <3>1 DEF Runs, Open, InTx, Current
      <3>3. Durable' = Durable
        BY <1>2, <3>1, DurableImage, DurableImageNext DEF RInv
      <3> QED BY <3>1, <3>2, <3>3
    <2> QED BY <1>2, <2>1, <2>2, <2>3 DEF RNext
  <1> QED
    BY <1>1, <1>2, RInvInductive, PTL DEF RSpec, ImplementsDurability
=============================================================================
