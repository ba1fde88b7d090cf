--------------------------- MODULE Checkpointing ---------------------------
(***************************************************************************)
(* Escort's epoch-based checkpointing: user threads run transactions on a  *)
(* DRAM heap (userthreadctx_t.cpp) while the checkpointing thread          *)
(* (cpmaster_t, checkpointing.cpp) carries the writes of the previous      *)
(* epoch to the NVM heap.                                                  *)
(*                                                                         *)
(* The heap is a function from cache lines to values.  A redo log (plog_t) *)
(* is a function from lines to the value logged last: logs are replayed in *)
(* order, so only the last entry of a line matters.  An address list       *)
(* (addrlist_t) is the set of lines of its regions: a line met twice is    *)
(* skipped the second time because its bit has been cleared.               *)
(*                                                                         *)
(* Memory accesses that another thread can observe are separate steps.     *)
(* Clients are data-race free at the granularity of a cache line, which    *)
(* bitmap_t::set asks for: like test/list_multi.cpp they take their locks  *)
(* before escort_begin_op and release them after their last write.         *)
(***************************************************************************)
EXTENDS EpochWord

CONSTANTS
  Threads,    \* user threads
  Lines,      \* cache lines of the persistent heap
  Values,     \* contents of a cache line
  InitVal,    \* the contents of a fresh heap (the NVM file is zero-filled)
  None,       \* no context, no line, no log entry
  MaxEpoch    \* bound: the last epoch that is explored

ASSUME ConstantsAssumption ==
  /\ InitVal \in Values
  /\ None \notin Threads \cup Lines \cup Values
  /\ MaxEpoch \in Nat /\ MaxEpoch < EpochLimit

VARIABLES
  \* shared state
  GLOBAL_EPOCH, \* the epoch word, in NVM
  bitmap,       \* BitMap[2]: lines written in the epochs of each parity
  dram,         \* the DRAM heap
  nvm,          \* the NVM heap
  isPersisting, \* cleared by escort_finalize
  \* user threads
  pc,           \* what the thread is doing
  epoch,        \* ctx->_epoch, 0 outside transactions
  reg,          \* the value of GLOBAL_EPOCH begin_op has loaded
  hold,         \* lines whose client locks the thread holds
  region,       \* the region of the escort_write_region call in progress
  left,         \* the lines of it that mark() has yet to visit
  line,         \* the line mark() is copying
  fresh,        \* is_append_list
  addrlist,     \* _addrlist[2]
  ulog,         \* _log: the thread's copy-on-write redo log
  \* checkpointing thread
  ctxs,         \* _ctx_array
  cpc,          \* what the checkpointing thread is doing
  cset,         \* contexts its current loop has yet to visit
  cctx,         \* the context it is visiting
  cwork,        \* lines of that context, or of _log, it has yet to visit
  cline,        \* the line it is logging
  mlog,         \* _log: the checkpointing thread's redo log
  final,        \* it is in finalize()
  \* history variables, not part of the program
  snap,         \* the heap as the epoch before the current one leaves it
  base,         \* the same, one epoch earlier
  overrun       \* a copy-on-write was under way when NVM_Heap_Update began

gvars == <<GLOBAL_EPOCH, bitmap, dram, nvm, isPersisting>>
tvars == <<pc, epoch, reg, hold, region, left, line, fresh, addrlist, ulog>>
cvars == <<ctxs, cpc, cset, cctx, cwork, cline, mlog, final>>
hvars == <<snap, base, overrun>>
vars  == <<gvars, tvars, cvars, hvars>>

EmptyLog == [l \in Lines |-> None]
\* Mutant: the replay loop runs over a whole block, not up to its size.
Logged_block(log) == Lines
Logged(log) == {l \in Lines : log[l] # None}
NoLines  == [p \in 0..1 |-> {}]

\* bitmap_t::set and bitmap_t::clear
SetBit(p, l)   == bitmap' = [bitmap EXCEPT ![p][l] = TRUE]
ClearBit(p, l) == bitmap' = [bitmap EXCEPT ![p][l] = FALSE]

curr(t) == Parity(epoch[t])
\* Mutant: the negation of curr is forgotten.
prev_same(t) == curr(t)
prev(t) == 1 - curr(t)
\* Mutant: the lists of the current epoch are taken for those of the previous one.
cprev_off == Parity(Epoch(GLOBAL_EPOCH))
cprev   == Parity(Epoch(GLOBAL_EPOCH) - 1)

(***************************************************************************)
(* Program counters.  A thread is inside a transaction once begin_op has   *)
(* returned and until end_op resets its epoch.                             *)
(***************************************************************************)
CopyPC == {"cow", "push"}
TxPC   == CopyPC \cup {"tx", "mark", "write", "unlocked"}
UserPC == TxPC \cup {"new", "idle", "begin", "store", "check"}
LogPC    == {"log", "logpush", "logclear"}
UpdatePC == {"replay", "replayctx", "clearctx"}
FreePC   == {"idle", "ready"}
CpPC     == LogPC \cup UpdatePC \cup FreePC \cup {"wait", "ended"}

InTx(t) == pc[t] \in TxPC

Init ==
  /\ GLOBAL_EPOCH = 2
  /\ bitmap = [p \in 0..1 |-> [l \in Lines |-> FALSE]]
  /\ dram = [l \in Lines |-> InitVal]
  /\ nvm  = [l \in Lines |-> InitVal]
  /\ isPersisting = TRUE
  /\ pc     = [t \in Threads |-> "new"]
  /\ epoch  = [t \in Threads |-> 0]
  /\ reg    = [t \in Threads |-> 0]
  /\ hold   = [t \in Threads |-> {}]
  /\ region = [t \in Threads |-> {}]
  /\ left   = [t \in Threads |-> {}]
  /\ line   = [t \in Threads |-> None]
  /\ fresh  = [t \in Threads |-> FALSE]
  /\ addrlist = [t \in Threads |-> NoLines]
  /\ ulog     = [t \in Threads |-> EmptyLog]
  /\ ctxs = {} /\ cpc = "idle" /\ cset = {} /\ cctx = None
  /\ cwork = {} /\ cline = None /\ mlog = EmptyLog /\ final = FALSE
  /\ snap = dram /\ base = dram /\ overrun = FALSE

-----------------------------------------------------------------------------
(***************************************************************************)
(* User threads.                                                           *)
(***************************************************************************)

(***************************************************************************)
(* escort_thread_init: the context joins _ctx_array under the execute      *)
(* right, which the checkpointing thread holds outside FreePC.             *)
(***************************************************************************)
ThreadInit(t) ==
  /\ pc[t] = "new" /\ isPersisting
  /\ cpc \in FreePC
  /\ ctxs' = ctxs \cup {t}
  /\ pc' = [pc EXCEPT ![t] = "idle"]
  /\ UNCHANGED <<gvars, hvars, epoch, reg, hold, region, left, line, fresh,
                 addrlist, ulog, cpc, cset, cctx, cwork, cline, mlog, final>>

\* The client takes the locks of the lines its next transaction will access.
LockLines(t, S) ==
  /\ pc[t] = "idle" /\ isPersisting
  /\ S # {} /\ \A u \in Threads : hold[u] \cap S = {}
  /\ hold' = [hold EXCEPT ![t] = S]
  /\ pc' = [pc EXCEPT ![t] = "begin"]
  /\ UNCHANGED <<gvars, cvars, hvars, epoch, reg, region, left, line, fresh,
                 addrlist, ulog>>

\* begin_op, the load of GLOBAL_EPOCH into a register
BeginLoad(t) ==
  /\ pc[t] = "begin"
  /\ reg' = [reg EXCEPT ![t] = GLOBAL_EPOCH]
  /\ pc' = [pc EXCEPT ![t] = "store"]
  /\ UNCHANGED <<gvars, cvars, hvars, epoch, hold, region, left, line, fresh,
                 addrlist, ulog>>

\* begin_op, the store of the register into the context's epoch
BeginStore(t) ==
  /\ pc[t] = "store"
  /\ epoch' = [epoch EXCEPT ![t] = reg[t]]
  /\ pc' = [pc EXCEPT ![t] = "check"]
  /\ UNCHANGED <<gvars, cvars, hvars, reg, hold, region, left, line, fresh,
                 addrlist, ulog>>

\* begin_op, the loop condition: GLOBAL_EPOCH is loaded again and compared
\* Mutant: begin_op as compiled with WEAK_CONSISTENCY, without the second load.
EpochIsCurrent_weak(t) == TRUE
EpochIsCurrent(t) == epoch[t] = GLOBAL_EPOCH
BeginCheck(t) ==
  /\ pc[t] = "check"
  /\ pc' = [pc EXCEPT ![t] = IF EpochIsCurrent(t) THEN "tx" ELSE "begin"]
  /\ reg' = [reg EXCEPT ![t] = 0]
  /\ UNCHANGED <<gvars, cvars, hvars, epoch, hold, region, left, line, fresh,
                 addrlist, ulog>>

\* escort_write_region(addr, size): mark() enters its loop over the lines of R
MarkStart(t, R) ==
  /\ pc[t] = "tx"
  /\ R # {} /\ R \subseteq hold[t]
  /\ region' = [region EXCEPT ![t] = R]
  /\ left' = [left EXCEPT ![t] = R]
  /\ fresh' = [fresh EXCEPT ![t] = FALSE]
  /\ pc' = [pc EXCEPT ![t] = "mark"]
  /\ UNCHANGED <<gvars, cvars, hvars, epoch, reg, hold, line, addrlist, ulog>>

\* mark(): the line is already marked in this epoch
MarkSkip(t, l) ==
  /\ pc[t] = "mark" /\ l \in left[t]
  /\ bitmap[curr(t)][l]
  /\ left' = [left EXCEPT ![t] = @ \ {l}]
  /\ UNCHANGED <<gvars, cvars, hvars, pc, epoch, reg, hold, region, line, fresh,
                 addrlist, ulog>>

(***************************************************************************)
(* mark(): the line is marked for the first time in this epoch and has no  *)
(* unsaved value of the previous one.  Testing the previous bit and        *)
(* setting the current one is one step: of two threads only the holder of  *)
(* the line's lock looks at the current bit.                               *)
(***************************************************************************)
MarkSet(t, l) ==
  /\ pc[t] = "mark" /\ l \in left[t]
  /\ ~bitmap[curr(t)][l] /\ ~bitmap[prev(t)][l]
  /\ SetBit(curr(t), l)
  /\ left' = [left EXCEPT ![t] = @ \ {l}]
  /\ fresh' = [fresh EXCEPT ![t] = TRUE]
  /\ UNCHANGED <<cvars, hvars, GLOBAL_EPOCH, dram, nvm, isPersisting, pc, epoch,
                 reg, hold, region, line, addrlist, ulog>>

\* mark(): the line still has an unsaved value of the previous epoch
CowTest(t, l) ==
  /\ pc[t] = "mark" /\ l \in left[t]
  /\ ~bitmap[curr(t)][l] /\ bitmap[prev(t)][l]
  /\ line' = [line EXCEPT ![t] = l]
  /\ pc' = [pc EXCEPT ![t] = "cow"]
  /\ UNCHANGED <<gvars, cvars, hvars, epoch, reg, hold, region, left, fresh,
                 addrlist, ulog>>

\* mark(): gv::BitMap[prev]->clear(index)
CowClear(t) ==
  /\ pc[t] = "cow"
  /\ ClearBit(prev(t), line[t])
  /\ pc' = [pc EXCEPT ![t] = "push"]
  /\ UNCHANGED <<cvars, hvars, GLOBAL_EPOCH, dram, nvm, isPersisting, epoch,
                 reg, hold, region, left, line, fresh, addrlist, ulog>>

\* mark(): the old value goes to the thread's log and the current bit is set
CowPush(t) ==
  /\ pc[t] = "push"
  /\ ulog' = [ulog EXCEPT ![t][line[t]] = dram[line[t]]]
  /\ SetBit(curr(t), line[t])
  /\ left' = [left EXCEPT ![t] = @ \ {line[t]}]
  /\ line' = [line EXCEPT ![t] = None]
  /\ fresh' = [fresh EXCEPT ![t] = TRUE]
  /\ pc' = [pc EXCEPT ![t] = "mark"]
  /\ UNCHANGED <<cvars, hvars, GLOBAL_EPOCH, dram, nvm, isPersisting, epoch,
                 reg, hold, region, addrlist>>

\* mark(): the region joins the address list if any bit of it was set
MarkReturn(t) ==
  /\ pc[t] = "mark" /\ left[t] = {}
  /\ addrlist' = IF fresh[t]
                 THEN [addrlist EXCEPT ![t][curr(t)] = @ \cup region[t]]
                 ELSE addrlist
  /\ pc' = [pc EXCEPT ![t] = "write"]
  /\ UNCHANGED <<gvars, cvars, hvars, epoch, reg, hold, region, left, line,
                 fresh, ulog>>

(***************************************************************************)
(* pwrite: the client writes the region it has marked.  A write of the     *)
(* previous epoch is part of the heap that epoch leaves.                   *)
(***************************************************************************)
Overwrite(heap, R, v) == [l \in Lines |-> IF l \in R THEN v ELSE heap[l]]
Write(t, v) ==
  /\ pc[t] = "write"
  /\ dram' = Overwrite(dram, region[t], v)
  /\ snap' = IF Epoch(epoch[t]) = Epoch(GLOBAL_EPOCH) THEN snap
             ELSE Overwrite(snap, region[t], v)
  /\ region' = [region EXCEPT ![t] = {}]
  /\ fresh' = [fresh EXCEPT ![t] = FALSE]
  /\ pc' = [pc EXCEPT ![t] = "tx"]
  /\ UNCHANGED <<cvars, GLOBAL_EPOCH, bitmap, nvm, isPersisting, base, overrun,
                 epoch, reg, hold, left, line, addrlist, ulog>>

\* The client releases its locks, as the tests do, before escort_end_op.
Unlock(t) ==
  /\ pc[t] = "tx"
  /\ hold' = [hold EXCEPT ![t] = {}]
  /\ pc' = [pc EXCEPT ![t] = "unlocked"]
  /\ UNCHANGED <<gvars, cvars, hvars, epoch, reg, region, left, line, fresh,
                 addrlist, ulog>>

EndOp(t) ==
  /\ pc[t] = "unlocked"
  /\ epoch' = [epoch EXCEPT ![t] = 0]
  /\ pc' = [pc EXCEPT ![t] = "idle"]
  /\ UNCHANGED <<gvars, cvars, hvars, reg, hold, region, left, line, fresh,
                 addrlist, ulog>>

(***************************************************************************)
(* escort_finalize, called once the client's threads are done (main.cpp,   *)
(* list_multi.cpp); its join is the checkpointing thread reaching "ended". *)
(***************************************************************************)
Stop ==
  /\ isPersisting
  /\ \A t \in Threads : pc[t] \in {"new", "idle"}
  /\ isPersisting' = FALSE
  /\ UNCHANGED <<tvars, cvars, hvars, GLOBAL_EPOCH, bitmap, dram, nvm>>

-----------------------------------------------------------------------------
(***************************************************************************)
(* The checkpointing thread.                                               *)
(***************************************************************************)

\* checkpointing(): while(gv::isPersisting).  The flag may be cleared right after.
Loop ==
  /\ cpc = "idle" /\ isPersisting
  /\ Epoch(GLOBAL_EPOCH) + 1 < MaxEpoch
  /\ cpc' = "ready"
  /\ UNCHANGED <<gvars, tvars, hvars, ctxs, cset, cctx, cwork, cline, mlog,
                 final>>

\* checkpointing(): a new epoch begins while transactions of the old one run
Advance ==
  /\ cpc = "ready"
  /\ Epoch(GLOBAL_EPOCH) + 1 < MaxEpoch
  /\ GLOBAL_EPOCH' = set_phase(GLOBAL_EPOCH + 1, MEE)
  /\ cset' = ctxs
  /\ cpc' = "wait"
  /\ snap' = dram /\ base' = snap
  /\ UNCHANGED <<tvars, bitmap, dram, nvm, isPersisting, ctxs, cctx, cwork,
                 cline, mlog, final, overrun>>

\* wait_previous_epoch_transactions: the context is not in the previous epoch
\* Mutants: no wait at all, and a wait for every smaller epoch, 0 included.
InPreviousEpoch_never(t) == FALSE
InPreviousEpoch_below(t) == Epoch(epoch[t]) < Epoch(GLOBAL_EPOCH)
InPreviousEpoch(t) == Epoch(epoch[t]) = Epoch(GLOBAL_EPOCH) - 1
WaitCtx(t) ==
  /\ cpc = "wait" /\ t \in cset
  /\ ~InPreviousEpoch(t)
  /\ cset' = cset \ {t}
  /\ UNCHANGED <<gvars, tvars, hvars, ctxs, cpc, cctx, cwork, cline, mlog,
                 final>>

\* checkpointing(): every transaction of the previous epoch has ended
StartLogPersistence ==
  /\ cpc = "wait" /\ cset = {}
  /\ GLOBAL_EPOCH' = set_phase(GLOBAL_EPOCH, LP)
  /\ cset' = ctxs
  /\ cpc' = "log"
  /\ UNCHANGED <<tvars, hvars, bitmap, dram, nvm, isPersisting, ctxs, cctx,
                 cwork, cline, mlog, final>>

\* Mutant: the epoch number is not increased.
Finalize_same ==
  /\ cpc = "idle" /\ ~isPersisting
  /\ GLOBAL_EPOCH' = set_phase(GLOBAL_EPOCH, LP)
  /\ cset' = ctxs
  /\ cpc' = "log"
  /\ final' = TRUE
  /\ snap' = dram /\ base' = snap
  /\ UNCHANGED <<tvars, bitmap, dram, nvm, isPersisting, ctxs, cctx, cwork,
                 cline, mlog, overrun>>

(***************************************************************************)
(* finalize(): the last epoch is logged without waiting for transactions,  *)
(* escort_finalize being called after the last one.                        *)
(***************************************************************************)
Finalize ==
  /\ cpc = "idle" /\ ~isPersisting
  /\ Epoch(GLOBAL_EPOCH) < MaxEpoch
  /\ GLOBAL_EPOCH' = set_phase(GLOBAL_EPOCH + 1, LP)
  /\ cset' = ctxs
  /\ cpc' = "log"
  /\ final' = TRUE
  /\ snap' = dram /\ base' = snap
  /\ UNCHANGED <<tvars, bitmap, dram, nvm, isPersisting, ctxs, cctx, cwork,
                 cline, mlog, overrun>>

\* log_persistence_unit: the loop over the contexts reaches t
LogCtx(t) ==
  /\ cpc = "log" /\ cctx = None /\ t \in cset
  /\ cctx' = t
  /\ cwork' = addrlist[t][cprev]
  /\ UNCHANGED <<gvars, tvars, hvars, ctxs, cpc, cset, cline, mlog, final>>

\* log_persistence_unit: is_set, with the comment "if bit is clear, CoW has
\* happened" on the branch that leaves the line out
LogTest(l) ==
  /\ cpc = "log" /\ l \in cwork
  /\ IF bitmap[cprev][l]
     THEN cpc' = "logpush" /\ cline' = l /\ UNCHANGED cwork
     ELSE cwork' = cwork \ {l} /\ UNCHANGED <<cpc, cline>>
  /\ UNCHANGED <<gvars, tvars, hvars, ctxs, cset, cctx, mlog, final>>

(***************************************************************************)
(* log_persistence_unit: push_back_and_clwb copies the line.  A thread of  *)
(* the current epoch may be writing it, having saved the old value itself: *)
(* that is a data race, and the copy may be any mixture of bytes.          *)
(***************************************************************************)
Copies(l) == IF \E t \in Threads : pc[t] = "write" /\ l \in region[t]
             THEN Values ELSE {dram[l]}
LogPush ==
  /\ cpc = "logpush"
  /\ \E v \in Copies(cline) : mlog' = [mlog EXCEPT ![cline] = v]
  /\ cpc' = "logclear"
  /\ UNCHANGED <<gvars, tvars, hvars, ctxs, cset, cctx, cwork, cline, final>>

\* Mutant: the bit is left set.
LogClear_keep ==
  /\ cpc = "logclear"
  /\ cwork' = cwork \ {cline}
  /\ cline' = None
  /\ cpc' = "log"
  /\ UNCHANGED <<tvars, hvars, gvars, ctxs, cset, cctx, mlog, final>>

\* log_persistence_unit: the bit is cleared and the loop goes on
LogClear ==
  /\ cpc = "logclear"
  /\ ClearBit(cprev, cline)
  /\ cwork' = cwork \ {cline}
  /\ cline' = None
  /\ cpc' = "log"
  /\ UNCHANGED <<tvars, hvars, GLOBAL_EPOCH, dram, nvm, isPersisting, ctxs,
                 cset, cctx, mlog, final>>

\* log_persistence_unit: ctx->list(prev).clear()
LogCtxDone ==
  /\ cpc = "log" /\ cctx # None /\ cwork = {}
  /\ addrlist' = [addrlist EXCEPT ![cctx][cprev] = {}]
  /\ cset' = cset \ {cctx}
  /\ cctx' = None
  /\ UNCHANGED <<gvars, hvars, pc, epoch, reg, hold, region, left, line, fresh,
                 ulog, ctxs, cpc, cwork, cline, mlog, final>>

\* checkpointing(), finalize(): the logs are taken to be complete
StartHeapUpdate ==
  /\ cpc = "log" /\ cctx = None /\ cset = {}
  /\ GLOBAL_EPOCH' = set_phase(GLOBAL_EPOCH, NHU)
  /\ cwork' = Logged(mlog)
  /\ cpc' = "replay"
  /\ overrun' = (overrun \/ \E t \in Threads : pc[t] \in CopyPC)
  /\ UNCHANGED <<tvars, bitmap, dram, nvm, isPersisting, ctxs, cset, cctx,
                 cline, mlog, final, snap, base>>

\* replay_redo_log(*_log): one entry
ReplayEntry(l) ==
  /\ cpc = "replay" /\ l \in cwork
  /\ nvm' = [nvm EXCEPT ![l] = mlog[l]]
  /\ cwork' = cwork \ {l}
  /\ UNCHANGED <<tvars, hvars, GLOBAL_EPOCH, bitmap, dram, isPersisting, ctxs,
                 cpc, cset, cctx, cline, mlog, final>>

\* nvm_heap_update_unit: from the checkpointing thread's log to the contexts'
ReplayDone ==
  /\ cpc = "replay" /\ cwork = {}
  /\ cset' = ctxs
  /\ cpc' = "replayctx"
  /\ UNCHANGED <<gvars, tvars, hvars, ctxs, cctx, cwork, cline, mlog, final>>

\* replay_redo_log(ctx->log()): the block list and the sizes are read
ReplayCtx(t) ==
  /\ cpc = "replayctx" /\ cctx = None /\ t \in cset
  /\ cctx' = t
  /\ cwork' = Logged(ulog[t])
  /\ UNCHANGED <<gvars, tvars, hvars, ctxs, cpc, cset, cline, mlog, final>>

\* replay_redo_log(ctx->log()): one entry
ReplayCtxEntry(l) ==
  /\ cpc = "replayctx" /\ l \in cwork
  /\ nvm' = [nvm EXCEPT ![l] = ulog[cctx][l]]
  /\ cwork' = cwork \ {l}
  /\ UNCHANGED <<tvars, hvars, GLOBAL_EPOCH, bitmap, dram, isPersisting, ctxs,
                 cpc, cset, cctx, cline, mlog, final>>

ReplayCtxDone ==
  /\ cpc = "replayctx" /\ cctx # None /\ cwork = {}
  /\ cset' = cset \ {cctx}
  /\ cctx' = None
  /\ UNCHANGED <<gvars, tvars, hvars, ctxs, cpc, cwork, cline, mlog, final>>

\* clear_redo_logs: _log->clear()
ClearLog ==
  /\ cpc = "replayctx" /\ cctx = None /\ cset = {}
  /\ mlog' = EmptyLog
  /\ cset' = ctxs
  /\ cpc' = "clearctx"
  /\ UNCHANGED <<gvars, tvars, hvars, ctxs, cctx, cwork, cline, final>>

\* clear_redo_logs: ctx->log().clear()
ClearCtxLog(t) ==
  /\ cpc = "clearctx" /\ t \in cset
  /\ ulog' = [ulog EXCEPT ![t] = EmptyLog]
  /\ cset' = cset \ {t}
  /\ UNCHANGED <<gvars, hvars, pc, epoch, reg, hold, region, left, line, fresh,
                 addrlist, ctxs, cpc, cctx, cwork, cline, mlog, final>>

\* The checkpoint is complete: the execute right is released, or the thread ends.
EndCheckpoint ==
  /\ cpc = "clearctx" /\ cset = {}
  /\ cpc' = IF final THEN "ended" ELSE "idle"
  /\ UNCHANGED <<gvars, tvars, hvars, ctxs, cset, cctx, cwork, cline, mlog,
                 final>>

-----------------------------------------------------------------------------
Begin(t)  == BeginLoad(t) \/ BeginStore(t) \/ BeginCheck(t)
Mark(t)   == \/ \E l \in Lines : \/ MarkSkip(t, l) \/ MarkSet(t, l)
                               \/ CowTest(t, l)
             \/ CowClear(t) \/ CowPush(t) \/ MarkReturn(t)
UserNext(t) ==
  \/ ThreadInit(t)
  \/ \E S \in SUBSET Lines : LockLines(t, S) \/ MarkStart(t, S)
  \/ Begin(t) \/ Mark(t)
  \/ \E v \in Values : Write(t, v)
  \/ Unlock(t) \/ EndOp(t)

LogPersistence ==
  \/ \E t \in Threads : LogCtx(t)
  \/ \E l \in Lines : LogTest(l)
  \/ LogPush \/ LogClear \/ LogCtxDone
HeapUpdate ==
  \/ \E l \in Lines : ReplayEntry(l) \/ ReplayCtxEntry(l)
  \/ ReplayDone
  \/ \E t \in Threads : ReplayCtx(t) \/ ClearCtxLog(t)
  \/ ReplayCtxDone \/ ClearLog
CpNext ==
  \/ Loop \/ Advance \/ Finalize
  \/ \E t \in Threads : WaitCtx(t)
  \/ StartLogPersistence \/ LogPersistence
  \/ StartHeapUpdate \/ HeapUpdate
  \/ EndCheckpoint

\* The program has stopped for good once the checkpointing thread has ended.
Ended == cpc = "ended" /\ UNCHANGED vars

Next == (\E t \in Threads : UserNext(t)) \/ Stop \/ CpNext \/ Ended

Spec == Init /\ [][Next]_vars

(***************************************************************************)
(* Fairness.  Both kinds of threads keep running.  A client decides freely *)
(* when to begin transactions, but its transactions are finite: one that   *)
(* could end infinitely often ends (strong fairness of Unlock).            *)
(***************************************************************************)
TxStep(t) == Begin(t) \/ Mark(t) \/ EndOp(t) \/ \E v \in Values : Write(t, v)
FairSpec == /\ Spec /\ WF_vars(CpNext)
            /\ \A t \in Threads : WF_vars(TxStep(t)) /\ SF_vars(Unlock(t))

-----------------------------------------------------------------------------
(***************************************************************************)
(* Properties.                                                             *)
(***************************************************************************)
Heap == [Lines -> Values]
Log  == [Lines -> Values \cup {None}]

\* The type of every variable.
TypeOK ==
  /\ GLOBAL_EPOCH \in Word
  /\ bitmap \in [0..1 -> [Lines -> BOOLEAN]]
  /\ dram \in Heap /\ nvm \in Heap
  /\ isPersisting \in BOOLEAN
  /\ pc \in [Threads -> UserPC]
  /\ epoch \in [Threads -> Word] /\ reg \in [Threads -> Word]
  /\ hold \in [Threads -> SUBSET Lines] /\ region \in [Threads -> SUBSET Lines]
  /\ left \in [Threads -> SUBSET Lines]
  /\ line \in [Threads -> Lines \cup {None}]
  /\ fresh \in [Threads -> BOOLEAN]
  /\ addrlist \in [Threads -> [0..1 -> SUBSET Lines]]
  /\ ulog \in [Threads -> Log]
  /\ ctxs \subseteq Threads /\ cset \subseteq Threads
  /\ cpc \in CpPC
  /\ cctx \in Threads \cup {None}
  /\ cwork \subseteq Lines /\ cline \in Lines \cup {None}
  /\ mlog \in Log
  /\ final \in BOOLEAN
  /\ snap \in Heap /\ base \in Heap /\ overrun \in BOOLEAN

(***************************************************************************)
(* The comment on begin_op: a transaction runs in the current epoch or, as *)
(* long as the checkpointing thread waits for it, in the one before.  No   *)
(* transaction of the epoch being logged is alive when its logging starts. *)
(***************************************************************************)
EpochDiscipline ==
  \A t \in Threads : InTx(t) =>
    \/ Epoch(epoch[t]) = Epoch(GLOBAL_EPOCH)
    \/ /\ Epoch(epoch[t]) = Epoch(GLOBAL_EPOCH) - 1
       /\ cpc = "wait" /\ t \in cset

(***************************************************************************)
(* What free_with_create_log relies on: a transaction that coexists with   *)
(* one of the previous epoch has read the phase Multi_Epoch_Existence, so  *)
(* it delays its deallocations.                                            *)
(***************************************************************************)
OverlapIsAnnounced ==
  \A t, u \in Threads :
    InTx(t) /\ InTx(u) /\ Epoch(epoch[t]) = Epoch(epoch[u]) + 1
      => get_phase(epoch[t]) = MEE

(***************************************************************************)
(* Between checkpoints the NVM heap is exactly what the previous epoch     *)
(* left; while the next epoch is being awaited and logged it stays what    *)
(* the epoch before that left.  True of every behaviour in which no thread *)
(* was inside a copy-on-write when an NVM heap update began.               *)
(***************************************************************************)
CheckpointImage ==
  ~overrun => /\ cpc \in FreePC \cup {"ended"} => nvm = snap
              /\ cpc \in {"wait"} \cup LogPC => nvm = base

(***************************************************************************)
(* Throughout the NVM heap update, replaying the redo logs over the NVM    *)
(* heap as it is, the contexts' logs after the checkpointing thread's,     *)
(* yields what the previous epoch left: a crash inside the update loses    *)
(* nothing that the logs do not hold.                                      *)
(***************************************************************************)
RedoLogsComplete ==
  ~overrun /\ cpc \in UpdatePC => \A l \in Lines :
    /\ \A t \in Threads : ulog[t][l] \in {None, snap[l]}
    /\ (\A t \in Threads : ulog[t][l] = None) =>
         snap[l] = IF mlog[l] = None THEN nvm[l] ELSE mlog[l]

(***************************************************************************)
(* The two bitmaps and address lists are reused in turn: when an epoch     *)
(* begins, those of its parity are clear and its writes are seen as new.   *)
(***************************************************************************)
BitmapRecycled ==
  cpc \in FreePC \cup UpdatePC => \A l \in Lines :
    /\ ~bitmap[cprev][l]
    /\ \A t \in Threads : l \notin addrlist[t][cprev]

(***************************************************************************)
(* escort_finalize: when the checkpointing thread has ended, every write   *)
(* of every transaction is in the NVM heap.                                *)
(***************************************************************************)
CleanShutdown == ~overrun /\ cpc = "ended" => nvm = dram

(***************************************************************************)
(* A checkpoint that has begun ends: the wait for the transactions of the  *)
(* previous epoch is never a wait for a thread that begins new ones, and   *)
(* a thread outside transactions never holds a checkpoint up.              *)
(***************************************************************************)
CheckpointEnds == cpc = "wait" ~> cpc = "idle"

\* escort_finalize, which joins the checkpointing thread, returns.
ShutdownEnds == ~isPersisting ~> cpc = "ended"

(***************************************************************************)
(* The comment in log_persistence_unit, "if bit is clear, CoW has          *)
(* happened": a line that is left out of _log is in a context's log when   *)
(* the logs are replayed, so a finished checkpoint is what the previous    *)
(* epoch left.                                                             *)
(***************************************************************************)
CowHasHappened == cpc = "idle" => nvm = snap
=============================================================================
