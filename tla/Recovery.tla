------------------------------ MODULE Recovery ------------------------------
(***************************************************************************)
(* Crashes and restarts of the system of module Checkpointing.             *)
(*                                                                         *)
(* The NVM file, the redo log file and the epoch word are shared mappings. *)
(* When the process is killed they keep every store; when the power fails, *)
(* a store is certain to be there only if its cache line was written back, *)
(* which takes clwb and sfence.  Before that the line may have been        *)
(* evicted, or not, or in the middle of the store.  PowerFails says which  *)
(* of the two crashes are.  The redo logs need no such care: recovery      *)
(* finds them empty whatever they held (init_manager).                     *)
(*                                                                         *)
(* The next process calls escort_init with is_recovery, the file being     *)
(* dirty, also after a clean shutdown.                                     *)
(***************************************************************************)
EXTENDS Checkpointing

CONSTANT PowerFails   \* crashes lose what is not written back

ASSUME PowerAssumption == PowerFails \in BOOLEAN

VARIABLES
  pending,  \* what each line of the NVM heap may hold after a crash
  words     \* what the epoch word may be then

rvars == <<vars, pending, words>>

RInit ==
  /\ Init
  /\ pending = [l \in Lines |-> {nvm[l]}]
  /\ words = {GLOBAL_EPOCH}

\* Mutant: the sfence after the replay of the contexts' logs is missing.
Fence_first == cpc = "replay" /\ cpc' # cpc

\* nvm_heap_update_unit: the sfences after each of the two replays, every entry
\* of which replay_redo_log has followed with clwb
Fence == cpc \in {"replay", "replayctx"} /\ cpc' # cpc

(***************************************************************************)
(* A step of the running process.  GLOBAL_EPOCH is stored without clwb, so *)
(* a crash may find any word stored since escort_init.                     *)
(***************************************************************************)
Run ==
  /\ Next
  /\ pending' = [l \in Lines |-> IF Fence \/ ~PowerFails THEN {nvm'[l]}
                                 ELSE IF nvm'[l] = nvm[l] THEN pending[l]
                                 ELSE Values]
  /\ words' = {GLOBAL_EPOCH'} \cup IF PowerFails THEN words ELSE {}

\* The previous epoch is not durable yet.
ClosingPC == {"wait"} \cup LogPC

\* The NVM heaps a crash may leave
CrashHeaps == {h \in Heap : \A l \in Lines : h[l] \in pending[l]}

-----------------------------------------------------------------------------
(***************************************************************************)
(* escort_init(nvm_path, n, is_recovery = true).                           *)
(***************************************************************************)

\* init_manager: the constructor of plog_management_t constructs every block of
\* the redo log area anew, so the log recovery finds has no entries.
init_manager == EmptyLog

\* recovery::replay_redo_logs, of the blocks that init_manager has left
replay_redo_logs(log, heap) ==
  [l \in Lines |-> IF l \in Logged(log) THEN log[l] ELSE heap[l]]

\* Mutant: the heap starts empty, as in a first execution.
RecoveredHeap_first(heap, word) == [l \in Lines |-> InitVal]

\* The NVM heap after escort_init has decided whether to replay the redo logs.
\* The phase is looked up in a word whose phase bits Epoch() has masked out.
RecoveredHeap(heap, word) ==
  IF get_phase(Epoch(word)) = LP THEN replay_redo_logs(init_manager, heap)
                                 ELSE heap

\* recovery::copy: a DRAM heap of zeros takes over what is not zero in NVM
copy(dram_space, nvm_space) ==
  [l \in Lines |-> IF dram_space[l] = InitVal /\ nvm_space[l] # InitVal
                  THEN nvm_space[l] ELSE dram_space[l]]

\* init_bitmap constructs both bitmaps anew.  Mutant: they survive.
init_bitmap_kept == bitmap
init_bitmap == [p \in 0..1 |-> [l \in Lines |-> FALSE]]

\* The logs the contexts of the new process find.  Mutant: plog_management_t
\* leaves the blocks as they are, and each context gets its old one.
FreshLogs_kept == ulog
FreshLogs == [t \in Threads |-> init_manager]

\* is_recovery: GLOBAL_EPOCH is left alone.  Mutant: it is set as for a new file.
RecoveredEpoch_first(word) == 2
RecoveredEpoch(word) == word

(***************************************************************************)
(* A crash that leaves the given NVM heap and epoch word, and the recovery *)
(* after it.  init_bitmap, init_manager and the new cpmaster_t give fresh  *)
(* volatile state, recovery::copy fills the DRAM heap, which is zero, and  *)
(* GLOBAL_EPOCH is left as it was found, phase bits included, and is made  *)
(* durable by flush_variable.  A second crash during these steps finds the *)
(* NVM heap as the first one did, so they are one step.                    *)
(***************************************************************************)
RestartFrom(heap, word) ==
  /\ nvm' = RecoveredHeap(heap, word)
  /\ dram' = copy([l \in Lines |-> InitVal], nvm')
  /\ bitmap' = init_bitmap
  /\ isPersisting' = TRUE
  /\ pc'     = [t \in Threads |-> "new"]
  /\ epoch'  = [t \in Threads |-> 0]
  /\ reg'    = [t \in Threads |-> 0]
  /\ hold'   = [t \in Threads |-> {}]
  /\ region' = [t \in Threads |-> {}]
  /\ left'   = [t \in Threads |-> {}]
  /\ line'   = [t \in Threads |-> None]
  /\ fresh'  = [t \in Threads |-> FALSE]
  /\ addrlist' = [t \in Threads |-> NoLines]
  /\ ulog'     = FreshLogs
  /\ ctxs' = {} /\ cpc' = "idle" /\ cset' = {} /\ cctx' = None
  /\ cwork' = {} /\ cline' = None /\ mlog' = init_manager /\ final' = FALSE
  /\ snap' = nvm' /\ base' = nvm' /\ overrun' = FALSE
  /\ GLOBAL_EPOCH' = RecoveredEpoch(word)
  /\ pending' = [l \in Lines |-> {nvm'[l]}] /\ words' = {GLOBAL_EPOCH'}

Restart == \E heap \in CrashHeaps, word \in words : RestartFrom(heap, word)

RNext == Run \/ Restart

RSpec == RInit /\ [][RNext]_rvars

-----------------------------------------------------------------------------
(***************************************************************************)
(* clear_redo_logs throws away the only other copy of the lines that were  *)
(* replayed: it begins when all of them are durable.                       *)
(***************************************************************************)
DurableBeforeClear ==
  cpc \notin {"replay", "replayctx"} => \A l \in Lines : pending[l] = {nvm[l]}

(***************************************************************************)
(* A crash outside the NVM heap update loses at most the epochs that were  *)
(* not yet being replayed: recovery yields exactly the heap of the last    *)
(* finished checkpoint, however many crashes and restarts came before.     *)
(***************************************************************************)
RecoveryKeepsCheckpoint ==
  ~overrun /\ cpc \notin UpdatePC =>
    \A heap \in CrashHeaps, word \in words :
      RecoveredHeap(heap, word) = IF cpc \in ClosingPC THEN base ELSE snap

(***************************************************************************)
(* The epoch number never skips, and falls back, after a power failure, to *)
(* one of this process at the worst: what is stamped with the number of an *)
(* epoch that an earlier process has recovered from is never mistaken for  *)
(* a new one.                                                              *)
(***************************************************************************)
EpochAdvancesByOne ==
  [][Epoch(GLOBAL_EPOCH') - Epoch(GLOBAL_EPOCH) \in {0, 1} \/ GLOBAL_EPOCH' \in words]_rvars

(***************************************************************************)
(* The README's promise for escort_init in recovery mode, and what the     *)
(* tests check after a restart: whatever the moment the process is killed, *)
(* the heap recovered is one that an epoch left, never a mixture of two.   *)
(***************************************************************************)
RecoveredHeapIsEpochImage ==
  ~overrun => RecoveredHeap(nvm, GLOBAL_EPOCH) \in {snap, base}
=============================================================================
