------------------------------- MODULE Startup -------------------------------
(***************************************************************************)
(* The NVM file and what every start of a process makes of it: nvmconfig_t *)
(* (nvm/config.cpp) lays out the areas, escort_is_recovery looks whether   *)
(* the file is dirty, escort_init either formats it or takes it over.      *)
(*                                                                         *)
(* Addresses are offsets in the file.  The words of the header share one   *)
(* cache line.  A process that dies leaves the file as it has stored it; a *)
(* power failure leaves a header that the line has had since it was last   *)
(* flushed.  The epoch word is never flushed once the process runs.        *)
(***************************************************************************)
EXTENDS Integers

CONSTANTS
  CACHE_LINE_SIZE, HEAP_SIZE,
  FileSize,     \* what tools/mknvmfile has created
  Addrs,        \* addresses _escort_internal_malloc may return
  CpNum,        \* the number of checkpointing threads asked for
  MaxEpoch,     \* bound: epochs of a file
  MaxThreads    \* bound: threads of a process

ASSUME LayoutAssumption ==
  /\ CACHE_LINE_SIZE \in Nat /\ CACHE_LINE_SIZE >= 40   \* it holds the header
  /\ HEAP_SIZE \in Nat /\ HEAP_SIZE % CACHE_LINE_SIZE = 0
  /\ FileSize \in Nat /\ CpNum \in Nat /\ 0 \notin Addrs
  /\ MaxEpoch \in Nat /\ MaxThreads \in Nat

VARIABLES
  \* the file
  dram_space,    \* the first word: the DRAM base, 0 in a clean file
  GLOBAL_EPOCH,  \* the number in the epoch word
  bytemap,       \* where ByteMap_NVM keeps its bytes
  root_pointer,
  persist_num, user_num,
  \* the process
  pc, is_dirty, RootTable, tmp_space, threads,
  pending,       \* the headers that NVM may hold
  \* history
  formatted,     \* an escort_init has formatted the file to the end
  started        \* the epoch at the end of the last escort_init

fvars == <<dram_space, GLOBAL_EPOCH, bytemap, root_pointer, persist_num, user_num>>
pvars == <<pc, is_dirty, RootTable, tmp_space, threads>>
hvars == <<formatted, started>>
vars == <<fvars, pvars, pending, hvars>>

header == [dram_space |-> dram_space, epoch |-> GLOBAL_EPOCH,
           bytemap |-> bytemap, root_pointer |-> root_pointer]
\* A store to the header reaches NVM at once, later, or not before a flush.
Store == pending' = pending \cup {header'}

Word == 8   \* sizeof(void*), sizeof(epoch_t)

-----------------------------------------------------------------------------
\* create_area: where each area begins
Header == 5 * Word
nvm_space == IF Header % CACHE_LINE_SIZE = 0 THEN Header
             ELSE Header + (CACHE_LINE_SIZE - (Header % CACHE_LINE_SIZE))
persist_num_addr == nvm_space + HEAP_SIZE
user_num_addr == persist_num_addr + Word
AreaEnd == user_num_addr + Word
BytemapSize == HEAP_SIZE \div CACHE_LINE_SIZE

\* What a file may be at first: all zero, or with a header that test/run.sh has
\* zeroed over the remains of an earlier run.
Init ==
  /\ dram_space = 0 /\ GLOBAL_EPOCH = 0 /\ bytemap = 0 /\ root_pointer = 0
  /\ persist_num \in {0, CpNum} /\ user_num \in 0..MaxThreads
  /\ pc = "down" /\ is_dirty = FALSE /\ RootTable = 0 /\ tmp_space = 0
  /\ threads = 0 /\ pending = {header} /\ formatted = FALSE /\ started = 0

\* check_dirty.  Mutant: the file always looks clean.
check_dirty_never == FALSE
check_dirty == dram_space # 0

\* The constructor of nvmconfig_t: check_dirty, then create_area marks the file.
Open ==
  /\ pc = "down" /\ pc' = "opened"
  /\ is_dirty' = check_dirty
  /\ dram_space' = 1
  /\ tmp_space' = AreaEnd
  /\ UNCHANGED <<GLOBAL_EPOCH, bytemap, root_pointer, persist_num, user_num,
                 RootTable, threads, hvars>>
  /\ Store

\* nvmconfig_t::malloc asserts that the area begins inside the file.
MallocAsserts(at) == at < FileSize

(***************************************************************************)
(* init_bitmap: pnew<bytemap_nvm_t> takes the object and, in its           *)
(* constructor, the bytes.  The bytes are not cleared.                     *)
(***************************************************************************)
InitBitmap ==
  /\ pc = "opened" /\ pc' = "mapped"
  /\ MallocAsserts(tmp_space) /\ MallocAsserts(tmp_space + Word)
  /\ bytemap' = tmp_space + Word
  /\ tmp_space' = tmp_space + Word + BytemapSize
  /\ UNCHANGED <<dram_space, GLOBAL_EPOCH, root_pointer, persist_num, user_num,
                 is_dirty, RootTable, threads, hvars>>
  /\ Store

\* escort_init, first execution: GLOBAL_EPOCH = 2
FirstEpoch ==
  /\ pc = "mapped" /\ ~is_dirty /\ pc' = "numbered"
  /\ GLOBAL_EPOCH' = 2
  /\ UNCHANGED <<dram_space, bytemap, root_pointer, persist_num, user_num,
                 is_dirty, RootTable, tmp_space, threads, hvars>>
  /\ Store

\* set_root_pointer.  Mutant: the pointer stays in the process.
set_root_pointer_volatile(a) == UNCHANGED root_pointer
set_root_pointer(a) == root_pointer' = a

\* escort_init, first execution: init_roottable
InitRoottable(a) ==
  /\ pc = "numbered" /\ pc' = "ready"
  /\ RootTable' = a
  /\ set_root_pointer(a)
  /\ UNCHANGED <<dram_space, GLOBAL_EPOCH, bytemap, persist_num, user_num,
                 is_dirty, tmp_space, threads, hvars>>
  /\ Store

\* reset_thread_num.  Mutant: user_num is forgotten.
reset_thread_num_half == persist_num' = 0 /\ UNCHANGED user_num
reset_thread_num == persist_num' = 0 /\ user_num' = 0

\* escort_init, is_recovery: the heap is another module's; the root table is
\* where the file says, and the epoch word is taken as it is.
Recover ==
  /\ pc = "mapped" /\ is_dirty /\ pc' = "ready"
  /\ RootTable' = root_pointer
  /\ reset_thread_num
  /\ UNCHANGED <<dram_space, GLOBAL_EPOCH, bytemap, root_pointer, is_dirty,
                 tmp_space, threads, pending, hvars>>

\* init_checkpointing_thread and flush_variable.  What has been written back (clwb)
\* is in NVM at the fence of set_checkpointing_thread, before a thread runs.
StartCheckpointing ==
  /\ pc = "ready" /\ pc' = "running"
  /\ persist_num' = CpNum
  /\ pending' = {header}
  /\ formatted' = (formatted \/ ~is_dirty)
  /\ started' = GLOBAL_EPOCH
  /\ UNCHANGED <<dram_space, GLOBAL_EPOCH, bytemap, root_pointer, user_num,
                 is_dirty, RootTable, tmp_space, threads>>

\* escort_thread_init: add_user_num
ThreadInit ==
  /\ pc = "running" /\ threads < MaxThreads
  /\ threads' = threads + 1
  /\ user_num' = user_num + 1
  /\ UNCHANGED <<dram_space, GLOBAL_EPOCH, bytemap, root_pointer, persist_num,
                 pc, is_dirty, RootTable, tmp_space, pending, hvars>>

\* The checkpointing thread begins an epoch: a store and fences, but no clwb.
Advance ==
  /\ pc = "running" /\ GLOBAL_EPOCH < MaxEpoch
  /\ GLOBAL_EPOCH' = GLOBAL_EPOCH + 1
  /\ UNCHANGED <<dram_space, bytemap, root_pointer, persist_num, user_num, pvars, hvars>>
  /\ Store

NoProcess ==
  pc' = "down" /\ is_dirty' = FALSE /\ RootTable' = 0 /\ tmp_space' = 0 /\ threads' = 0

\* The process dies, or ends: the file stays, and stays dirty.
Crash == pc # "down" /\ NoProcess /\ UNCHANGED <<fvars, pending, hvars>>

\* The power fails, with a process or without.  The thread numbers are in other
\* lines than the header; the next start resets them.
PowerFailure ==
  /\ NoProcess
  /\ \E h \in pending :
       /\ dram_space' = h.dram_space /\ GLOBAL_EPOCH' = h.epoch
       /\ bytemap' = h.bytemap /\ root_pointer' = h.root_pointer
       /\ pending' = {h}
  /\ persist_num' \in {0, CpNum} /\ user_num' \in 0..MaxThreads
  /\ UNCHANGED hvars

Next ==
  \/ Open \/ InitBitmap \/ FirstEpoch \/ \E a \in Addrs : InitRoottable(a)
  \/ Recover \/ StartCheckpointing \/ ThreadInit \/ Advance \/ Crash \/ PowerFailure

Spec == Init /\ [][Next]_vars

-----------------------------------------------------------------------------
(***************************************************************************)
(* Once formatted, a file keeps its root table and its byte map through    *)
(* every restart, deaths of processes and power failures during later      *)
(* starts included.  Its epoch goes back only in a power failure, and then *)
(* not below that of the last start.                                       *)
(***************************************************************************)
FileSurvives ==
  [][formatted => /\ root_pointer' = root_pointer /\ bytemap' = bytemap
                  /\ GLOBAL_EPOCH' >= started
                  /\ pc' # "down" => GLOBAL_EPOCH' >= GLOBAL_EPOCH]_vars

\* A process that has taken over a formatted file has that file's root table,
\* and can begin transactions, epoch 0 being no epoch.
TakenOver ==
  formatted /\ pc = "running" => RootTable = root_pointer /\ RootTable # 0
                                 /\ GLOBAL_EPOCH >= 2

\* In a recovered process the file's thread numbers are those of the process.
ThreadNumbers ==
  pc = "running" /\ is_dirty => user_num = threads /\ persist_num = CpNum
=============================================================================
