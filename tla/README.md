# A TLA+ development of Escort

Escort (`src/src`) makes a heap persistent by *buffered durability*: programs run
transactions on a heap in DRAM, and a checkpointing thread carries what each
epoch has written to a copy of the heap in NVM. This directory holds a model of
that system, the configurations that check it with TLC, and proofs that TLAPS
checks. `PROJECT.json` maps every definition to its source lines and lists the
runs, the mutants, the hazards, the findings and the theorems.

## The system

| Component | State | Operations |
|---|---|---|
| Epoch word (`globalEscort`) | `GLOBAL_EPOCH` in NVM: epoch number, and the phase in its two top bits | `Epoch`, `get_phase`, `set_phase` |
| User thread context (`userthreadctx_t`, `bitmap_t`, `addrlist_t`) | `_epoch`, two address lists, a redo log, two allocator logs, two lists of delayed frees; the shared `BitMap[2]` | `begin_op`, `end_op`, `mark` (from `escort_write_region`), `malloc_with_create_log`, `free_with_create_log`, root operations |
| Checkpointing thread (`cpmaster_t`) | array of contexts, own redo log, execute right, count of waiting threads | `checkpointing`, `wait_previous_epoch_transactions`, `log_persistence`, `nvm_heap_update`, `finalize`, `init_userthreadctx`, `finalize_userthreadctx` |
| Redo logs (`plog_t`) | blocks of cache lines in NVM, a pool of free ones | `push_back`, `flush`, `clear`, `pop` |
| Allocation (`allocatorlog_t`, `bytemap_t`, `cpallocator_t`, `deallocator_t`) | byte maps in DRAM and NVM, allocator logs, delayed lists | `check_valid`, `checkpointing`, `dealloc` |
| Recovery (`recovery.cpp`, `escort_init`) | reads the NVM file | `replay_redo_logs`, `copy`, `apply_metadata` |
| Root table (`roottable_t`) | buckets of named roots on the persistent heap, a lock in each | `set_root`, `get_root`, `remove_root` |
| NVM layout and startup (`nvm/config`, `init.cpp`, `escort_init`) | header of the NVM file, addresses of the areas, `user_num`, `persist_num` | `check_dirty`, `create_area`, `malloc`, `init_bitmap`, `init_roottable`, `reset_thread_num` |

**Interaction.** User threads and the checkpointing thread share the epoch word,
the two bitmaps, the heap and the logs; nothing but the epoch protocol keeps
them apart. An epoch is identified by a number, and its parity selects one of two
bitmaps, lists and logs. When the checkpointing thread increases the number, the
transactions that run keep the previous epoch, and the thread waits for them,
logs the lines they have marked, replays the logs on the NVM heap and clears
them. All this while transactions of the new epoch run; when such a transaction
is about to write a line of the previous epoch that is not logged yet, it logs
the old value itself (copy-on-write). Every checkpoint starts one thread for
allocator metadata (twice) and one for delayed deallocations. A thread joins the
array of contexts under an execute right that the checkpointing thread holds
during checkpoints.

**What is hard.** The two sides race on bits and logs without locks; state read
before the epoch changes is used after it; bitmaps and lists are reused two epochs
later and must be clean by then; a crash can fall between any two stores; the
wait at the start of a checkpoint must end; frees must not let memory travel from
a later epoch into an earlier one. `PROJECT.json` has these as `hazards`, each at
the line where it bites.

**What makes each part correct.**

* Epoch word: setting a phase keeps the number; the phases are read back.
* Epoch protocol: no transaction of an epoch runs once that epoch is being logged;
  overlapping epochs are announced by the phase.
* Checkpointing: between checkpoints the NVM heap is exactly what an epoch has
  left; bitmaps and lists are clean when reused; the logs suffice at every point
  of the heap update; checkpoints and the shutdown end.
* Registration: the array is not resized under an iterator; everybody gets in.
* Allocation: no memory passes from a later to an earlier epoch; log entries
  reflect net changes; nothing is freed twice; NVM metadata describes an epoch
  and has the size of every object.
* Write regions: every byte of a region is in a line that is marked and saved.
* Recovery: what is recovered is the heap an epoch has left, after a crash of the
  process and after a power failure.
* Root table: a get returns an address the name had during the call; every call
  returns.
* Startup: a formatted file keeps its roots and byte map, and its epoch goes back
  only as far as a power failure can take it; a file is either formatted or
  recognised as new.
* All together: a heap whose epochs become durable one by one, each as a whole.

## Modules

| Module | Models |
|---|---|
| `EpochWord` | the epoch word and its operators |
| `Checkpointing` | user threads and checkpointing thread on the heap |
| `Recovery` (extends `Checkpointing`) | write-backs and fences, the death of the process or of the power, `escort_init` with `is_recovery` |
| `BufferedDurability` | what Escort promises: an abstract specification without threads' logs, bitmaps and lists |
| `DurabilityRefinement` (extends `Recovery`) | the refinement mapping from the protocol to the promise |
| `Startup` | layout of the NVM file, formatting it, taking it over |
| `ExecuteRight` | registration of threads with the checkpointing thread |
| `RootTable` | named roots: `set`, `get`, bucket locks |
| `CacheLine` | the size of a line, and rounding to lines |
| `Regions` | the address arithmetic of `mark` and of logging, byte by byte |
| `ObjectSizes` | sizes of objects from `PNEW` and `PDELETE` to the NVM byte map |
| `AllocatorLog` | malloc, free, byte maps, allocator logs, delayed frees |
| `BlockLog`, `LogStore` | the blocks of redo and allocator logs and their pool, and the independent logs they implement |
| `EpochWordProofs`, `CheckpointingProofs`, `ExecuteRightProofs`, `StartupProofs`, `AllocatorLogProofs`, `BlockLogProofs`, `RegionsProofs`, `RootTableProofs` | lemmas and theorems |
| `MC...` | the instances for TLC: symmetry sets and constants, with their `.cfg` files |

### EpochWord

A word is a natural number below `4 * EpochLimit`; the masks of the code are
quotient and remainder by `EpochLimit` (`2^62` in the code). Theorems hold for
every `EpochLimit`; the runs use 8.

### Checkpointing

The heap is a function from cache lines to values. Memory accesses that another
thread can observe are separate actions:

* `begin_op` is `BeginLoad`, `BeginStore`, `BeginCheck` (the loop that makes the
  announced epoch equal to the word);
* `mark` is `MarkStart`, then for each line of the region `MarkSkip`, `MarkSet` or
  `CowTest`, `CowClear`, `CowPush`, then `MarkReturn`; the client's store is `Write`;
* `checkpointing` is `Loop` (the test of `isPersisting`, which may be cleared right
  after), `Advance`, `WaitCtx`, `StartLogPersistence`, for each context
  `LogCtx`, `LogTest`, `LogPush`, `LogClear`, `LogCtxDone`, then `StartHeapUpdate`,
  `ReplayEntry`, `ReplayDone`, `ReplayCtx`, `ReplayCtxEntry`, `ReplayCtxDone`,
  `ClearLog`, `ClearCtxLog`, `EndCheckpoint`. `Finalize` is the last checkpoint.

A redo log is a function from lines to the value logged last, since logs are
replayed in order; an address list is the set of lines of its regions, since a
line met twice is skipped the second time. `LogPush` reads a line that a user
thread may be writing (the thread has cleared the bit and logged the value in the
meantime): the copy is then any value, and the replay of the contexts' logs after
the checkpointing thread's own repairs it. Clients follow the discipline of
`test/list_multi.cpp` and of the comment in `bitmap_t.hpp`: they take the locks of
the lines they access before `escort_begin_op` and release them after the last
write, before `escort_end_op`.

Three history variables are not part of the program: `snap` and `base`, the heap
as the previous epoch and the one before it leave it, and `overrun`, which records
that a thread was between `CowTest` and `CowPush` when the heap update began. The
code does not prevent that (first finding below); properties about the contents
of the NVM heap are stated for the behaviours without it, so that they still say
everything about the rest of the protocol.

### Recovery

`Restart` is possible in every state: a crash, and the `escort_init` of the next
process. `PowerFails` chooses the crash. Without it the process is killed: shared
mappings keep every store. With it, `pending` has for each line of the NVM heap the
values a power failure may leave there, and `words` those of the epoch word. A
replayed line may be evicted before, in the middle of or after its store, so it may
be anything until the `sfence` that follows the replay; each entry is followed by
`clwb`, which the fence completes. The epoch word is never written back after
`escort_init`, so any word since the start may be found. Redo logs need no such
state: `init_manager` empties them before anything reads them.

`RestartFrom` is translated in the order of the calls of `escort_init`:
`init_manager` constructs all redo log blocks anew; the phase is read from a word
from which `Epoch()` has removed it, so `replay_redo_logs` is not called; the DRAM
heap is copied from the NVM heap; the epoch word is left alone and written back. The
NVM heap is not stored to during these steps, so a second crash among them finds
what the first one found, and they can be one step with the crash.

### BufferedDurability and DurabilityRefinement

The abstract state is the heap, the image of the epoch that is closing, the
durable image, and the epoch of each running transaction. `NewEpoch` may happen
while transactions run; `Commit` makes the closing epoch durable in one step and
requires that its transactions have ended; `Crash` falls back to the durable image
and is what a `Restart` refines.
The refinement mapping makes the store of the phase `NVM_Heap_Update` the commit:
from then on the durable image is the NVM heap with the redo logs replayed over it,
the contexts' logs last, and the steps of the replay are invisible.
`ImplementsDurability` excuses exactly two kinds of steps, those the first two
findings are about: steps of a behaviour with an overrun copy-on-write, and the
restart after a crash inside the heap update.

### Startup

Addresses are offsets in the NVM file. `Open` is the constructor of `nvmconfig_t`
(the dirty mark is read, then set), `InitBitmap` lays out the byte map, `FirstEpoch`
and `InitRoottable` are the first execution, `Recover` the later ones. A file may
begin all zero, or with its first kilobyte zeroed over the remains of an earlier run,
as `test/run.sh` does. A process passes what `escort_is_recovery` says to
`escort_init`, as the tests do.

Between any two steps the process may end or die (`Crash`), which leaves the file as
it has stored it, or the power may fail (`PowerFailure`). The five words of the header
share a cache line, so a power failure leaves one of the headers the line has had
since it was last certain to be written back: `pending` has these. It shrinks to the
present one in `StartCheckpointing`, where the fence of `set_checkpointing_thread`
completes the `clwb` of `set_bytemap_pointer` and `set_root_pointer`, and grows with
every store. `Advance` stores the epoch word without `clwb` (`checkpointing.cpp:185`), so
after a power failure the file may have any epoch since the last start. Two history
variables: `formatted` says that an `escort_init` has formatted the file to its end,
`started` is the epoch at the end of the last one.

### RootTable

Each access to a shared word in `lock`, `unlock`, `set` and `get` is a step. `expected`
is the variable that `compare_exchange_weak` overwrites when it fails. Tables are new
or recovered; a recovered bucket may have its lock saved as taken, since the lock is
in the cache line of the head, which a transaction marks before it links a node. Any
thread sets any name at any time. Names are atoms with a given bucket, which they may
share: the code's `hashfn` adds up the characters of a name. The use of the null `curr`
in the `else` branch of `set` is a fault that stops the process, so a bucket never has
two nodes. `escort_remove_root` calls `get_root` and drops the result, so it is no
operation of its own here.

The lock does not exclude (see the preconditions). The history variable `raced` records
that a thread has taken the lock of a bucket while another held it; the properties
about contents are stated for the behaviours without that, as those of `Checkpointing`
are without `overrun`.

### Regions and ObjectSizes

The two sequential parts in which arithmetic matters, both on `CacheLine`. `Regions` has bytes: the lines
`mark` marks, the entry it appends, the lines `log_persistence_unit` saves from the
entries. `ObjectSizes` has objects of several lines: what `PNEW` and `PDELETE` log, and
the bytes `set_obj_size` writes for them. The internal allocator puts an object of a
size at any of the places it has for that size, and objects of different sizes share
places, as in its size classes. `SizesSaved` compares sizes byte by byte: as many lines
as a byte can count, and the rest in the last one. The history variable `resized` names
the objects whose size the code does not save (see the preconditions): allocated where
another was freed in the same epoch, while the log's last entry in their bytes is not
of their place and size.
The number of lines one byte of the map can count equals the size of a cache line in
the code (both 64), and stays equal to it here.

### ExecuteRight

Every atomic operation of `init_userthreadctx`, `finalize_userthreadctx` and of the
loop of `checkpointing` is an action; `add_user_num` is a load and a store. The
loops over the array of contexts are one loop. It justifies the single step
`ThreadInit` of `Checkpointing`.

### AllocatorLog

`begin_op` and the wait are single steps here. This is what `EpochsAreDisciplined`
(below) shows about them: once `begin_op` has returned the epoch is the current
one, or the checkpointing thread is still waiting for it. Objects have one size.
The internal allocator, a modified jemalloc that is not part of the sources, is a
set of addresses handed out. `MallocLog` and `Malloc`, `FreeLog` and `Free` are the
two halves of an allocation and a deallocation, since another thread can get the
memory in between.

### BlockLog and LogStore

`plog_t` and `allocatorlog_t` are the same structure: a list of fixed-size blocks,
taken from a pool with a mutex and given back by `clear`. `BlockLog` models both,
with the epoch stamp of the second. Blocks keep their old entries and stamps when
they are given back, as in the code, and `clear` gives a block back before it
unlinks it, so that another thread may already fill it. A pool that runs dry ends
the process (the assertion in `pop`). `LogStore` is what the users of logs expect:
appending extends one log, clearing shortens one log, and no other log changes. The
refinement mapping takes the entries up to the size of each block that is still
the log's own. `Checkpointing` and `AllocatorLog` use logs at that level.

## Runs

| Run | What it checks | Instance |
|---|---|---|
| `threads` | types, epoch discipline, announced overlaps, checkpoint image, complete redo logs, recycled bitmaps, clean shutdown; logs are cleared when the heap is durable; recovery keeps the last checkpoint; the protocol implements `BufferedDurability` | 2 threads, 1 line, transactions in 3 epochs, any number of power failures |
| `restart` | with regions of one and two lines and restarts: the refinement, which says of them all that the properties of heap contents in `threads` say of one line; recycled bitmaps; epoch numbers go on by one | 1 thread, 2 lines, 3 epochs, any number of crashes of the process |
| `progress` | checkpoints and shutdown end | 2 threads, 1 line, 2 epochs and the shutdown |
| `registration` | array not resized under iterators, counts, bounded overtaking, registration and finalisation return | 3 threads |
| `allocator` | no reuse across epochs, validity of entries, recycling, no double free, no object missing in the NVM byte map | 2 threads, 1 object, 4 epochs, 2 entries per log |
| `log_blocks` | independent logs, owners and stamps of blocks, no block wasted | 2 logs of up to 4 entries, 2 blocks of 2 entries |
| `startup` | root table taken over, thread numbers, formatted files survive | 2 threads, 3 epochs, any number of starts, deaths of the process and power failures |
| `roots` | gets without a lock return roots; null pointers are followed by collisions only; calls return unless they are overtaken | 2 threads that set and get 2 names of one bucket, 2 addresses, 3 nodes |
| `aligned_regions` | written bytes are saved, no bit is left | 3 lines of 4 bytes, all regions that begin on a line or stay in one |
| `object_sizes` | sizes are saved, in places and bytes of the map that objects of other sizes have used | 10 lines, objects of 1, 3 and 4 lines, 2 lines per byte, 3 entries in the log |
| `copy_on_write_overrun`, `torn_recovery` | the findings, each a property that the code violates | 2 threads and 1 line; 1 thread and 2 lines |

All runs check for deadlock; a program that has shut down stutters (`Ended`).

**Bounds.** `MaxEpoch` caps the epochs; transactions run in epochs 2 to
`MaxEpoch - 1`, the last one being that of the shutdown's checkpoint. All per-epoch
state has two copies, so what an epoch leaves behind can hurt two epochs later at
the earliest: three epochs reuse one copy, which the protocol needs, four reuse both,
which the allocator needs, whose frees are delayed by an epoch. A crash starts the
per-epoch state anew, and its epochs count against the same bound. The protocol treats
lines separately except for regions, lists and logs, where two lines show all there
is between a line and another; threads interact by pairs, on the line they contend
for or through the checkpointing thread, and a third matters only for the array of
contexts and the execute right, where there are three. Two values tell an old
content from a new one. `MaxLog` = 2 allows an object to be freed and allocated
again by one thread in one epoch. Two blocks of two entries let one log take the
whole pool, or both logs compete for its last block, with blocks that are partly
filled, full and reused. The arithmetic modules scale the cache line down: lines of
4 bytes have aligned, unaligned, line-crossing and line-sized regions, and three of
them a region with a first, a middle and a last line; with two lines per byte of the
map an object of three lines takes a full byte and a rest and one of four lines two full
bytes, at the same places, and one of one line lies where the second byte of the others
is. In `roots` two names share a bucket, since buckets do not affect each other; three
nodes are one that is there already and one for each thread to allocate. Symmetry is
used for threads, lines, logs or entries, never in runs with liveness properties.

**Fairness.** `Checkpointing!FairSpec`: weak fairness for the checkpointing thread
and for each thread's steps within a transaction, since a runnable thread keeps
running; strong fairness for `Unlock`, the assumption that transactions are
finite (a client that marks regions for ever would block checkpoints in the code
too). Nothing is assumed about when clients begin transactions: the checkpoint
must end with threads that stay outside transactions and with threads that start
one after the other. `ExecuteRight!FairSpec`: weak fairness only, also for the
compare-exchange on the execute right, so that a spin may fail whenever the right
is taken and released between two attempts; it is `num_wait_threads` that makes
registration return. `RootTable!FairSpec`: weak fairness for a thread inside a call,
which keeps running; the spin on the lock is a step that may fail.

## Findings

1. **Copy-on-write overrun** (`copy_on_write_overrun`). `mark` clears the previous
   epoch's bit before it logs the old value. The checkpointing thread takes a
   clear bit to mean "CoW has happened" (`checkpointing.cpp:44`), and it does not
   wait for threads of the current epoch. If it passes through log persistence and
   the heap update in between, the finished checkpoint lacks the line, and the
   late entry is replayed by the next checkpoint.
2. **Torn recovery** (`torn_recovery`). `escort_init` never replays the redo logs: it
   asks for the phase after masking it out, and `init_manager` has emptied the
   blocks. A crash between two replayed lines recovers lines of two epochs. (In the
   phase comparison the code also asks for `Log_Persistence`, where the logs are
   incomplete, and not for `NVM_Heap_Update`.)

## Preconditions

The other passing runs are about the cases the code supports. Where it assumes
something of its clients or of the platform, or where only part of a promise holds,
the run has it as a precondition:

* `aligned_regions`: regions begin on a cache line or stay within one. `mark` counts
  lines by the size alone (`userthreadctx_t.cpp:132`), so the last line of any other
  region may go unmarked.
* `object_sizes`: a malloc at the place of a free in the same epoch takes the free back
  and leaves no log entry, also when the sizes differ (`userthreadctx_t.cpp:30`), so the
  map keeps the size that the log already has; and an entry made in between, for an
  object whose bytes of the map overlap, is applied after it. `SizesSaved` exempts such
  an object (`resized`) until it is freed, and nothing else. Several logs in one epoch,
  whose entries are applied context by context, are not in this module. `pdelete` calls
  `escort_free` only for sizes that need rounding (`Escort.hpp:57`), so objects of
  whole lines are never given back; both branches are in the model.
* `allocator`: `MetadataComplete` is one direction. `cpallocator_t::checkpointing` sets
  the size of an object for entries of frees and of invalid operations too
  (`cpallocator_t.cpp:58`), and nothing clears a size in the NVM byte map, so the map
  may have objects that are free.
* `startup`: the properties are about files whose first `escort_init` came to its end.
  `create_area` marks the file dirty before the first epoch and the root table are
  stored (`nvm/config.cpp:65`); after a crash in between the file is recovered with
  epoch 0, which the assertion of `begin_op` rejects. The file is large enough: the
  assertion in `nvmconfig_t::malloc` does not count the size asked for
  (`nvm/config.hpp:79`).
* `roots`: all sets and gets are in the run, but the properties exempt two behaviours of
  the code. A failed `compare_exchange_weak` leaves `true` in `expected`, so the next
  attempt succeeds on a lock that is held (`roottable_t.hpp:45`): two setters of a bucket
  can both be in `set`, each with what it has read before the other stored, and
  `GetReturnsRoot` and `FaultIsCollision` say nothing from then on (`raced`). A set of a
  second name in a bucket follows a null pointer (`roottable_t.hpp:88`); that this is the
  only way to get there is `FaultIsCollision`. The failed attempt is also why a bucket
  whose lock was saved as taken does not block a recovered process: with a correct spin
  lock `CallsReturn` is violated (its mutant), so the two need to be repaired together.
  The lock is not fair: `CallsReturn` does not promise that a call returns while sets
  of other threads pass it in the same bucket.
* `threads` and `registration`: `escort_finalize` is called when no transaction runs and
  no thread is registering or leaving, as in the tests. `finalize` neither waits for
  transactions nor takes the execute right (`checkpointing.cpp:160`).

## Proofs

`EpochWordProofs` proves the laws of the epoch word: ranges, `set_phase` keeping
the number and storing the phase, the effect of adding one. The products and
remainders are isolated there, so that no other proof needs nonlinear arithmetic.

`CheckpointingProofs` proves, for any sets of threads, lines and values and any
`MaxEpoch < EpochLimit`:

* `TypeCorrect`: `Spec => []TypeOK`. `TypeOK` is not inductive: that a replayed
  entry is a value and not `None` depends on the work set holding only logged
  lines. `WorkOK` adds that, and that a line being copied is a line.
* `EpochsAreDisciplined`: `Spec => []EpochDiscipline`, and `OverlapsAreAnnounced`:
  `Spec => []OverlapIsAnnounced`. Both follow from the inductive `EpochInv`. The
  properties speak of transactions, but a thread's announced epoch is set before
  its transaction begins, and may be stale until `BeginCheck` rejects it; the
  invariant therefore relates the register and the announced epoch of a thread
  in each state of `begin_op` to the word and to the checkpointing thread's
  position, in particular that a thread in the previous epoch is still in the set
  the checkpointing thread waits for.

Its second part proves of the same specification:

* `BitmapsAreRecycled`: `[]BitmapRecycled`;
* `RedoLogsAreComplete`, `CheckpointsAreImages` and `ShutdownIsClean`:
  `[]RedoLogsComplete`, `[]CheckpointImage` and `[]CleanShutdown`.

None of these is inductive; they follow from `HeapInv`, which has three layers.
`LockInv` says that regions lie within what their threads have locked, so that a line
is in the hands of one transaction. `BitInv` says of every bit where the checkpointing
thread will meet it: a set bit is in an address list, or `mark` is about to put it
there; a bit of the previous epoch is in a list of a context still to be visited;
and a line never has both bits. Without it the recycling of the bitmaps cannot be
shown, because nothing else connects bits with lists. `DramInv` and `ImageInv` say
where each line's value of the previous epoch is at every point of a checkpoint: in
DRAM while no current transaction has marked the line; then, until the logs are
complete, behind a bit that is still set, with a thread inside its copy-on-write, in
a context's log, or in the checkpointing thread's log or NVM; then, during the
replay, in a log that is still to be replayed, or in NVM. `ImageInv` carries the
condition `~overrun` of the properties: the first finding is a behaviour in which a
thread is inside its copy-on-write when the replay begins, and there the value is
nowhere.

Its third part proves of the specification with crashes, `RSpec`, for any number of
crashes and restarts:

* `ReplayIsDurable` (`[]DurableBeforeClear`) and `RecoveryIsExact`
  (`[]RecoveryKeepsCheckpoint`);
* `RestartsAreHarmless`: every invariant above holds in every life of the process,
  `OverlapIsAnnounced` included;
* `EpochsAreSuccessive` (the action property `EpochAdvancesByOne`);
* `Refinement`: `RSpec => ImplementsDurability`.

The invariant `RInv` adds to `HeapInv` what the medium may hold: the value a crash
finds in a line is one of `pending`, which contains that of `nvm`, and except during
the replay there is only that one, because of the fences. A restart from any
of these media yields a state of the whole invariant, not only of `Init`, which is what
lets the proofs of the first two parts be reused in every later life. For the
refinement, `DurableImage` shows that the abstract durable heap is `base` while an epoch
is being closed and `snap` otherwise; then `Advance` and `Finalize` are a new epoch,
`StartHeapUpdate` is the commit, a restart is a crash, `Write`, `BeginCheck` and
`EndOp` are what they are called, and all other steps leave the abstract state alone.

`ExecuteRightProofs` proves, for any finite set of threads, `TypeCorrect` (`[]TypeOK`),
`RegisteredAreCounted` (`[]UserNumCounts`), `OneCheckpointPasses`
(`[]AtMostOneCheckpointPasses`) and `IterationsAreUndisturbed` (the action property
`NoResizeWhileIterating`). The inductive `RightsInv` says that the execute right has
one owner; that `num_wait_threads` counts the threads between their announcement and
their withdrawal, which is what makes the checkpointing thread stand back; that the
array has every registered thread once; and that `user_num` is one behind only between
the push and the store of its owner.

`StartupProofs` proves, for any layout and any number of threads, epochs, starts, deaths
of the process and power failures: `FilesAreTakenOver` (`[]TakenOver`), `ThreadNumbersAreRight`
(`[]ThreadNumbers`) and `FormattedFilesSurvive` (the action property `FileSurvives`).
The inductive `IInv` has beside the types two parts. `FileOK` is about every header a
power failure may leave, the present one included: once the file is formatted, each
is marked dirty, has the root table and the byte map, and no epoch below `started`
(`HeaderOK`). `ProcessOK` is what a process knows of the file at each point of
`escort_init`: above all that a process over a formatted file has found it dirty, so that
it does not format it again, and that the byte map is laid out at the same place every
time.

`AllocatorLogProofs` proves of allocation, for any threads, any objects,
any length of the logs and any `MaxEpoch < EpochLimit`: `TypeCorrect` (`[]TypeOK`),
`NothingIsFreedTwice` (`[]NoDoubleFree`), `NothingIsReusedEarly`
(`[]NoReuseAcrossEpochs`), `EpochStateIsRecycled` (`[]EpochStateRecycled`),
`MetadataIsComplete` (`[]MetadataComplete`) and `ValidEntriesAreChanges`
(`[]ValidIffChanged`). The inductive `AllocInv` has these parts beside the types:

* `EpochInv`: a transaction is of the current epoch, or of the previous one while the
  checkpointing thread waits for it, as in `Checkpointing`;
* `OwnInv`: an object that is handed out is with a client, in the hands of one malloc or
  free, or in one delayed list of one thread. `NoDoubleFree` is a part of it;
* `FreedInv`: while the previous epoch is awaited, what is not handed out was freed in
  it or before, which is what the delay of frees is for;
* `ByteInv` and `ClearInv`: a byte that is not zero has an entry in a log, and one that
  check_valid has yet to visit once it runs; logs and lists are emptied as they are
  visited. They connect the byte map, which says how an object has changed,
  with the logs, which say what to save;
* `MetaInv`: a changed object has an entry until its size is in the NVM byte map;
* `EntryInv` and `VisitedInv`: entries are valid until check_valid visits them; of a
  changed object the logs visited have exactly one valid entry if its byte was cleared,
  and else none. That a log has a first entry of the object is the least number
  principle (`Smallest`);
* `BoundInv`: no log grows beyond `MaxLog`.

`BlockLogProofs` proves, for any logs and any number and size of blocks,
`BlocksHaveOneOwner` (`[]OneOwner`), `BlocksAreStampedAlike` (`[]StampedAlike`) and
`BlocksAreNotWasted` (`[]NoBlockWasted`). `BlockInv` is nearly `OneOwner` itself with what
each user of a log has in its hands; the hard case is `clear()`, where a block is for a
while in the list of one log and in the pool, or already in another log. `PackedInv`
adds that blocks outside the logs are empty, and how full the last block is in each
state of an append. In these proofs a list of blocks is a set and an injection, by
the lemmas `AppendSet` and `FrontSet`.

`BlocksImplementLogs` (`Spec => ImplementsLogs`) is the refinement of `LogStore`. It
rests on the two invariants above and on `DataInv`, the types of entries. An append
into a block with room, or into a new block, is the `Append1` of `LogStore`; giving
back the last block is its `Shorten`; all other steps leave the contents of every log
alone, above all the fill of a block by its next owner while `clear` has it still
linked. What this needs of `FlattenSeq`, a recursive function of the community
modules, is that the last sequence comes at the end (`FlattenLast`), which is proved
from its definition by an induction (see below).

`RegionsProofs` proves, for every size of cache line and heap, `NoBitIsLeft`
(`[]NoBitLeft`) and `AlignedWritesAreSaved`: `Aligned => (Spec => []WritesAreSaved)`, where
`Aligned` says that every region clients write begins on a line or stays within one, the
precondition of the run. The arithmetic is in `MarkedCovers`, on top of four lemmas
about quotients; the invariant `RegionInv` says that bytes not saved are in marked lines.

The same module has of `ObjectSizes`, since both divide by the size of a line,
`ObjectSizesAreSaved`: `ObjSpec => []SizesSaved`, for any places of any sizes. The
invariant `SizesInv` says that every object that is not `resized` has its bytes in the
map and no entry of the log touches them, or that the last entry that touches
them is of its place and size (`Known`). A new entry does not touch the bytes of another object, since
bytes of the map lie at the first lines of an object and objects in use are apart.
`AppliedSaves`, that the loop over the log leaves the size of each entry in the map
whatever the later entries are, is an induction.

`RootTableProofs` proves of the root table, for any threads, names, addresses, nodes and
buckets, new and recovered: `GetsReturnRoots` (`[]GetReturnsRoot`) and
`FaultsAreCollisions` (`[]FaultIsCollision`), with any thread setting any name and names
in any buckets. `RootInv` is `raced \/ TableInv`, since nothing holds of the lists once
two threads are in `set` with one bucket. `TableInv` has five parts: types; that at
most one thread is between `lock` and `unlock` of a bucket, which for the code's lock
is not a consequence of its `compare_exchange` but of `raced` being false; the head of
a bucket is null exactly as long as none of its names has a root, and the address
in its node is the root of the name there; and what a call knows, for a setter that
the bucket is still as it read it, and for a get that what it has read is in the window
of values the name had since its call; and that a fault has its collision. A head once set never changes, so the node
that a get follows after reading the head is still the one.

**Induction.** The induction theorems of the library take an operator. `BlockLogProofs`
and `RegionsProofs` have a lemma `Induction` about a set instead, which follows from the
least number principle (`NatLessThanWellFounded`, `WFMin`): a set that has 0, and with each
number below a bound the next, has every number up to the bound. It is what the
proofs about `FlattenSeq` and about the loop over the allocator log use, together with
the definition of a recursive function at each number.

The assumptions are `ConstantsAssumption`, `EpochLimitAssumption`, `PowerAssumption`,
`ThreadsAssumption` (the threads are finitely many), `LayoutAssumption`,
`BoundsAssumption` (`MaxEpoch` is at least 2, the first epoch, and fits the word),
`BlocksAssumption` (a block has room for an entry), `RootsAssumption` (null is no name,
address or node), `LineAssumption`, `HeapAssumption` and `PlacesAssumption` (`Places` is
defined for every size), which TLC evaluates in the runs of their modules. `Aligned` is
the one hypothesis of a theorem; the instance of the run satisfies it. Before they were proved, `HeapInv`, `RInv`,
`RightsInv`, `AllocInv`, `BlockInv`, `PackedInv`, `DataInv`, `SizesInv` and `RootInv` were
checked with TLC on the instances of the runs or similar ones.

**Model-checked only.** Liveness, which the prover cannot do: `CheckpointEnds`,
`ShutdownEnds`, `RegistrationReturns`, `FinalizeReturns` and `CallsReturn`. Every
invariant, action property and refinement that a passing run checks has a theorem about
the specification of that run (without its fairness).

## Not modelled

* Memory ordering weaker than sequential consistency; the code relies on x86 and
  on `std::atomic` defaults for the epoch word and the execute right.
* `OLD_VERSION`, and checkpointing with several worker threads, which is unfinished
  in the code; CPU binding, timing, debugging counters.
* `apply_metadata`: it asks the allocator, which is outside the sources, for memory of the
  objects' sizes; whether the memory it gets is theirs is not determined by the code
  here (`recovery.cpp:85`).
* Power failure for allocator metadata: which bytes of the NVM map reach NVM. (Only
  the first byte of an object is written back explicitly.)
* In the root table: `roottable_t::remove`, which no call of the interface reaches; the
  computation of a bucket from the characters of a name (whose result is not reduced to
  the number of buckets, `roottable_t.hpp:60`), and the copying of the characters; the
  composition of bucket locks, which are taken inside transactions, with epochs.
  `Checkpointing` has the discipline in which locks are taken before `begin_op`.
* Opening and mapping files, and jemalloc.
* Clients that call `escort_finalize` while transactions run, or that write a cache
  line from two threads without a lock.
* The byte maps are allocated and never initialised; large fresh mappings are zero
  pages, and the model starts them at zero.

## Plan

Done: all components with a behaviour of their own have a module, and the promise
is stated and refined, and what the runs check of safety is proved. To do: bucket locks
with epochs, `RootTable` composed with `Checkpointing`.
