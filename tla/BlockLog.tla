------------------------------ MODULE BlockLog ------------------------------
(***************************************************************************)
(* The redo logs (plog_t) and the allocator logs (allocatorlog_t): lists   *)
(* of fixed-size blocks in NVM, taken from and given back to one pool that *)
(* all threads share (plog_management_t, allocatorlog_management_t).  The  *)
(* two pairs of classes are the same code, except that a block of the      *)
(* latter is stamped with the epoch that it belongs to.                    *)
(*                                                                         *)
(* A log has one user at a time: the thread that appends to it in its      *)
(* epoch, later the one that clears it.  The pool has a mutex, and a block *)
(* passes from one thread to another without being touched.                *)
(***************************************************************************)
EXTENDS Naturals, Sequences, FiniteSets, SequencesExt

CONSTANTS
  Logs,        \* the logs that share the pool
  Entries,     \* what is logged
  None,        \* no entry, no block
  NumBlocks,   \* blocks in the pool
  BLOCK_NUM,   \* LOG_BLOCK_NUM: entries in a block
  MaxEntries   \* bound: entries in a log

ASSUME BlocksAssumption == /\ NumBlocks \in Nat /\ BLOCK_NUM \in Nat \ {0}
                           /\ MaxEntries \in Nat
                           /\ None \notin Entries \cup (1 .. NumBlocks)

Blocks == 1 .. NumBlocks

VARIABLES
  free_block_list, \* used from its end
  used_block_list, \* its order does not matter
  entries, size,   \* _entries and _size of each block
  stamp,           \* _epoch of each block
  block_list,      \* _block_list of each log
  pc,              \* what the user of each log is doing
  arg,             \* the entry being appended
  got,             \* a block taken from the pool and not yet in block_list
  epoch,           \* the epoch that uses the log.  Two names are enough to tell
                   \* an old stamp from a new one.
  aborted          \* the assertion in pop() has failed

bvars == <<entries, size, stamp>>
pool  == <<free_block_list, used_block_list>>
vars  == <<pool, bvars, block_list, pc, arg, got, epoch, aborted>>

Goto(o, l) == pc' = [pc EXCEPT ![o] = l]

\* The constructors of the pool and of its blocks.
Init ==
  /\ free_block_list = [i \in Blocks |-> i] /\ used_block_list = {}
  /\ entries = [b \in Blocks |-> [i \in 1 .. BLOCK_NUM |-> None]]
  /\ size = [b \in Blocks |-> 0] /\ stamp = [b \in Blocks |-> 0]
  /\ block_list = [o \in Logs |-> <<>>]
  /\ pc = [o \in Logs |-> "idle"] /\ arg = [o \in Logs |-> None]
  /\ got = [o \in Logs |-> None] /\ epoch = [o \in Logs |-> 1]
  /\ aborted = FALSE

\* The entries that replay_redo_log, check_valid and checkpointing read.  A block
\* that clear() has given back no longer belongs to the log.
OwnBlocks(o) == IF pc[o] = "popback" THEN Front(block_list[o])
                                     ELSE block_list[o]
Contents(o) ==
  FlattenSeq([i \in DOMAIN OwnBlocks(o) |->
    LET b == OwnBlocks(o)[i] IN SubSeq(entries[b], 1, size[b])])

-----------------------------------------------------------------------------
(***************************************************************************)
(* push_back_and_clwb and allocatorlog_t::append.                          *)
(***************************************************************************)
BeginAppend(o, e) ==
  /\ pc[o] = "idle" /\ Len(Contents(o)) < MaxEntries
  /\ arg' = [arg EXCEPT ![o] = e]
  /\ Goto(o, IF block_list[o] = <<>> THEN "first" ELSE "append")
  /\ UNCHANGED <<pool, bvars, block_list, got, epoch>>

\* pop().  Mutant: the block is not removed from the free list.
Pop_keep(o) ==
  /\ got' = [got EXCEPT ![o] = Last(free_block_list)]
  /\ used_block_list' = used_block_list \cup {Last(free_block_list)}
  /\ UNCHANGED free_block_list
Pop(o) ==
  /\ got' = [got EXCEPT ![o] = Last(free_block_list)]
  /\ free_block_list' = Front(free_block_list)
  /\ used_block_list' = used_block_list \cup {Last(free_block_list)}

TakeBlock(o) ==
  /\ free_block_list # <<>>
  /\ \/ pc[o] = "first" /\ Goto(o, "link")
     \/ pc[o] = "full"  /\ Goto(o, "relink")
  /\ Pop(o)
  /\ UNCHANGED <<bvars, block_list, arg, epoch>>

\* set_epoch.  Mutant: it is called for the first block of a log only.
SetEpoch_first(o) ==
  IF pc[o] = "link" THEN [stamp EXCEPT ![got[o]] = epoch[o]] ELSE stamp
SetEpoch(o) == [stamp EXCEPT ![got[o]] = epoch[o]]

\* set_epoch, and _block_list.push_back
LinkBlock(o) ==
  /\ \/ pc[o] = "link"   /\ Goto(o, "append")
     \/ pc[o] = "relink" /\ Goto(o, "last")
  /\ stamp' = SetEpoch(o)
  /\ block_list' = [block_list EXCEPT ![o] = Append(@, got[o])]
  /\ got' = [got EXCEPT ![o] = None]
  /\ UNCHANGED <<pool, entries, size, arg, epoch>>

\* Mutant: the limit is one too small.
Full_early(b) == size[b] + 1 = BLOCK_NUM
Full(b) == size[b] = BLOCK_NUM

\* log_block_t::append
BlockAppend(b, e) ==
  IF Full(b) THEN UNCHANGED <<entries, size>>
  ELSE /\ entries' = [entries EXCEPT ![b][size[b] + 1] = e]
       /\ size' = [size EXCEPT ![b] = @ + 1]

\* The entry goes to the last block, or that block is full.
AppendToTail(o) ==
  LET tail == Last(block_list[o])
  IN  /\ pc[o] = "append"
      /\ BlockAppend(tail, arg[o])
      /\ Goto(o, IF Full(tail) THEN "full" ELSE "idle")
      /\ arg' = IF Full(tail) THEN arg ELSE [arg EXCEPT ![o] = None]
      /\ UNCHANGED <<pool, stamp, block_list, got, epoch>>

\* The entry goes to the new block.  The result of append is ignored.
AppendToNew(o) ==
  /\ pc[o] = "last"
  /\ BlockAppend(Last(block_list[o]), arg[o])
  /\ Goto(o, "idle")
  /\ arg' = [arg EXCEPT ![o] = None]
  /\ UNCHANGED <<pool, stamp, block_list, got, epoch>>

-----------------------------------------------------------------------------
(***************************************************************************)
(* clear(), once the log's epoch is over.                                  *)
(***************************************************************************)
BeginClear(o) ==
  /\ pc[o] = "idle"
  /\ Goto(o, "clear")
  /\ UNCHANGED <<pool, bvars, block_list, arg, got, epoch>>

\* tail->clear().  Mutant: the size is left for the next user of the block.
ClearTail_keep(o) ==
  /\ pc[o] = "clear" /\ block_list[o] # <<>>
  /\ Goto(o, "push")
  /\ UNCHANGED <<pool, bvars, block_list, arg, got, epoch>>
ClearTail(o) ==
  /\ pc[o] = "clear" /\ block_list[o] # <<>>
  /\ size' = [size EXCEPT ![Last(block_list[o])] = 0]
  /\ Goto(o, "push")
  /\ UNCHANGED <<pool, entries, stamp, block_list, arg, got, epoch>>

\* push(tail): from here on another log may get the block
GiveBack(o) ==
  /\ pc[o] = "push"
  /\ free_block_list' = Append(free_block_list, Last(block_list[o]))
  /\ used_block_list' = used_block_list \ {Last(block_list[o])}
  /\ Goto(o, "popback")
  /\ UNCHANGED <<bvars, block_list, arg, got, epoch>>

\* _block_list.pop_back()
Unlink(o) ==
  /\ pc[o] = "popback"
  /\ block_list' = [block_list EXCEPT ![o] = Front(@)]
  /\ Goto(o, "clear")
  /\ UNCHANGED <<pool, bvars, arg, got, epoch>>

\* The log is empty and serves the epoch after the next.
EndClear(o) ==
  /\ pc[o] = "clear" /\ block_list[o] = <<>>
  /\ epoch' = [epoch EXCEPT ![o] = 3 - @]
  /\ Goto(o, "idle")
  /\ UNCHANGED <<pool, bvars, block_list, arg, got>>

-----------------------------------------------------------------------------
Use(o) ==
  \/ \E e \in Entries : BeginAppend(o, e)
  \/ TakeBlock(o) \/ LinkBlock(o) \/ AppendToTail(o) \/ AppendToNew(o)
  \/ BeginClear(o) \/ ClearTail(o) \/ GiveBack(o) \/ Unlink(o) \/ EndClear(o)

\* assert(_free_block_list.size() > 0) in pop() ends the process
Exhausted(o) ==
  /\ pc[o] \in {"first", "full"} /\ free_block_list = <<>>
  /\ aborted' = TRUE
  /\ UNCHANGED <<pool, bvars, block_list, pc, arg, got, epoch>>

Aborted == aborted /\ UNCHANGED vars

Next == \/ ~aborted /\ \E o \in Logs : \/ Use(o) /\ UNCHANGED aborted
                                       \/ Exhausted(o)
        \/ Aborted

Spec == Init /\ [][Next]_vars

-----------------------------------------------------------------------------
Appending == {"first", "link", "append", "full", "relink", "last"}
Clearing  == {"clear", "push", "popback"}

\* The type of every variable.
TypeOK ==
  /\ free_block_list \in Seq(Blocks) /\ used_block_list \subseteq Blocks
  /\ entries \in [Blocks -> [1 .. BLOCK_NUM -> Entries \cup {None}]]
  /\ size \in [Blocks -> 0 .. BLOCK_NUM] /\ stamp \in [Blocks -> 0 .. 2]
  /\ block_list \in [Logs -> Seq(Blocks)]
  /\ pc \in [Logs -> {"idle"} \cup Appending \cup Clearing]
  /\ arg \in [Logs -> Entries \cup {None}]
  /\ got \in [Logs -> Blocks \cup {None}]
  /\ epoch \in [Logs -> 1 .. 2]
  /\ aborted \in BOOLEAN

(***************************************************************************)
(* No block is lost and none has two owners: every block is at one place   *)
(* in the pool or in one log, and the pool's list of used blocks tells     *)
(* which.  The debug build asserts it with verify_owner.                   *)
(***************************************************************************)
Held(o) == ToSet(OwnBlocks(o)) \cup ({got[o]} \ {None})
OneOwner ==
  /\ used_block_list = Blocks \ ToSet(free_block_list)
  /\ used_block_list = UNION {Held(o) : o \in Logs}
  /\ \A o, q \in Logs : o # q => Held(o) \cap Held(q) = {}
  /\ IsInjective(free_block_list)
  /\ \A o \in Logs : IsInjective(block_list[o])

(***************************************************************************)
(* Every block of a log that is in use carries the stamp of the epoch that *)
(* uses the log, which is what tells recovery the epoch of its entries.    *)
(***************************************************************************)
StampedAlike ==
  \A o \in Logs : \A b \in ToSet(OwnBlocks(o)) : stamp[b] = epoch[o]

(***************************************************************************)
(* A log holds as many blocks as its entries need: between operations only *)
(* its last block has room left, and no block is empty.  So the pool runs  *)
(* dry only if what is logged at one time really does not fit.             *)
(***************************************************************************)
NoBlockWasted ==
  \A o \in Logs : pc[o] = "idle" =>
    \A i \in DOMAIN block_list[o] :
      LET b == block_list[o][i]
      IN  IF i < Len(block_list[o]) THEN size[b] = BLOCK_NUM ELSE size[b] > 0

(***************************************************************************)
(* The blocks implement independent logs.                                  *)
(***************************************************************************)
Store == INSTANCE LogStore
           WITH log <- [o \in Logs |-> Contents(o)],
                clearing <- [o \in Logs |-> pc[o] \in Clearing]
ImplementsLogs == Store!Spec
=============================================================================
