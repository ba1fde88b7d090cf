---------------------------- MODULE AllocatorLog ----------------------------
(***************************************************************************)
(* Allocation in transactions: malloc_with_create_log and                  *)
(* free_with_create_log, the byte maps and allocator logs they write, the  *)
(* threads that carry these to NVM (cpallocator_t) and the thread that     *)
(* carries out delayed deallocations (deallocator_t).                      *)
(*                                                                         *)
(* The epoch protocol is the one of module Checkpointing, where begin_op   *)
(* and the wait for the previous epoch are shown to give every transaction *)
(* the current epoch: begin_op is one step here, and so is the wait.  A    *)
(* malloc or free outside a transaction is one between a begin_op and an   *)
(* end_op, which is what the code makes of it.                             *)
(*                                                                         *)
(* An object has one size, so its log entries carry the object alone.      *)
(* Clients allocate and free without races, and since they lock before     *)
(* begin_op no transaction frees an object of a later epoch.               *)
(***************************************************************************)
EXTENDS EpochWord, Sequences, FiniteSets

CONSTANTS
  Threads,    \* user threads, all registered
  Objs,       \* addresses that the internal allocator can hand out
  None,       \* no object
  MaxEpoch,   \* bound: the last epoch that is explored
  MaxLog      \* bound: entries in one allocator log

ASSUME BoundsAssumption == /\ None \notin Objs
                           /\ MaxEpoch \in 2 .. (EpochLimit - 1)
                           /\ MaxLog \in Nat

VARIABLES
  GLOBAL_EPOCH, isPersisting,
  pc, epoch,      \* of each thread; epoch is 0 outside transactions
  obj,            \* the object its malloc or free is about
  live,           \* objects handed out by the internal allocator
  ByteMap,        \* ByteMap[2], in DRAM: 0, 1 or -1 for each object
  allocatorlog,   \* _allocatorlog[2] of each thread: the entries of its blocks
  dealloc_list,   \* _delay_dealloc_list[2] of each thread
  ByteMap_NVM,    \* whether the object has a size in the NVM byte map
  cpc, cset,      \* the checkpointing thread, and contexts it has yet to visit
  dealloc,        \* the deallocator thread runs
  \* history variables
  held,           \* objects the clients can reach
  born, freed,    \* epochs of the last malloc and of the last free
  odd,            \* objects whose status the epochs of each parity change
  image           \* objects allocated when the last saved epoch ended

tvars == <<pc, epoch, obj>>
hvars == <<held, born, freed, odd, image>>
vars  == <<GLOBAL_EPOCH, isPersisting, tvars, live, ByteMap, allocatorlog,
           dealloc_list, ByteMap_NVM, cpc, cset, dealloc, hvars>>

curr(t) == Parity(epoch[t])
prev    == Parity(Epoch(GLOBAL_EPOCH) - 1)

Init ==
  /\ GLOBAL_EPOCH = 2 /\ isPersisting = TRUE
  /\ pc = [t \in Threads |-> "idle"] /\ epoch = [t \in Threads |-> 0]
  /\ obj = [t \in Threads |-> None]
  /\ live = {} /\ held = {} /\ image = {}
  /\ ByteMap = [p \in 0..1 |-> [o \in Objs |-> 0]]
  /\ allocatorlog = [t \in Threads |-> [p \in 0..1 |-> <<>>]]
  /\ dealloc_list = [t \in Threads |-> [p \in 0..1 |-> {}]]
  /\ ByteMap_NVM = [o \in Objs |-> FALSE]
  /\ cpc = "idle" /\ cset = {} /\ dealloc = FALSE
  /\ born = [o \in Objs |-> 0] /\ freed = [o \in Objs |-> 0]
  /\ odd = [p \in 0..1 |-> {}]

-----------------------------------------------------------------------------
(***************************************************************************)
(* User threads.                                                           *)
(***************************************************************************)
BeginOp(t) ==
  /\ pc[t] = "idle" /\ isPersisting
  /\ epoch' = [epoch EXCEPT ![t] = GLOBAL_EPOCH]
  /\ pc' = [pc EXCEPT ![t] = "tx"]
  /\ UNCHANGED <<GLOBAL_EPOCH, isPersisting, obj, live, ByteMap, allocatorlog,
                 dealloc_list, ByteMap_NVM, cpc, cset, dealloc, hvars>>

EndOp(t) ==
  /\ pc[t] = "tx"
  /\ epoch' = [epoch EXCEPT ![t] = 0]
  /\ pc' = [pc EXCEPT ![t] = "idle"]
  /\ UNCHANGED <<GLOBAL_EPOCH, isPersisting, obj, live, ByteMap, allocatorlog,
                 dealloc_list, ByteMap_NVM, cpc, cset, dealloc, hvars>>

\* The bound on the logs: a thread whose log is full begins no operation.
Room(t) == Len(allocatorlog[t][curr(t)]) < MaxLog

Toggle(S, o) == (S \cup {o}) \ (S \cap {o})

\* is_set, reverse and set: only 1 counts as set, and -1 is set to 1 again
\* Mutants: reverse does nothing; the byte counts operations.
NextByte_stuck(b) == 1
NextByte_count(b) == b + 1
NextByte(b) == IF b = 1 THEN -1 ELSE 1

(***************************************************************************)
(* What malloc and free do alike: the object's byte is reversed if it is   *)
(* set, else it is set and an entry is logged.                             *)
(***************************************************************************)
LogOperation(t, o) ==
  LET b == ByteMap[curr(t)][o]
  IN  /\ ByteMap' = [ByteMap EXCEPT ![curr(t)][o] = NextByte(b)]
      /\ IF b = 1 THEN UNCHANGED allocatorlog
         ELSE allocatorlog' = [allocatorlog EXCEPT ![t][curr(t)] =
                                 Append(@, [obj |-> o, is_valid |-> TRUE])]
      /\ odd' = [odd EXCEPT ![curr(t)] = Toggle(@, o)]

\* malloc_with_create_log: _escort_internal_malloc returns a free object
Malloc(t, o) ==
  /\ pc[t] = "tx" /\ Room(t) /\ o \notin live
  /\ live' = live \cup {o}
  /\ obj' = [obj EXCEPT ![t] = o]
  /\ pc' = [pc EXCEPT ![t] = "malloc"]
  /\ UNCHANGED <<GLOBAL_EPOCH, isPersisting, epoch, ByteMap, allocatorlog,
                 dealloc_list, ByteMap_NVM, cpc, cset, dealloc, hvars>>

\* malloc_with_create_log: the rest
MallocLog(t) ==
  /\ pc[t] = "malloc"
  /\ LogOperation(t, obj[t])
  /\ held' = held \cup {obj[t]}
  /\ born' = [born EXCEPT ![obj[t]] = Epoch(epoch[t])]
  /\ obj' = [obj EXCEPT ![t] = None]
  /\ pc' = [pc EXCEPT ![t] = "tx"]
  /\ UNCHANGED <<GLOBAL_EPOCH, isPersisting, epoch, live, dealloc_list,
                 ByteMap_NVM, cpc, cset, dealloc, freed, image>>

\* free_with_create_log: the byte map comes first
FreeLog(t, o) ==
  /\ pc[t] = "tx" /\ Room(t) /\ o \in held /\ born[o] <= Epoch(epoch[t])
  /\ LogOperation(t, o)
  /\ held' = held \ {o}
  /\ freed' = [freed EXCEPT ![o] = Epoch(epoch[t])]
  /\ obj' = [obj EXCEPT ![t] = o]
  /\ pc' = [pc EXCEPT ![t] = "free"]
  /\ UNCHANGED <<GLOBAL_EPOCH, isPersisting, epoch, live, dealloc_list,
                 ByteMap_NVM, cpc, cset, dealloc, born, image>>

\* free_with_create_log: "must delay".  Mutant: the phase is not looked at.
MustDelay_never(t) == FALSE
MustDelay(t) == get_phase(epoch[t]) = MEE

\* What goes back to the internal allocator now.  Mutant: delayed frees, too.
FreedNow_always(t) == {obj[t]}
FreedNow(t) == IF MustDelay(t) THEN {} ELSE {obj[t]}

\* free_with_create_log: the object is freed, or put on the delayed list
Free(t) ==
  /\ pc[t] = "free"
  /\ live' = live \ FreedNow(t)
  /\ dealloc_list' = IF MustDelay(t)
                     THEN [dealloc_list EXCEPT ![t][curr(t)] = @ \cup {obj[t]}]
                     ELSE dealloc_list
  /\ obj' = [obj EXCEPT ![t] = None]
  /\ pc' = [pc EXCEPT ![t] = "tx"]
  /\ UNCHANGED <<GLOBAL_EPOCH, isPersisting, epoch, ByteMap, allocatorlog,
                 ByteMap_NVM, cpc, cset, dealloc, hvars>>

\* escort_finalize, called when no thread is in a transaction
Stop ==
  /\ isPersisting /\ \A t \in Threads : pc[t] = "idle"
  /\ isPersisting' = FALSE
  /\ UNCHANGED <<GLOBAL_EPOCH, tvars, live, ByteMap, allocatorlog,
                 dealloc_list, ByteMap_NVM, cpc, cset, dealloc, hvars>>

-----------------------------------------------------------------------------
(***************************************************************************)
(* The checkpointing thread and the threads it starts.  These work on the  *)
(* byte map and the logs of the previous epoch, which no transaction       *)
(* touches any more, so one step visits a whole context.                   *)
(***************************************************************************)
\* while(gv::isPersisting).  The flag may be cleared right after.
Loop ==
  /\ cpc = "idle" /\ isPersisting /\ Epoch(GLOBAL_EPOCH) + 1 < MaxEpoch
  /\ cpc' = "ready"
  /\ UNCHANGED <<GLOBAL_EPOCH, isPersisting, tvars, live, ByteMap, allocatorlog,
                 dealloc_list, ByteMap_NVM, cset, dealloc, hvars>>

Advance ==
  /\ cpc = "ready"
  /\ GLOBAL_EPOCH' = set_phase(GLOBAL_EPOCH + 1, MEE)
  /\ cpc' = "wait"
  /\ UNCHANGED <<isPersisting, tvars, live, ByteMap, allocatorlog,
                 dealloc_list, ByteMap_NVM, cset, dealloc, hvars>>

\* The wait is over; run_deallocator, and log_persistence starts check_valid.
StartLogPersistence ==
  /\ cpc = "wait"
  /\ \A t \in Threads : Epoch(epoch[t]) # Epoch(GLOBAL_EPOCH) - 1
  /\ GLOBAL_EPOCH' = set_phase(GLOBAL_EPOCH, LP)
  /\ cpc' = "check" /\ cset' = Threads /\ dealloc' = TRUE
  /\ UNCHANGED <<isPersisting, tvars, live, ByteMap, allocatorlog,
                 dealloc_list, ByteMap_NVM, hvars>>

\* finalize(): no wait and no deallocator
Finalize ==
  /\ cpc = "idle" /\ ~isPersisting /\ Epoch(GLOBAL_EPOCH) < MaxEpoch
  /\ GLOBAL_EPOCH' = set_phase(GLOBAL_EPOCH + 1, LP)
  /\ cpc' = "check" /\ cset' = Threads
  /\ UNCHANGED <<isPersisting, tvars, live, ByteMap, allocatorlog,
                 dealloc_list, ByteMap_NVM, dealloc, hvars>>

\* deallocator_t::dealloc, one object
Dealloc(t, o) ==
  /\ dealloc /\ o \in dealloc_list[t][prev]
  /\ live' = live \ {o}
  /\ dealloc_list' = [dealloc_list EXCEPT ![t][prev] = @ \ {o}]
  /\ UNCHANGED <<GLOBAL_EPOCH, isPersisting, tvars, ByteMap, allocatorlog,
                 ByteMap_NVM, cpc, cset, dealloc, hvars>>

\* check_valid, the entries of one log: an entry stays valid if the byte is set
\* when the loop comes to it, that is, if no earlier entry is of the same object
CheckedEntries(log, bytes) ==
  [i \in DOMAIN log |-> [log[i] EXCEPT !.is_valid =
     /\ @ /\ bytes[log[i].obj] = 1
     /\ \A j \in 1 .. (i - 1) : log[j].obj # log[i].obj]]

\* check_valid, ByteMap[prev]->clear.  Mutant: only the bytes that are set.
InLog(o, log) == \E i \in DOMAIN log : log[i].obj = o
ClearedBytes_set(log, bytes) ==
  [o \in Objs |-> IF InLog(o, log) /\ bytes[o] = 1 THEN 0 ELSE bytes[o]]
ClearedBytes(log, bytes) ==
  [o \in Objs |-> IF InLog(o, log) THEN 0 ELSE bytes[o]]

CheckValid(t) ==
  /\ cpc = "check" /\ t \in cset
  /\ allocatorlog' = [allocatorlog EXCEPT ![t][prev] =
                        CheckedEntries(@, ByteMap[prev])]
  /\ ByteMap' = [ByteMap EXCEPT ![prev] =
                   ClearedBytes(allocatorlog[t][prev], @)]
  /\ cset' = cset \ {t}
  /\ UNCHANGED <<GLOBAL_EPOCH, isPersisting, tvars, live, dealloc_list,
                 ByteMap_NVM, cpc, dealloc, hvars>>

\* join_cpallocator; nvm_heap_update starts cpallocator_t::checkpointing
StartHeapUpdate ==
  /\ cpc = "check" /\ cset = {}
  /\ GLOBAL_EPOCH' = set_phase(GLOBAL_EPOCH, NHU)
  /\ cpc' = "update" /\ cset' = Threads
  /\ UNCHANGED <<isPersisting, tvars, live, ByteMap, allocatorlog,
                 dealloc_list, ByteMap_NVM, dealloc, hvars>>

\* The objects set_obj_size is called for: every entry counts, mallocs and frees,
\* valid or not.  Mutant: the loop ends one entry early.
Applied_short(o, log) == \E k \in 1 .. Len(log) - 1 : log[k].obj = o
Applied(o, log) == InLog(o, log)

\* cpallocator_t::checkpointing: set_obj_size, then allocatorlog.clear()
Checkpoint(t) ==
  /\ cpc = "update" /\ t \in cset
  /\ ByteMap_NVM' = [o \in Objs |-> \/ ByteMap_NVM[o]
                                    \/ Applied(o, allocatorlog[t][prev])]
  /\ allocatorlog' = [allocatorlog EXCEPT ![t][prev] = <<>>]
  /\ cset' = cset \ {t}
  /\ UNCHANGED <<GLOBAL_EPOCH, isPersisting, tvars, live, ByteMap,
                 dealloc_list, cpc, dealloc, hvars>>

\* join_cpallocator and join_deallocator end the checkpoint; finalize() joins the
\* former alone.
EndCheckpoint ==
  /\ cpc = "update" /\ cset = {}
  /\ dealloc => \A t \in Threads : dealloc_list[t][prev] = {}
  /\ cpc' = IF dealloc THEN "idle" ELSE "ended"
  /\ dealloc' = FALSE
  /\ image' = (image \cup odd[prev]) \ (image \cap odd[prev])
  /\ odd' = [odd EXCEPT ![prev] = {}]
  /\ UNCHANGED <<GLOBAL_EPOCH, isPersisting, tvars, live, ByteMap, allocatorlog,
                 dealloc_list, ByteMap_NVM, cset, held, born, freed>>

Ended == cpc = "ended" /\ UNCHANGED vars

Next ==
  \/ \E t \in Threads : \/ BeginOp(t) \/ EndOp(t) \/ MallocLog(t) \/ Free(t)
                        \/ CheckValid(t) \/ Checkpoint(t)
                        \/ \E o \in Objs : \/ Malloc(t, o) \/ FreeLog(t, o)
                                           \/ Dealloc(t, o)
  \/ Stop \/ Loop \/ Advance \/ StartLogPersistence \/ Finalize \/ StartHeapUpdate
  \/ EndCheckpoint \/ Ended

Spec == Init /\ [][Next]_vars

-----------------------------------------------------------------------------
Entry == [obj : Objs, is_valid : BOOLEAN]

\* The type of every variable.
TypeOK ==
  /\ GLOBAL_EPOCH \in Word /\ epoch \in [Threads -> Word]
  /\ isPersisting \in BOOLEAN /\ dealloc \in BOOLEAN
  /\ pc \in [Threads -> {"idle", "tx", "malloc", "free"}]
  /\ obj \in [Threads -> Objs \cup {None}]
  /\ live \subseteq Objs /\ held \subseteq Objs /\ image \subseteq Objs
  /\ ByteMap \in [0..1 -> [Objs -> -1 .. 1]]
  /\ allocatorlog \in [Threads -> [0..1 -> Seq(Entry)]]
  /\ dealloc_list \in [Threads -> [0..1 -> SUBSET Objs]]
  /\ ByteMap_NVM \in [Objs -> BOOLEAN]
  /\ cpc \in {"idle", "ready", "wait", "check", "update", "ended"}
  /\ cset \subseteq Threads
  /\ born \in [Objs -> 0 .. MaxEpoch] /\ freed \in [Objs -> 0 .. MaxEpoch]
  /\ odd \in [0..1 -> SUBSET Objs]

(***************************************************************************)
(* The comment on the delay in free_with_create_log: a malloc never gets   *)
(* memory that a transaction of a later epoch has freed, which would tie   *)
(* the earlier epoch's checkpoint to the later one's.                      *)
(***************************************************************************)
NoReuseAcrossEpochs ==
  \A t \in Threads : pc[t] = "malloc" => freed[obj[t]] <= Epoch(epoch[t])

(***************************************************************************)
(* Once check_valid is done, an object has one valid entry among all the   *)
(* logs of the previous epoch if that epoch has allocated or freed it on   *)
(* balance, and none if its mallocs and frees cancel out, whichever        *)
(* threads they were made by.                                              *)
(***************************************************************************)
ValidEntries(o) ==
  {e \in Threads \X (1 .. MaxLog) :
     /\ e[2] \in DOMAIN allocatorlog[e[1]][prev]
     /\ allocatorlog[e[1]][prev][e[2]] = [obj |-> o, is_valid |-> TRUE]}
ValidIffChanged ==
  cpc = "check" /\ cset = {} => \A o \in Objs :
    Cardinality(ValidEntries(o)) = IF o \in odd[prev] THEN 1 ELSE 0

(***************************************************************************)
(* When an epoch begins, the byte map, the logs and the delayed lists of   *)
(* its parity are clear: nothing of the epoch two before it is left, and   *)
(* every delayed deallocation has been made.                               *)
(***************************************************************************)
EpochStateRecycled ==
  cpc \in {"idle", "ready"} =>
    /\ \A o \in Objs : ByteMap[prev][o] = 0
    /\ \A t \in Threads : /\ allocatorlog[t][prev] = <<>>
                          /\ dealloc_list[t][prev] = {}

(***************************************************************************)
(* No address is given to the internal allocator twice: what is to be      *)
(* freed is still handed out, by one thread and by one list only.          *)
(***************************************************************************)
ToFree(t) == dealloc_list[t][0] \cup dealloc_list[t][1]
             \cup {o \in {obj[t]} : pc[t] = "free"}
NoDoubleFree ==
  /\ \A t \in Threads : /\ ToFree(t) \subseteq live \ held
                        /\ dealloc_list[t][0] \cap dealloc_list[t][1] = {}
                        /\ pc[t] = "free" =>
                             \A p \in 0..1 : obj[t] \notin dealloc_list[t][p]
  /\ \A t, u \in Threads : t # u => ToFree(t) \cap ToFree(u) = {}

(***************************************************************************)
(* What recovery needs of the metadata it reads: between checkpoints every *)
(* object that was allocated when the previous epoch ended has a size in   *)
(* the NVM byte map, whichever threads allocated and freed it in which     *)
(* epochs.  (The converse does not hold: no byte is ever cleared.)         *)
(***************************************************************************)
MetadataComplete ==
  cpc \in {"idle", "ended"} => \A o \in image : ByteMap_NVM[o]
=============================================================================
