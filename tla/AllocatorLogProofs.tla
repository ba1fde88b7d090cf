------------------------- MODULE AllocatorLogProofs -------------------------
(***************************************************************************)
(* Proofs about AllocatorLog, for any sets of threads and objects and any  *)
(* number of epochs: nothing is freed twice, no malloc gets memory of a    *)
(* later epoch, byte maps, logs and delayed lists are clear when their     *)
(* parity is used again, check_valid keeps one entry of each object whose  *)
(* status has changed, and the NVM byte map has every object.              *)
(***************************************************************************)
EXTENDS AllocatorLog, EpochWordProofs, FiniteSetTheorems, TLAPS

(***************************************************************************)
(* The epoch protocol: a transaction is of the current epoch, or of the    *)
(* previous one while the checkpointing thread waits for it; meanwhile     *)
(* transactions of the current epoch have read Multi_Epoch_Existence.      *)
(***************************************************************************)
EpochInv ==
  /\ Epoch(GLOBAL_EPOCH) \in 2 .. MaxEpoch
  /\ cpc = "ready" => Epoch(GLOBAL_EPOCH) + 1 < MaxEpoch
  /\ cpc = "wait" => get_phase(GLOBAL_EPOCH) = MEE
  /\ dealloc => cpc \in {"check", "update"}
  /\ ~isPersisting => \A t \in Threads : pc[t] = "idle"
  /\ \A t \in Threads : pc[t] = "idle" => epoch[t] = 0
  /\ \A t \in Threads : pc[t] # "idle" =>
       \/ /\ Epoch(epoch[t]) = Epoch(GLOBAL_EPOCH)
          /\ cpc = "wait" => get_phase(epoch[t]) = MEE
       \/ Epoch(epoch[t]) = Epoch(GLOBAL_EPOCH) - 1 /\ cpc = "wait"

(***************************************************************************)
(* An object that the internal allocator has handed out is reachable for   *)
(* clients, or in the hands of one malloc or free, or in one delayed list. *)
(***************************************************************************)
Handling(t) == pc[t] \in {"malloc", "free"}
OwnInv ==
  /\ held \subseteq live
  /\ \A t \in Threads : Handling(t) => obj[t] \in live /\ obj[t] \notin held
  /\ \A t, u \in Threads : Handling(t) /\ Handling(u) /\ obj[t] = obj[u] => t = u
  /\ \A t \in Threads, p \in 0..1 : dealloc_list[t][p] \subseteq live \ held
  /\ \A t, u \in Threads, p \in 0..1 : Handling(u) => obj[u] \notin dealloc_list[t][p]
  /\ \A t, u \in Threads, p, q \in 0..1 :
       t # u \/ p # q => dealloc_list[t][p] \cap dealloc_list[u][q] = {}

\* What is not handed out while the previous epoch is awaited was freed in it or before.
FreedInv ==
  /\ \A o \in Objs : freed[o] <= Epoch(GLOBAL_EPOCH)
  /\ cpc = "wait" => \A o \in Objs : o \in live \/ freed[o] < Epoch(GLOBAL_EPOCH)
  /\ \A t \in Threads : pc[t] = "free" => freed[obj[t]] = Epoch(epoch[t])
  /\ NoReuseAcrossEpochs

\* Transactions of parity p may run.
Open(p) == p # prev \/ cpc = "wait"

(***************************************************************************)
(* A byte that is not zero is that of an entry, in a log that check_valid  *)
(* has yet to visit; and it is 1 where the epoch has changed the object.   *)
(***************************************************************************)
ByteInv ==
  /\ \A p \in 0..1, o \in Objs : Open(p) =>
       /\ ByteMap[p][o] # 0 => \E t \in Threads : InLog(o, allocatorlog[t][p])
       /\ o \in odd[p] <=> ByteMap[p][o] = 1
  /\ \A o \in Objs :
       /\ cpc = "check" /\ ByteMap[prev][o] # 0
            => \E t \in cset : InLog(o, allocatorlog[t][prev])
       /\ cpc \notin {"wait", "check"} => ByteMap[prev][o] = 0

\* Logs and delayed lists of the previous epoch are emptied one by one.
ClearInv ==
  /\ cpc \in {"idle", "ready", "ended"} =>
       \A t \in Threads : allocatorlog[t][prev] = <<>>
  /\ cpc = "update" => \A t \in Threads : t \in cset \/ allocatorlog[t][prev] = <<>>
  /\ cpc \in {"idle", "ready"} => \A t \in Threads : dealloc_list[t][prev] = {}

\* An object whose status the previous epoch has changed has an entry until its
\* size is in the NVM byte map.
MetaInv ==
  /\ \A o \in image : ByteMap_NVM[o]
  /\ cpc \in {"idle", "ready", "ended"} => odd[prev] = {}
  /\ cpc = "check" => \A o \in odd[prev] :
       \E t \in Threads : InLog(o, allocatorlog[t][prev])
  /\ cpc = "update" => \A o \in odd[prev] :
       ByteMap_NVM[o] \/ \E t \in cset : InLog(o, allocatorlog[t][prev])

\* Entries are valid until check_valid visits them.
EntryInv ==
  \A t \in Threads, p \in 0..1 : Open(p) \/ (cpc = "check" /\ t \in cset) =>
    \A i \in DOMAIN allocatorlog[t][p] : allocatorlog[t][p][i].is_valid

\* The bound on logs: Room is asked for when a malloc begins.
BoundInv ==
  /\ \A t \in Threads, p \in 0..1 : Len(allocatorlog[t][p]) <= MaxLog
  /\ \A t \in Threads : pc[t] = "malloc" => Room(t)

\* Entry i of t's log of the previous epoch is a valid one of object o.
Valid(t, i, o) ==
  /\ allocatorlog[t][prev][i].obj = o
  /\ allocatorlog[t][prev][i].is_valid

(***************************************************************************)
(* Of an object that the epoch has changed, the logs that check_valid has  *)
(* visited have one valid entry if it has cleared the byte, and else none. *)
(***************************************************************************)
VisitedInv ==
  cpc = "check" => \A o \in Objs :
    /\ ByteMap[prev][o] = 1 => o \in odd[prev]
    /\ \A u \in Threads \ cset : \A i \in DOMAIN allocatorlog[u][prev] :
         Valid(u, i, o) => o \in odd[prev] /\ ByteMap[prev][o] # 1
    /\ \A u, v \in Threads \ cset : \A i \in DOMAIN allocatorlog[u][prev] :
         \A j \in DOMAIN allocatorlog[v][prev] :
           Valid(u, i, o) /\ Valid(v, j, o) => u = v /\ i = j
    /\ o \in odd[prev] /\ ByteMap[prev][o] # 1 =>
         \E u \in Threads \ cset : \E i \in DOMAIN allocatorlog[u][prev] : Valid(u, i, o)

AllocInv ==
  /\ TypeOK /\ EpochInv /\ OwnInv /\ FreedInv
  /\ ByteInv /\ ClearInv /\ MetaInv /\ EntryInv /\ BoundInv /\ VisitedInv

-----------------------------------------------------------------------------
(***************************************************************************)
(* Types and epochs.                                                       *)
(***************************************************************************)

\* A transaction works on a parity that is open; the other one is the previous epoch's.
LEMMA Parities ==
  ASSUME TypeOK, EpochInv
  PROVE  /\ prev \in 0..1
         /\ \A t \in Threads : curr(t) \in 0..1
         /\ \A t \in Threads : pc[t] # "idle" => Open(curr(t))
  <1> DEFINE E == Epoch(GLOBAL_EPOCH)
  <1>1. E \in Nat /\ E >= 2
    BY BoundsAssumption, EpochLimitAssumption DEF EpochInv
  <1>2. prev = (E - 1) % 2 /\ prev \in 0..1
    BY <1>1 DEF prev, Parity
  <1>3. ASSUME NEW t \in Threads
        PROVE  /\ curr(t) \in 0..1
               /\ pc[t] # "idle" => Open(curr(t))
    <2>1. epoch[t] \in Word
      BY DEF TypeOK
    <2>2. curr(t) = Epoch(epoch[t]) % 2 /\ Epoch(epoch[t]) \in Nat
      BY <2>1, WordParity, EpochRange, EpochLimitAssumption DEF curr, Parity, Word
    <2>3. CASE pc[t] # "idle"
      <3>1. Epoch(epoch[t]) = E \/ cpc = "wait"
        BY <2>3 DEF EpochInv
      <3>2. E % 2 # (E - 1) % 2
        BY <1>1
      <3> QED BY <1>2, <2>2, <3>1, <3>2 DEF Open
    <2> QED BY <2>2, <2>3
  <1> QED BY <1>2, <1>3

\* A new epoch exchanges the parities.
LEMMA Successor ==
  ASSUME TypeOK, EpochInv, Epoch(GLOBAL_EPOCH) < MaxEpoch, NEW ph \in Phase,
         GLOBAL_EPOCH' = set_phase(GLOBAL_EPOCH + 1, ph)
  PROVE  /\ GLOBAL_EPOCH' \in Word
         /\ Epoch(GLOBAL_EPOCH') = Epoch(GLOBAL_EPOCH) + 1
         /\ get_phase(GLOBAL_EPOCH') = ph
         /\ prev' = 1 - prev
  <1> DEFINE E == Epoch(GLOBAL_EPOCH)
  <1>1. E \in Nat /\ E >= 2 /\ E + 1 < EpochLimit
    BY BoundsAssumption, EpochLimitAssumption DEF EpochInv
  <1>2. GLOBAL_EPOCH \in Word /\ GLOBAL_EPOCH + 1 \in Nat
    BY EpochLimitAssumption DEF TypeOK, Word
  <1>3. Epoch(GLOBAL_EPOCH + 1) = E + 1
    BY <1>1, <1>2, SuccEpoch
  <1>4. /\ GLOBAL_EPOCH' \in Word
        /\ Epoch(GLOBAL_EPOCH') = E + 1
        /\ get_phase(GLOBAL_EPOCH') = ph
    BY <1>2, <1>3, SetPhaseLaws
  <1>5. prev' = E % 2 /\ prev = (E - 1) % 2
    BY <1>1, <1>4 DEF prev, Parity
  <1>6. E % 2 = 1 - ((E - 1) % 2)
    BY <1>1
  <1>7. prev' = 1 - prev
    BY <1>1, <1>5, <1>6
  <1> QED BY <1>4, <1>7

\* A new phase leaves the epoch and its parity alone.
LEMMA SamePhase ==
  ASSUME TypeOK, NEW ph \in Phase, GLOBAL_EPOCH' = set_phase(GLOBAL_EPOCH, ph)
  PROVE  /\ GLOBAL_EPOCH' \in Word
         /\ Epoch(GLOBAL_EPOCH') = Epoch(GLOBAL_EPOCH)
         /\ get_phase(GLOBAL_EPOCH') = ph
         /\ prev' = prev
  <1>1. GLOBAL_EPOCH \in Nat
    BY EpochLimitAssumption DEF TypeOK, Word
  <1>2. /\ GLOBAL_EPOCH' \in Word
        /\ Epoch(GLOBAL_EPOCH') = Epoch(GLOBAL_EPOCH)
        /\ get_phase(GLOBAL_EPOCH') = ph
    BY <1>1, SetPhaseLaws
  <1> QED BY <1>2 DEF prev

\* What LogOperation does to bytes, logs and the history of changes.
LEMMA LogEffect ==
  ASSUME TypeOK, EpochInv, NEW t \in Threads, NEW o \in Objs, LogOperation(t, o)
  PROVE  /\ ByteMap' \in [0..1 -> [Objs -> -1 .. 1]]
         /\ allocatorlog' \in [Threads -> [0..1 -> Seq(Entry)]]
         /\ odd' \in [0..1 -> SUBSET Objs]
         /\ ByteMap'[curr(t)][o] = IF ByteMap[curr(t)][o] = 1 THEN -1 ELSE 1
         /\ o \in odd'[curr(t)] <=> o \notin odd[curr(t)]
         /\ \A p \in 0..1, x \in Objs : p # curr(t) \/ x # o
              => (x \in odd'[p] <=> x \in odd[p])
         /\ allocatorlog'[t][curr(t)] = IF ByteMap[curr(t)][o] # 1
              THEN Append(allocatorlog[t][curr(t)], [obj |-> o, is_valid |-> TRUE])
              ELSE allocatorlog[t][curr(t)]
  <1> DEFINE c == curr(t)
             e == [obj |-> o, is_valid |-> TRUE]
  <1>1. c \in 0..1
    BY Parities
  <1>2. /\ ByteMap \in [0..1 -> [Objs -> -1 .. 1]]
        /\ allocatorlog \in [Threads -> [0..1 -> Seq(Entry)]]
        /\ odd \in [0..1 -> SUBSET Objs]
    BY DEF TypeOK
  <1>3. ByteMap' = [ByteMap EXCEPT ![c][o] = IF ByteMap[c][o] = 1 THEN -1 ELSE 1]
    BY DEF LogOperation, NextByte
  <1>4. odd' = [odd EXCEPT ![c] = (odd[c] \cup {o}) \ (odd[c] \cap {o})]
    BY DEF LogOperation, Toggle
  <1>5. allocatorlog' = IF ByteMap[c][o] = 1 THEN allocatorlog
                        ELSE [allocatorlog EXCEPT ![t][c] = Append(allocatorlog[t][c], e)]
    BY DEF LogOperation
  <1>6. e \in Entry
    BY DEF Entry
  <1>7. Append(allocatorlog[t][c], e) \in Seq(Entry)
    BY <1>1, <1>2, <1>6
  <1> HIDE DEF c, e
  <1>8. allocatorlog' \in [Threads -> [0..1 -> Seq(Entry)]]
    BY <1>1, <1>2, <1>5, <1>7
  <1>9. /\ ByteMap' \in [0..1 -> [Objs -> -1 .. 1]]
        /\ odd' \in [0..1 -> SUBSET Objs]
    BY <1>1, <1>2, <1>3, <1>4
  <1>10. /\ ByteMap'[c][o] = IF ByteMap[c][o] = 1 THEN -1 ELSE 1
    BY <1>1, <1>2, <1>3
  <1>11. /\ o \in odd'[c] <=> o \notin odd[c]
         /\ \A p \in 0..1, x \in Objs : p # c \/ x # o => (x \in odd'[p] <=> x \in odd[p])
    BY <1>1, <1>2, <1>4
  <1>12. allocatorlog'[t][c] = IF ByteMap[c][o] # 1 THEN Append(allocatorlog[t][c], e)
                               ELSE allocatorlog[t][c]
    BY <1>1, <1>2, <1>5
  <1> QED BY <1>8, <1>9, <1>10, <1>11, <1>12 DEF c, e

\* What LogOperation leaves alone.
LEMMA LogElsewhere ==
  ASSUME TypeOK, EpochInv, NEW t \in Threads, NEW o \in Objs, LogOperation(t, o),
         NEW p \in 0..1
  PROVE  /\ p # curr(t) => ByteMap'[p] = ByteMap[p] /\ odd'[p] = odd[p]
         /\ p # curr(t) => \A u \in Threads : allocatorlog'[u][p] = allocatorlog[u][p]
         /\ \A x \in Objs : x # o => ByteMap'[p][x] = ByteMap[p][x]
         /\ \A u \in Threads : u # t => allocatorlog'[u][p] = allocatorlog[u][p]
  <1>1. curr(t) \in 0..1
    BY Parities
  <1>2. /\ ByteMap \in [0..1 -> [Objs -> -1 .. 1]]
        /\ allocatorlog \in [Threads -> [0..1 -> Seq(Entry)]]
        /\ odd \in [0..1 -> SUBSET Objs]
    BY DEF TypeOK
  <1> DEFINE new == Append(allocatorlog[t][curr(t)], [obj |-> o, is_valid |-> TRUE])
             byte == NextByte(ByteMap[curr(t)][o])
             set == Toggle(odd[curr(t)], o)
  <1>3. /\ ByteMap' = [ByteMap EXCEPT ![curr(t)][o] = byte]
        /\ \/ allocatorlog' = allocatorlog
           \/ allocatorlog' = [allocatorlog EXCEPT ![t][curr(t)] = new]
        /\ odd' = [odd EXCEPT ![curr(t)] = set]
    BY DEF LogOperation
  <1> HIDE DEF new, byte, set
  <1> QED BY <1>1, <1>2, <1>3

\* Operations only add entries to logs.
LEMMA LogGrows ==
  ASSUME TypeOK, EpochInv, NEW t \in Threads, NEW o \in Objs, LogOperation(t, o),
         NEW u \in Threads, NEW p \in 0..1
  PROVE  /\ \A x : InLog(x, allocatorlog[u][p]) => InLog(x, allocatorlog'[u][p])
         /\ u = t /\ p = curr(t) /\ ByteMap[p][o] # 1 => InLog(o, allocatorlog'[u][p])
  <1> DEFINE log == allocatorlog[u][p]
             e == [obj |-> o, is_valid |-> TRUE]
  <1>1. log \in Seq(Entry) /\ e \in Entry /\ e.obj = o
    BY DEF TypeOK, Entry
  <1>2. allocatorlog'[u][p] = IF u = t /\ p = curr(t) /\ ByteMap[p][o] # 1
                              THEN Append(log, e) ELSE log
    BY LogEffect, LogElsewhere
  <1> HIDE DEF log, e
  <1>3. /\ DOMAIN Append(log, e) = 1 .. Len(log) + 1 /\ DOMAIN log = 1 .. Len(log)
        /\ Len(log) \in Nat
        /\ \A i \in 1 .. Len(log) : Append(log, e)[i] = log[i]
        /\ Append(log, e)[Len(log) + 1] = e
    BY <1>1
  <1>4. \A i \in DOMAIN log : i \in DOMAIN Append(log, e) /\ Append(log, e)[i] = log[i]
    BY <1>3
  <1>5. Len(log) + 1 \in DOMAIN Append(log, e)
    BY <1>3
  <1>6. \A x : InLog(x, log) => InLog(x, Append(log, e))
    BY <1>4 DEF InLog
  <1>7. InLog(o, Append(log, e))
    BY <1>1, <1>3, <1>5 DEF InLog
  <1> QED BY <1>2, <1>6, <1>7 DEF log

\* check_valid keeps the number and the objects of entries.
LEMMA CheckEffect ==
  ASSUME TypeOK, EpochInv, NEW t \in Threads, CheckValid(t)
  PROVE  /\ ByteMap' \in [0..1 -> [Objs -> -1 .. 1]]
         /\ allocatorlog' \in [Threads -> [0..1 -> Seq(Entry)]]
         /\ \A u \in Threads, p \in 0..1 : u # t \/ p # prev
              => allocatorlog'[u][p] = allocatorlog[u][p]
         /\ DOMAIN allocatorlog'[t][prev] = DOMAIN allocatorlog[t][prev]
         /\ \A i \in DOMAIN allocatorlog[t][prev] :
              /\ allocatorlog'[t][prev][i].obj = allocatorlog[t][prev][i].obj
              /\ allocatorlog'[t][prev][i].is_valid <=>
                   /\ allocatorlog[t][prev][i].is_valid
                   /\ ByteMap[prev][allocatorlog[t][prev][i].obj] = 1
                   /\ \A j \in 1 .. (i - 1) :
                        allocatorlog[t][prev][j].obj # allocatorlog[t][prev][i].obj
         /\ \A p \in 0..1, o \in Objs :
              ByteMap'[p][o] = IF p = prev /\ InLog(o, allocatorlog[t][prev])
                               THEN 0 ELSE ByteMap[p][o]
  <1> DEFINE log == allocatorlog[t][prev]
             new == CheckedEntries(log, ByteMap[prev])
             ok(i) == /\ log[i].is_valid /\ ByteMap[prev][log[i].obj] = 1
                      /\ \A j \in 1 .. (i - 1) : log[j].obj # log[i].obj
  <1>1. prev \in 0..1
    BY Parities
  <1>2. /\ ByteMap \in [0..1 -> [Objs -> -1 .. 1]]
        /\ allocatorlog \in [Threads -> [0..1 -> Seq(Entry)]]
    BY DEF TypeOK
  <1>3. /\ allocatorlog' = [allocatorlog EXCEPT ![t][prev] = new]
        /\ ByteMap' = [ByteMap EXCEPT ![prev] =
                         [o \in Objs |-> IF InLog(o, log) THEN 0 ELSE ByteMap[prev][o]]]
    BY <1>1, <1>2 DEF CheckValid, ClearedBytes
  <1>4. new = [i \in DOMAIN log |-> [log[i] EXCEPT !.is_valid = ok(i)]]
    BY DEF CheckedEntries
  <1>5. log \in Seq(Entry)
    BY <1>1, <1>2
  <1>6. DOMAIN log = 1 .. Len(log) /\ Len(log) \in Nat
    BY <1>5
  <1>7. ASSUME NEW i \in DOMAIN log
        PROVE  new[i] \in Entry /\ new[i].obj = log[i].obj /\ (new[i].is_valid <=> ok(i))
    <2>1. log[i] \in Entry /\ ok(i) \in BOOLEAN
      BY <1>5, <1>7
    <2>2. new[i] = [log[i] EXCEPT !.is_valid = ok(i)]
      BY <1>4, <1>7
    <2> HIDE DEF log, ok, new
    <2> QED BY <2>1, <2>2 DEF Entry
  <1>8. DOMAIN new = DOMAIN log
    BY <1>4
  <1>9. new \in Seq(Entry)
    <2>1. new = [i \in 1 .. Len(log) |-> new[i]]
      BY <1>4, <1>6
    <2> HIDE DEF new, log
    <2>2. new \in [1 .. Len(log) -> Entry]
      BY <1>6, <1>7, <2>1
    <2> QED BY <1>6, <2>2
  <1> HIDE DEF new, log
  <1>10. /\ ByteMap' \in [0..1 -> [Objs -> -1 .. 1]]
         /\ \A p \in 0..1, o \in Objs :
              ByteMap'[p][o] = IF p = prev /\ InLog(o, log) THEN 0 ELSE ByteMap[p][o]
    BY <1>1, <1>2, <1>3
  <1>11. allocatorlog' \in [Threads -> [0..1 -> Seq(Entry)]]
    BY <1>1, <1>2, <1>3, <1>9
  <1>12. \A u \in Threads, p \in 0..1 : allocatorlog'[u][p] =
           IF u = t /\ p = prev THEN new ELSE allocatorlog[u][p]
    BY <1>1, <1>2, <1>3
  <1>13. allocatorlog'[t][prev] = new
    BY <1>1, <1>12
  <1> QED BY <1>7, <1>8, <1>10, <1>11, <1>12, <1>13 DEF log

\* checkpointing empties one log.
LEMMA CheckpointEffect ==
  ASSUME TypeOK, EpochInv, NEW t \in Threads, Checkpoint(t)
  PROVE  /\ allocatorlog' \in [Threads -> [0..1 -> Seq(Entry)]]
         /\ \A u \in Threads, p \in 0..1 : allocatorlog'[u][p] =
              IF u = t /\ p = prev THEN <<>> ELSE allocatorlog[u][p]
         /\ ByteMap_NVM' \in [Objs -> BOOLEAN]
         /\ \A o \in Objs : ByteMap_NVM'[o] <=>
              ByteMap_NVM[o] \/ InLog(o, allocatorlog[t][prev])
  <1>1. prev \in 0..1
    BY Parities
  <1>2. /\ allocatorlog \in [Threads -> [0..1 -> Seq(Entry)]]
        /\ ByteMap_NVM \in [Objs -> BOOLEAN]
    BY DEF TypeOK
  <1>3. /\ allocatorlog' = [allocatorlog EXCEPT ![t][prev] = <<>>]
        /\ ByteMap_NVM' = [o \in Objs |-> ByteMap_NVM[o] \/ InLog(o, allocatorlog[t][prev])]
    BY DEF Checkpoint, Applied
  <1>4. <<>> \in Seq(Entry)
    OBVIOUS
  <1>5. \A o \in Objs : InLog(o, allocatorlog[t][prev]) \in BOOLEAN
    BY DEF InLog
  <1>6. allocatorlog' \in [Threads -> [0..1 -> Seq(Entry)]]
    BY <1>1, <1>2, <1>3, <1>4
  <1>7. \A u \in Threads, p \in 0..1 : allocatorlog'[u][p] =
              IF u = t /\ p = prev THEN <<>> ELSE allocatorlog[u][p]
    BY <1>1, <1>2, <1>3
  <1> QED BY <1>2, <1>3, <1>5, <1>6, <1>7

\* Every step keeps the types.
LEMMA TypeStep ==
  ASSUME TypeOK, EpochInv, OwnInv, Next
  PROVE  TypeOK'
  <1>1. \A t \in Threads : Handling(t) => obj[t] \in Objs
    BY DEF OwnInv, TypeOK
  <1>2. \A t \in Threads : pc[t] # "idle" => Epoch(epoch[t]) \in 0 .. MaxEpoch
    BY BoundsAssumption, EpochLimitAssumption DEF EpochInv
  <1>3. \A t \in Threads : curr(t) \in 0..1
    BY Parities
  <1>4. prev \in 0..1
    BY Parities
  <1>5. MEE \in Phase /\ LP \in Phase /\ NHU \in Phase
    BY DEF Phase
  <1>6. ASSUME NEW t \in Threads, BeginOp(t) PROVE TypeOK'
    BY <1>6 DEF TypeOK, BeginOp, hvars
  <1>7. ASSUME NEW t \in Threads, EndOp(t) PROVE TypeOK'
    <2>1. 0 \in Word
      BY EpochLimitAssumption DEF Word
    <2> QED BY <1>7, <2>1 DEF TypeOK, EndOp, hvars
  <1>8. ASSUME NEW t \in Threads, MallocLog(t) PROVE TypeOK'
    <2>1. obj[t] \in Objs /\ Epoch(epoch[t]) \in 0 .. MaxEpoch
      BY <1>1, <1>2, <1>8 DEF MallocLog, Handling
    <2>2. /\ ByteMap' \in [0..1 -> [Objs -> -1 .. 1]]
          /\ allocatorlog' \in [Threads -> [0..1 -> Seq(Entry)]]
          /\ odd' \in [0..1 -> SUBSET Objs]
      BY <1>8, <2>1, LogEffect DEF MallocLog
    <2> QED BY <1>8, <2>1, <2>2 DEF TypeOK, MallocLog
  <1>9. ASSUME NEW t \in Threads, NEW o \in Objs, FreeLog(t, o) PROVE TypeOK'
    <2>1. Epoch(epoch[t]) \in 0 .. MaxEpoch
      BY <1>2, <1>9 DEF FreeLog
    <2>2. /\ ByteMap' \in [0..1 -> [Objs -> -1 .. 1]]
          /\ allocatorlog' \in [Threads -> [0..1 -> Seq(Entry)]]
          /\ odd' \in [0..1 -> SUBSET Objs]
      BY <1>9, LogEffect DEF FreeLog
    <2> QED BY <1>9, <2>1, <2>2 DEF TypeOK, FreeLog
  <1>10. ASSUME NEW t \in Threads, Free(t) PROVE TypeOK'
    <2>1. dealloc_list' \in [Threads -> [0..1 -> SUBSET Objs]]
      BY <1>1, <1>3, <1>10 DEF TypeOK, Free, Handling
    <2>2. live' \subseteq Objs
      BY <1>10 DEF TypeOK, Free
    <2> QED BY <1>10, <2>1, <2>2 DEF TypeOK, Free, hvars
  <1>11. ASSUME NEW t \in Threads, CheckValid(t) PROVE TypeOK'
    <2>1. /\ ByteMap' \in [0..1 -> [Objs -> -1 .. 1]]
          /\ allocatorlog' \in [Threads -> [0..1 -> Seq(Entry)]]
      BY <1>11, CheckEffect
    <2> QED BY <1>11, <2>1 DEF TypeOK, CheckValid, hvars, tvars
  <1>12. ASSUME NEW t \in Threads, Checkpoint(t) PROVE TypeOK'
    <2>1. /\ ByteMap_NVM' \in [Objs -> BOOLEAN]
          /\ allocatorlog' \in [Threads -> [0..1 -> Seq(Entry)]]
      BY <1>12, CheckpointEffect
    <2> QED BY <1>12, <2>1 DEF TypeOK, Checkpoint, hvars, tvars
  <1>13. ASSUME NEW t \in Threads, NEW o \in Objs, Malloc(t, o) PROVE TypeOK'
    BY <1>13 DEF TypeOK, Malloc, hvars
  <1>14. ASSUME NEW t \in Threads, NEW o \in Objs, Dealloc(t, o) PROVE TypeOK'
    <2>1. dealloc_list' \in [Threads -> [0..1 -> SUBSET Objs]]
      BY <1>4, <1>14 DEF TypeOK, Dealloc
    <2> QED BY <1>14, <2>1 DEF TypeOK, Dealloc, hvars, tvars
  <1>15. CASE Stop
    BY <1>15 DEF TypeOK, Stop, hvars, tvars
  <1>16. CASE Loop
    BY <1>16 DEF TypeOK, Loop, hvars, tvars
  <1>17. CASE Advance
    <2>1. Epoch(GLOBAL_EPOCH) < MaxEpoch
      BY <1>17, BoundsAssumption, EpochLimitAssumption DEF Advance, EpochInv
    <2>2. GLOBAL_EPOCH' \in Word
      BY <1>5, <1>17, <2>1, Successor DEF Advance
    <2> QED BY <1>17, <2>2 DEF TypeOK, Advance, hvars, tvars
  <1>18. CASE StartLogPersistence
    <2>1. GLOBAL_EPOCH' \in Word
      BY <1>5, <1>18, SamePhase DEF StartLogPersistence
    <2> QED BY <1>18, <2>1 DEF TypeOK, StartLogPersistence, hvars, tvars
  <1>19. CASE Finalize
    <2>1. GLOBAL_EPOCH' \in Word
      BY <1>5, <1>19, Successor DEF Finalize
    <2> QED BY <1>19, <2>1 DEF TypeOK, Finalize, hvars, tvars
  <1>20. CASE StartHeapUpdate
    <2>1. GLOBAL_EPOCH' \in Word
      BY <1>5, <1>20, SamePhase DEF StartHeapUpdate
    <2> QED BY <1>20, <2>1 DEF TypeOK, StartHeapUpdate, hvars, tvars
  <1>21. CASE EndCheckpoint
    <2>1. odd' \in [0..1 -> SUBSET Objs] /\ image' \subseteq Objs
      BY <1>4, <1>21 DEF EndCheckpoint, TypeOK
    <2>2. cpc' \in {"idle", "ended"}
      BY <1>21 DEF EndCheckpoint
    <2> QED BY <1>21, <2>1, <2>2 DEF TypeOK, EndCheckpoint, tvars
  <1>22. CASE Ended
    BY <1>22 DEF TypeOK, Ended, vars, hvars, tvars
  <1> QED
    BY <1>6, <1>7, <1>8, <1>9, <1>10, <1>11, <1>12, <1>13, <1>14, <1>15, <1>16, <1>17,
       <1>18, <1>19, <1>20, <1>21, <1>22 DEF Next

\* Every step keeps the epoch protocol.
LEMMA EpochStep ==
  ASSUME TypeOK, EpochInv, Next
  PROVE  EpochInv'
  <1> DEFINE E == Epoch(GLOBAL_EPOCH)
  <1>1. E \in Nat /\ E >= 2 /\ E <= MaxEpoch /\ MaxEpoch \in Nat
    BY BoundsAssumption, EpochLimitAssumption DEF EpochInv
  <1>2. MEE \in Phase /\ LP \in Phase /\ NHU \in Phase
    BY DEF Phase
  <1>3. ASSUME NEW t \in Threads, BeginOp(t) PROVE EpochInv'
    <2>1. \A u \in Threads : /\ pc'[u] = IF u = t THEN "tx" ELSE pc[u]
                             /\ epoch'[u] = IF u = t THEN GLOBAL_EPOCH ELSE epoch[u]
      BY <1>3 DEF BeginOp, TypeOK
    <2> QED BY <1>3, <2>1 DEF EpochInv, BeginOp
  <1>4. ASSUME NEW t \in Threads, EndOp(t) PROVE EpochInv'
    <2>1. \A u \in Threads : /\ pc'[u] = IF u = t THEN "idle" ELSE pc[u]
                             /\ epoch'[u] = IF u = t THEN 0 ELSE epoch[u]
      BY <1>4 DEF EndOp, TypeOK
    <2> QED BY <1>4, <2>1 DEF EpochInv, EndOp
  <1>5. ASSUME NEW t \in Threads, pc[t] # "idle",
               pc' \in [Threads -> {"idle", "tx", "malloc", "free"}], pc'[t] # "idle",
               \A u \in Threads : u # t => pc'[u] = pc[u],
               UNCHANGED <<GLOBAL_EPOCH, isPersisting, epoch, cpc, dealloc>>
        PROVE  EpochInv'
    BY <1>5 DEF EpochInv
  <1>6. ASSUME NEW t \in Threads, NEW o \in Objs,
               MallocLog(t) \/ Free(t) \/ Malloc(t, o) \/ FreeLog(t, o)
        PROVE  EpochInv'
    <2>1. /\ pc[t] # "idle" /\ pc' \in [Threads -> {"idle", "tx", "malloc", "free"}]
          /\ pc'[t] # "idle" /\ \A u \in Threads : u # t => pc'[u] = pc[u]
      BY <1>6 DEF TypeOK, MallocLog, Free, Malloc, FreeLog
    <2>2. UNCHANGED <<GLOBAL_EPOCH, isPersisting, epoch, cpc, dealloc>>
      BY <1>6 DEF MallocLog, Free, Malloc, FreeLog
    <2> QED BY <1>5, <2>1, <2>2
  <1>7. ASSUME NEW t \in Threads, MallocLog(t) \/ Free(t) PROVE EpochInv'
    <2>1. /\ pc[t] # "idle" /\ pc' \in [Threads -> {"idle", "tx", "malloc", "free"}]
          /\ pc'[t] # "idle" /\ \A u \in Threads : u # t => pc'[u] = pc[u]
      BY <1>7 DEF TypeOK, MallocLog, Free
    <2>2. UNCHANGED <<GLOBAL_EPOCH, isPersisting, epoch, cpc, dealloc>>
      BY <1>7 DEF MallocLog, Free
    <2> QED BY <1>5, <2>1, <2>2
  <1>8. ASSUME NEW t \in Threads, NEW o \in Objs, Dealloc(t, o) PROVE EpochInv'
    BY <1>8 DEF EpochInv, Dealloc, tvars
  <1>9. ASSUME NEW t \in Threads, CheckValid(t) \/ Checkpoint(t) PROVE EpochInv'
    BY <1>9 DEF EpochInv, CheckValid, Checkpoint, tvars
  <1>10. CASE Stop
    BY <1>10 DEF EpochInv, Stop, tvars
  <1>11. CASE Loop
    BY <1>11 DEF EpochInv, Loop, tvars
  <1>12. CASE Advance
    <2>1. E + 1 < MaxEpoch
      BY <1>12 DEF Advance, EpochInv
    <2>2. Epoch(GLOBAL_EPOCH') = E + 1 /\ get_phase(GLOBAL_EPOCH') = MEE
      BY <1>1, <1>2, <1>12, <2>1, Successor DEF Advance
    <2>3. \A t \in Threads : pc[t] # "idle" => Epoch(epoch[t]) = Epoch(GLOBAL_EPOCH') - 1
      BY <1>1, <1>12, <2>2 DEF Advance, EpochInv
    <2>4. Epoch(GLOBAL_EPOCH') \in 2 .. MaxEpoch
      BY <1>1, <2>1, <2>2
    <2> QED BY <1>12, <2>2, <2>3, <2>4 DEF Advance, EpochInv, tvars
  <1>13. CASE StartLogPersistence
    <2>1. Epoch(GLOBAL_EPOCH') = E
      BY <1>2, <1>13, SamePhase DEF StartLogPersistence
    <2> QED BY <1>13, <2>1 DEF StartLogPersistence, EpochInv, tvars
  <1>14. CASE Finalize
    <2>1. Epoch(GLOBAL_EPOCH') = E + 1
      BY <1>2, <1>14, Successor DEF Finalize
    <2>2. E < MaxEpoch
      BY <1>14 DEF Finalize
    <2>3. Epoch(GLOBAL_EPOCH') \in 2 .. MaxEpoch
      BY <1>1, <2>1, <2>2
    <2> QED BY <1>14, <2>3 DEF Finalize, EpochInv, tvars
  <1>15. CASE StartHeapUpdate
    <2>1. Epoch(GLOBAL_EPOCH') = E
      BY <1>2, <1>15, SamePhase DEF StartHeapUpdate
    <2> QED BY <1>15, <2>1 DEF StartHeapUpdate, EpochInv, tvars
  <1>16. CASE EndCheckpoint
    BY <1>16 DEF EndCheckpoint, EpochInv, tvars
  <1>17. CASE Ended
    BY <1>17 DEF EpochInv, Ended, vars, tvars
  <1> QED
    BY <1>3, <1>4, <1>6, <1>7, <1>8, <1>9, <1>10, <1>11, <1>12, <1>13, <1>14, <1>15,
       <1>16, <1>17 DEF Next

-----------------------------------------------------------------------------
(***************************************************************************)
(* Who owns an object.                                                     *)
(***************************************************************************)

\* Steps that touch neither the allocator nor what clients, calls and lists own.
LEMMA OwnFrame ==
  ASSUME OwnInv, UNCHANGED <<live, held, obj, dealloc_list>>,
         \A t \in Threads : Handling(t)' <=> Handling(t)
  PROVE  OwnInv'
  BY DEF OwnInv

\* Every object has one owner.
LEMMA OwnStep ==
  ASSUME TypeOK, EpochInv, OwnInv, Next
  PROVE  OwnInv'
  <1>1. prev \in 0..1 /\ \A t \in Threads : curr(t) \in 0..1
    BY Parities
  <1>2. /\ pc \in [Threads -> {"idle", "tx", "malloc", "free"}]
        /\ obj \in [Threads -> Objs \cup {None}]
        /\ dealloc_list \in [Threads -> [0..1 -> SUBSET Objs]]
    BY DEF TypeOK
  <1>3. ASSUME NEW t \in Threads, BeginOp(t) \/ EndOp(t) PROVE OwnInv'
    <2>1. \A u \in Threads : Handling(u)' <=> Handling(u)
      BY <1>2, <1>3 DEF BeginOp, EndOp, Handling
    <2> QED BY <1>3, <2>1, OwnFrame DEF BeginOp, EndOp, hvars
  <1>4. ASSUME NEW t \in Threads, NEW o \in Objs, Malloc(t, o) PROVE OwnInv'
    <2>1. \A u \in Threads : /\ obj'[u] = IF u = t THEN o ELSE obj[u]
                             /\ Handling(u)' <=> u = t \/ Handling(u)
      BY <1>2, <1>4 DEF Malloc, Handling
    <2>2. /\ o \notin live /\ live' = live \cup {o} /\ held' = held
          /\ dealloc_list' = dealloc_list
      BY <1>4 DEF Malloc, hvars
    <2>3. o \notin held /\ \A u \in Threads, p \in 0..1 : o \notin dealloc_list[u][p]
      BY <2>2 DEF OwnInv
    <2> QED BY <2>1, <2>2, <2>3 DEF OwnInv
  <1>5. ASSUME NEW t \in Threads, MallocLog(t) PROVE OwnInv'
    <2>1. \A u \in Threads : /\ u # t => obj'[u] = obj[u]
                             /\ Handling(u)' <=> u # t /\ Handling(u)
      BY <1>2, <1>5 DEF MallocLog, Handling
    <2>2. /\ live' = live /\ held' = held \cup {obj[t]} /\ dealloc_list' = dealloc_list
          /\ Handling(t)
      BY <1>5 DEF MallocLog, Handling
    <2> QED BY <2>1, <2>2 DEF OwnInv
  <1>6. ASSUME NEW t \in Threads, NEW o \in Objs, FreeLog(t, o) PROVE OwnInv'
    <2>1. \A u \in Threads : /\ obj'[u] = IF u = t THEN o ELSE obj[u]
                             /\ Handling(u)' <=> u = t \/ Handling(u)
      BY <1>2, <1>6 DEF FreeLog, Handling
    <2>2. /\ o \in held /\ live' = live /\ held' = held \ {o}
          /\ dealloc_list' = dealloc_list
      BY <1>6 DEF FreeLog, hvars
    <2>3. \A u \in Threads, p \in 0..1 : o \notin dealloc_list[u][p]
      BY <2>2 DEF OwnInv
    <2> QED BY <2>1, <2>2, <2>3 DEF OwnInv
  <1>7. ASSUME NEW t \in Threads, Free(t) PROVE OwnInv'
    <2>1. \A u \in Threads : /\ u # t => obj'[u] = obj[u]
                             /\ Handling(u)' <=> u # t /\ Handling(u)
      BY <1>2, <1>7 DEF Free, Handling
    <2>2. held' = held /\ Handling(t)
      BY <1>7 DEF Free, Handling, hvars
    <2>3. CASE MustDelay(t)
      <3>1. live' = live
        BY <1>7, <2>3 DEF Free, FreedNow
      <3>2. \A u \in Threads, p \in 0..1 : dealloc_list'[u][p] =
              IF u = t /\ p = curr(t) THEN dealloc_list[u][p] \cup {obj[t]}
              ELSE dealloc_list[u][p]
        BY <1>1, <1>2, <1>7, <2>3 DEF Free
      <3>3. ASSUME NEW u \in Threads, NEW p \in 0..1, NEW x \in dealloc_list'[u][p]
            PROVE  x \in dealloc_list[u][p] \/ (u = t /\ p = curr(t) /\ x = obj[t])
        BY <3>2
      <3>4. /\ obj[t] \in live /\ obj[t] \notin held
            /\ \A u \in Threads, p \in 0..1 : obj[t] \notin dealloc_list[u][p]
        BY <2>2 DEF OwnInv
      <3>5. \A u \in Threads, p \in 0..1 : dealloc_list'[u][p] \subseteq live \ held
        BY <3>4, <3>3 DEF OwnInv
      <3>6. \A u, v \in Threads, p \in 0..1 :
              v # t /\ Handling(v) => obj[v] \notin dealloc_list'[u][p]
        BY <2>2, <3>3 DEF OwnInv
      <3>7. ASSUME NEW u \in Threads, NEW v \in Threads, NEW p \in 0..1, NEW q \in 0..1,
                   u # v \/ p # q
            PROVE  dealloc_list'[u][p] \cap dealloc_list'[v][q] = {}
        <4>1. dealloc_list[u][p] \cap dealloc_list[v][q] = {}
          BY <3>7 DEF OwnInv
        <4> QED BY <3>4, <3>7, <3>3, <4>1
      <3>8. /\ held \subseteq live
            /\ \A u \in Threads : Handling(u) => obj[u] \in live /\ obj[u] \notin held
            /\ \A u, v \in Threads : Handling(u) /\ Handling(v) /\ obj[u] = obj[v] => u = v
        BY DEF OwnInv
      <3> QED BY <2>1, <2>2, <3>1, <3>5, <3>6, <3>7, <3>8 DEF OwnInv
    <2>4. CASE ~MustDelay(t)
      <3>1. live' = live \ {obj[t]} /\ dealloc_list' = dealloc_list
        BY <1>7, <2>4 DEF Free, FreedNow
      <3> QED BY <2>1, <2>2, <3>1 DEF OwnInv
    <2> QED BY <2>3, <2>4
  <1>8. ASSUME NEW t \in Threads, NEW o \in Objs, Dealloc(t, o) PROVE OwnInv'
    <2>1. /\ obj' = obj /\ held' = held /\ live' = live \ {o}
          /\ o \in dealloc_list[t][prev]
      BY <1>8 DEF Dealloc, hvars, tvars
    <2>2. \A u \in Threads : Handling(u)' <=> Handling(u)
      BY <1>8 DEF Dealloc, Handling, tvars
    <2>3. \A u \in Threads, p \in 0..1 : dealloc_list'[u][p] =
            IF u = t /\ p = prev THEN dealloc_list[u][p] \ {o} ELSE dealloc_list[u][p]
      BY <1>1, <1>2, <1>8 DEF Dealloc
    <2>4. o \notin held /\ \A u \in Threads : Handling(u) => obj[u] # o
      BY <1>1, <2>1 DEF OwnInv
    <2>5. \A u \in Threads, p \in 0..1 : u # t \/ p # prev => o \notin dealloc_list[u][p]
      BY <1>1, <2>1 DEF OwnInv
    <2>6. \A u \in Threads, p \in 0..1 : /\ o \notin dealloc_list'[u][p]
                                        /\ dealloc_list'[u][p] \subseteq dealloc_list[u][p]
      BY <2>3, <2>5
    <2>7. \A u \in Threads, p \in 0..1 : dealloc_list'[u][p] \subseteq live' \ held
      BY <2>1, <2>6 DEF OwnInv
    <2>8. \A u, v \in Threads, p \in 0..1 : Handling(v) => obj[v] \notin dealloc_list'[u][p]
      BY <2>6 DEF OwnInv
    <2>9. \A u, v \in Threads, p, q \in 0..1 :
            u # v \/ p # q => dealloc_list'[u][p] \cap dealloc_list'[v][q] = {}
      BY <2>6 DEF OwnInv
    <2>10. /\ held \subseteq live
           /\ \A u \in Threads : Handling(u) => obj[u] \in live /\ obj[u] \notin held
           /\ \A u, v \in Threads : Handling(u) /\ Handling(v) /\ obj[u] = obj[v] => u = v
      BY DEF OwnInv
    <2> QED BY <2>1, <2>2, <2>4, <2>7, <2>8, <2>9, <2>10 DEF OwnInv
  <1>9. ASSUME UNCHANGED <<pc, obj, live, held, dealloc_list>> PROVE OwnInv'
    <2>1. \A u \in Threads : Handling(u)' <=> Handling(u)
      BY <1>9 DEF Handling
    <2> QED BY <1>9, <2>1, OwnFrame
  <1>10. ASSUME NEW t \in Threads, CheckValid(t) \/ Checkpoint(t) PROVE OwnInv'
    BY <1>9, <1>10 DEF CheckValid, Checkpoint, tvars, hvars
  <1>11. CASE \/ Stop \/ Loop \/ Advance \/ StartLogPersistence \/ Finalize
              \/ StartHeapUpdate \/ EndCheckpoint \/ Ended
    BY <1>9, <1>11 DEF Stop, Loop, Advance, StartLogPersistence, Finalize,
                       StartHeapUpdate, EndCheckpoint, Ended, vars, tvars, hvars
  <1> QED BY <1>3, <1>4, <1>5, <1>6, <1>7, <1>8, <1>10, <1>11 DEF Next

-----------------------------------------------------------------------------
(***************************************************************************)
(* Epochs of mallocs and frees.                                            *)
(***************************************************************************)
LEMMA FreedStep ==
  ASSUME TypeOK, EpochInv, OwnInv, FreedInv, Next
  PROVE  FreedInv'
  <1> DEFINE E == Epoch(GLOBAL_EPOCH)
  <1>1. E \in Nat /\ E >= 2
    BY BoundsAssumption, EpochLimitAssumption DEF EpochInv
  <1>2. /\ pc \in [Threads -> {"idle", "tx", "malloc", "free"}]
        /\ obj \in [Threads -> Objs \cup {None}]
        /\ freed \in [Objs -> 0 .. MaxEpoch] /\ MaxEpoch \in Nat
        /\ \A o \in Objs : freed[o] \in Int
    BY BoundsAssumption, EpochLimitAssumption DEF TypeOK
  <1>3. ASSUME NEW t \in Threads, BeginOp(t) \/ EndOp(t) PROVE FreedInv'
    <2>1. \A u \in Threads : /\ pc'[u] \in {"malloc", "free"} => u # t
                             /\ u # t => pc'[u] = pc[u] /\ epoch'[u] = epoch[u]
      BY <1>2, <1>3 DEF BeginOp, EndOp, TypeOK
    <2> QED BY <1>3, <2>1 DEF BeginOp, EndOp, hvars, FreedInv, NoReuseAcrossEpochs
  <1>4. ASSUME NEW t \in Threads, NEW o \in Objs, Malloc(t, o) PROVE FreedInv'
    <2>1. \A u \in Threads : /\ pc'[u] = IF u = t THEN "malloc" ELSE pc[u]
                             /\ obj'[u] = IF u = t THEN o ELSE obj[u]
      BY <1>2, <1>4 DEF Malloc
    <2>2. /\ UNCHANGED <<GLOBAL_EPOCH, epoch, cpc, freed>> /\ o \notin live
          /\ live' = live \cup {o} /\ pc[t] # "idle"
      BY <1>4 DEF Malloc, hvars
    <2>3. freed[o] <= Epoch(epoch[t])
      BY <1>1, <1>2, <2>2 DEF FreedInv, EpochInv
    <2> QED BY <2>1, <2>2, <2>3 DEF FreedInv, NoReuseAcrossEpochs
  <1>5. ASSUME NEW t \in Threads, MallocLog(t) PROVE FreedInv'
    <2>1. \A u \in Threads : /\ pc'[u] = IF u = t THEN "tx" ELSE pc[u]
                             /\ u # t => obj'[u] = obj[u]
      BY <1>2, <1>5 DEF MallocLog
    <2>2. UNCHANGED <<GLOBAL_EPOCH, epoch, cpc, freed, live>>
      BY <1>5 DEF MallocLog
    <2> QED BY <2>1, <2>2 DEF FreedInv, NoReuseAcrossEpochs
  <1>6. ASSUME NEW t \in Threads, NEW o \in Objs, FreeLog(t, o) PROVE FreedInv'
    <2>1. \A u \in Threads : /\ pc'[u] = IF u = t THEN "free" ELSE pc[u]
                             /\ obj'[u] = IF u = t THEN o ELSE obj[u]
      BY <1>2, <1>6 DEF FreeLog
    <2>2. /\ UNCHANGED <<GLOBAL_EPOCH, epoch, cpc, live>> /\ o \in held
          /\ pc[t] # "idle"
      BY <1>6 DEF FreeLog
    <2>3. \A x \in Objs : freed'[x] = IF x = o THEN Epoch(epoch[t]) ELSE freed[x]
      BY <1>2, <1>6 DEF FreeLog
    <2>4. Epoch(epoch[t]) <= E
      BY <1>1, <2>2 DEF EpochInv
    <2>5. o \in live /\ \A u \in Threads : pc[u] \in {"malloc", "free"} => obj[u] # o
      BY <2>2 DEF OwnInv, Handling
    <2>6. \A u \in Threads : pc[u] \in {"malloc", "free"} => obj[u] \in Objs
      BY <1>2 DEF OwnInv, Handling, TypeOK
    <2>7. \A x \in Objs : freed'[x] <= E
      BY <2>3, <2>4 DEF FreedInv
    <2>8. cpc = "wait" => \A x \in Objs : x \in live \/ freed'[x] < E
      BY <2>3, <2>5 DEF FreedInv
    <2>9. \A u \in Threads : pc'[u] = "free" => freed'[obj'[u]] = Epoch(epoch[u])
      BY <2>1, <2>3, <2>5, <2>6 DEF FreedInv
    <2>10. \A u \in Threads : pc'[u] = "malloc" => freed'[obj'[u]] <= Epoch(epoch[u])
      BY <2>1, <2>3, <2>5, <2>6 DEF FreedInv, NoReuseAcrossEpochs
    <2> QED BY <2>2, <2>7, <2>8, <2>9, <2>10 DEF FreedInv, NoReuseAcrossEpochs
  <1>7. ASSUME NEW t \in Threads, Free(t) PROVE FreedInv'
    <2>1. \A u \in Threads : /\ pc'[u] = IF u = t THEN "tx" ELSE pc[u]
                             /\ u # t => obj'[u] = obj[u]
      BY <1>2, <1>7 DEF Free
    <2>2. /\ UNCHANGED <<GLOBAL_EPOCH, epoch, cpc, freed>>
          /\ live' = live \ FreedNow(t) /\ pc[t] = "free"
      BY <1>7 DEF Free, hvars
    <2>3. ASSUME cpc = "wait", NEW o \in Objs PROVE o \in live' \/ freed[o] < E
      <3>1. CASE o \in FreedNow(t)
        <4>1. o = obj[t] /\ get_phase(epoch[t]) # MEE
          BY <3>1 DEF FreedNow, MustDelay
        <4>2. Epoch(epoch[t]) = E - 1
          BY <2>2, <2>3, <4>1 DEF EpochInv
        <4> QED BY <1>1, <2>2, <4>1, <4>2 DEF FreedInv
      <3> QED BY <2>2, <2>3, <3>1 DEF FreedInv
    <2> QED BY <2>1, <2>2, <2>3 DEF FreedInv, NoReuseAcrossEpochs
  <1>8. ASSUME NEW t \in Threads, NEW o \in Objs, Dealloc(t, o) PROVE FreedInv'
    <2>1. cpc # "wait"
      BY <1>8 DEF Dealloc, EpochInv
    <2> QED BY <1>8, <2>1 DEF Dealloc, hvars, tvars, FreedInv, NoReuseAcrossEpochs
  <1>9. ASSUME UNCHANGED <<tvars, live, freed>>, Epoch(GLOBAL_EPOCH') = E,
               cpc' = "wait" => cpc = "wait"
        PROVE  FreedInv'
    BY <1>9 DEF FreedInv, NoReuseAcrossEpochs, tvars
  <1>10. ASSUME UNCHANGED <<tvars, live, freed>>, Epoch(GLOBAL_EPOCH') = E + 1
         PROVE  FreedInv'
    <2>1. \A o \in Objs : freed[o] <= E + 1 /\ freed[o] < E + 1
      BY <1>1, <1>2 DEF FreedInv
    <2> QED BY <1>10, <2>1 DEF FreedInv, NoReuseAcrossEpochs, tvars
  <1>11. ASSUME NEW t \in Threads, CheckValid(t) \/ Checkpoint(t) PROVE FreedInv'
    BY <1>9, <1>11 DEF CheckValid, Checkpoint, hvars
  <1>12. CASE Stop \/ Loop \/ EndCheckpoint \/ Ended
    BY <1>9, <1>12 DEF Stop, Loop, EndCheckpoint, Ended, vars, hvars
  <1>13. MEE \in Phase /\ LP \in Phase /\ NHU \in Phase
    BY DEF Phase
  <1>14. CASE StartLogPersistence \/ StartHeapUpdate
    <2>1. Epoch(GLOBAL_EPOCH') = E
      BY <1>13, <1>14, SamePhase DEF StartLogPersistence, StartHeapUpdate
    <2> QED BY <1>9, <1>14, <2>1 DEF StartLogPersistence, StartHeapUpdate, hvars
  <1>15. CASE Advance \/ Finalize
    <2>1. Epoch(GLOBAL_EPOCH) < MaxEpoch
      BY <1>1, <1>2, <1>15 DEF Advance, Finalize, EpochInv
    <2>2. Epoch(GLOBAL_EPOCH') = E + 1
      BY <1>13, <1>15, <2>1, Successor DEF Advance, Finalize
    <2> QED BY <1>10, <1>15, <2>2 DEF Advance, Finalize, hvars
  <1> QED BY <1>3, <1>4, <1>5, <1>6, <1>7, <1>8, <1>11, <1>12, <1>14, <1>15 DEF Next

-----------------------------------------------------------------------------
(***************************************************************************)
(* Bytes, logs and metadata.                                               *)
(***************************************************************************)

\* A malloc or free writes the byte and the log of o.
Operation(t, o) ==
  /\ pc[t] # "idle" /\ LogOperation(t, o)
  /\ UNCHANGED <<GLOBAL_EPOCH, cpc, cset, ByteMap_NVM, image, dealloc_list>>

\* No byte, log or phase changes.
Quiet ==
  UNCHANGED <<GLOBAL_EPOCH, cpc, cset, ByteMap, allocatorlog, odd, ByteMap_NVM, image>>

\* The kinds of steps that these invariants tell apart.
LEMMA Kinds ==
  ASSUME TypeOK, OwnInv, Next
  PROVE  \/ Quiet
         \/ \E t \in Threads, o \in Objs : Operation(t, o)
         \/ \E t \in Threads : CheckValid(t) \/ Checkpoint(t)
         \/ Loop \/ Advance \/ StartLogPersistence \/ Finalize \/ StartHeapUpdate
         \/ EndCheckpoint
  <1>1. ASSUME NEW t \in Threads, MallocLog(t)
        PROVE  \E o \in Objs : Operation(t, o)
    <2>1. obj[t] \in Objs
      BY <1>1 DEF OwnInv, Handling, MallocLog, TypeOK
    <2>2. Operation(t, obj[t])
      BY <1>1 DEF MallocLog, Operation
    <2> QED BY <2>1, <2>2
  <1>2. ASSUME NEW t \in Threads, NEW o \in Objs, FreeLog(t, o)
        PROVE  Operation(t, o)
    BY <1>2 DEF FreeLog, Operation
  <1>3. ASSUME NEW t \in Threads, NEW o \in Objs, Malloc(t, o) \/ Dealloc(t, o)
        PROVE  Quiet
    BY <1>3 DEF Malloc, Dealloc, Quiet, hvars
  <1>4. ASSUME NEW t \in Threads, BeginOp(t) \/ EndOp(t) \/ Free(t)
        PROVE  Quiet
    BY <1>4 DEF BeginOp, EndOp, Free, Quiet, hvars
  <1>5. Stop \/ Ended => Quiet
    BY DEF Stop, Ended, Quiet, vars, hvars
  <1> QED BY <1>1, <1>2, <1>3, <1>4, <1>5 DEF Next

\* Once the wait is over, operations leave the previous epoch's state alone.
LEMMA OperationsAreCurrent ==
  ASSUME TypeOK, EpochInv, NEW t \in Threads, NEW o \in Objs, Operation(t, o),
         cpc # "wait"
  PROVE  /\ \A x \in Objs : ByteMap'[prev][x] = ByteMap[prev][x]
         /\ \A x \in Objs : x \in odd'[prev] <=> x \in odd[prev]
         /\ \A u \in Threads : allocatorlog'[u][prev] = allocatorlog[u][prev]
  <1>1. prev \in 0..1 /\ curr(t) # prev
    BY Parities DEF Operation, Open
  <1>2. LogOperation(t, o)
    BY DEF Operation
  <1> QED BY <1>1, <1>2, LogElsewhere

\* The parities when an epoch begins: the new epoch's is the one that was closed.
LEMMA Swapped ==
  ASSUME prev \in 0..1, prev' = 1 - prev
  PROVE  /\ prev' \in 0..1 /\ prev' # prev
         /\ \A p \in 0..1 : p = prev \/ p = prev'
  OBVIOUS

LEMMA ByteStep ==
  ASSUME TypeOK, EpochInv, OwnInv, ByteInv, MetaInv, Next
  PROVE  ByteInv'
  <1>1. prev \in 0..1
    BY Parities
  <1>2. CASE Quiet
    <2>1. prev' = prev /\ \A p \in 0..1 : Open(p)' <=> Open(p)
      BY <1>2 DEF Quiet, prev, Open
    <2> QED BY <1>2, <2>1 DEF Quiet, ByteInv, InLog
  <1>3. ASSUME NEW t \in Threads, NEW o \in Objs, Operation(t, o) PROVE ByteInv'
    <2>1. prev' = prev /\ cpc' = cpc /\ cset' = cset /\ \A p \in 0..1 : Open(p)' <=> Open(p)
      BY <1>3 DEF Operation, prev, Open
    <2>2. curr(t) \in 0..1 /\ Open(curr(t))
      BY <1>3, Parities DEF Operation
    <2>3. ASSUME NEW p \in 0..1, NEW x \in Objs, Open(p)
          PROVE  /\ ByteMap'[p][x] # 0 => \E u \in Threads : InLog(x, allocatorlog'[u][p])
                 /\ x \in odd'[p] <=> ByteMap'[p][x] = 1
      <3>1. /\ ByteMap[p][x] # 0 => \E u \in Threads : InLog(x, allocatorlog[u][p])
            /\ x \in odd[p] <=> ByteMap[p][x] = 1
        BY <2>3 DEF ByteInv
      <3>2. \A u \in Threads : InLog(x, allocatorlog[u][p]) => InLog(x, allocatorlog'[u][p])
        BY <1>3, LogGrows DEF Operation
      <3>3. CASE p = curr(t) /\ x = o
        <4>1. ByteMap'[p][x] = IF ByteMap[p][x] = 1 THEN -1 ELSE 1
          BY <1>3, <3>3, LogEffect DEF Operation
        <4>2. x \in odd'[p] <=> x \notin odd[p]
          BY <1>3, <3>3, LogEffect DEF Operation
        <4>3. ByteMap[p][x] # 1 => InLog(x, allocatorlog'[t][p])
          BY <1>3, <3>3, LogGrows DEF Operation
        <4> QED BY <3>1, <3>2, <4>1, <4>2, <4>3
      <3>4. CASE ~(p = curr(t) /\ x = o)
        <4>1. LogOperation(t, o)
          BY <1>3 DEF Operation
        <4>2. ByteMap'[p][x] = ByteMap[p][x]
          BY <3>4, <4>1, LogElsewhere
        <4>3. x \in odd'[p] <=> x \in odd[p]
          BY <3>4, <4>1, LogEffect
        <4> QED BY <3>1, <3>2, <4>2, <4>3
      <3> QED BY <3>3, <3>4
    <2>4. ASSUME NEW x \in Objs, cpc # "wait"
          PROVE  /\ ByteMap'[prev][x] = ByteMap[prev][x]
                 /\ \A u \in Threads : allocatorlog'[u][prev] = allocatorlog[u][prev]
      BY <1>3, <2>4, OperationsAreCurrent
    <2>5. cset \subseteq Threads
      BY DEF TypeOK
    <2>6. ASSUME NEW x \in Objs, cpc = "check", ByteMap'[prev][x] # 0
          PROVE  \E u \in cset : InLog(x, allocatorlog'[u][prev])
      <3>1. PICK u \in cset : InLog(x, allocatorlog[u][prev])
        BY <2>4, <2>6 DEF ByteInv
      <3> QED BY <2>4, <2>5, <2>6, <3>1
    <2>7. ASSUME NEW x \in Objs, cpc \notin {"wait", "check"}
          PROVE  ByteMap'[prev][x] = 0
      BY <2>4, <2>7 DEF ByteInv
    <2> QED BY <2>1, <2>3, <2>6, <2>7 DEF ByteInv
  <1>4. ASSUME NEW t \in Threads, CheckValid(t) PROVE ByteInv'
    <2>1. /\ prev' = prev /\ cpc = "check" /\ cpc' = cpc /\ cset' = cset \ {t}
          /\ odd' = odd /\ \A p \in 0..1 : Open(p)' <=> p # prev
      BY <1>4 DEF CheckValid, prev, Open, hvars
    <2>2. ASSUME NEW p \in 0..1, p # prev, NEW x \in Objs
          PROVE  /\ ByteMap'[p][x] # 0 => \E u \in Threads : InLog(x, allocatorlog'[u][p])
                 /\ x \in odd[p] <=> ByteMap'[p][x] = 1
      <3>1. Open(p)
        BY <2>2 DEF Open
      <3>2. ByteMap'[p][x] = ByteMap[p][x]
        BY <1>4, <2>2, CheckEffect
      <3>3. \A u \in Threads : allocatorlog'[u][p] = allocatorlog[u][p]
        BY <1>4, <2>2, CheckEffect
      <3> QED BY <3>1, <3>2, <3>3 DEF ByteInv
    <2>3. ASSUME NEW x \in Objs, ByteMap'[prev][x] # 0
          PROVE  \E u \in cset \ {t} : InLog(x, allocatorlog'[u][prev])
      <3>1. ByteMap[prev][x] # 0 /\ ~InLog(x, allocatorlog[t][prev])
        BY <1>1, <1>4, <2>3, CheckEffect
      <3>2. PICK u \in cset : InLog(x, allocatorlog[u][prev])
        BY <2>1, <3>1 DEF ByteInv
      <3>3. u # t /\ u \in Threads
        BY <3>1, <3>2 DEF TypeOK
      <3>4. allocatorlog'[u][prev] = allocatorlog[u][prev]
        BY <1>1, <1>4, <3>3, CheckEffect
      <3> QED BY <3>2, <3>3, <3>4
    <2> QED BY <2>1, <2>2, <2>3 DEF ByteInv
  <1>5. ASSUME NEW t \in Threads, Checkpoint(t) PROVE ByteInv'
    <2>1. /\ prev' = prev /\ cpc = "update" /\ cpc' = cpc
          /\ odd' = odd /\ ByteMap' = ByteMap /\ \A p \in 0..1 : Open(p)' <=> p # prev
      BY <1>5 DEF Checkpoint, prev, Open, hvars
    <2>2. \A p \in 0..1 : p # prev => Open(p)
      BY DEF Open
    <2>3. \A u \in Threads, p \in 0..1 : p # prev => allocatorlog'[u][p] = allocatorlog[u][p]
      BY <1>5, CheckpointEffect
    <2>4. \A x \in Objs : ByteMap[prev][x] = 0
      BY <2>1 DEF ByteInv
    <2>5. \A p \in 0..1, x \in Objs : p # prev =>
            /\ ByteMap[p][x] # 0 => \E u \in Threads : InLog(x, allocatorlog'[u][p])
            /\ x \in odd[p] <=> ByteMap[p][x] = 1
      BY <2>2, <2>3 DEF ByteInv
    <2> QED BY <2>1, <2>4, <2>5 DEF ByteInv
  <1>6. CASE EndCheckpoint
    <2>1. /\ prev' = prev /\ cpc = "update" /\ cpc' \in {"idle", "ended"}
          /\ allocatorlog' = allocatorlog
          /\ ByteMap' = ByteMap /\ \A p \in 0..1 : Open(p)' <=> p # prev
      BY <1>6 DEF EndCheckpoint, prev, Open
    <2>2. \A p \in 0..1 : p # prev => Open(p) /\ odd'[p] = odd[p]
      BY <1>1, <1>6 DEF EndCheckpoint, Open, TypeOK
    <2>3. \A x \in Objs : ByteMap[prev][x] = 0
      BY <2>1 DEF ByteInv
    <2>4. \A p \in 0..1, x \in Objs : p # prev =>
            /\ ByteMap[p][x] # 0 => \E u \in Threads : InLog(x, allocatorlog[u][p])
            /\ x \in odd'[p] <=> ByteMap[p][x] = 1
      BY <2>2 DEF ByteInv
    <2> QED BY <2>1, <2>3, <2>4 DEF ByteInv
  <1>7. CASE Loop
    <2>1. prev' = prev /\ \A p \in 0..1 : Open(p)' <=> Open(p)
      BY <1>7 DEF Loop, prev, Open
    <2>2. UNCHANGED <<ByteMap, allocatorlog, odd>> /\ cpc = "idle" /\ cpc' = "ready"
      BY <1>7 DEF Loop, hvars
    <2> QED BY <2>1, <2>2 DEF ByteInv, InLog
  <1>8. MEE \in Phase /\ LP \in Phase /\ NHU \in Phase
    BY DEF Phase
  <1>9. CASE Advance \/ Finalize
    <2>1. Epoch(GLOBAL_EPOCH) < MaxEpoch
      BY <1>9, BoundsAssumption, EpochLimitAssumption DEF Advance, Finalize, EpochInv
    <2>2. prev' = 1 - prev
      BY <1>8, <1>9, <2>1, Successor DEF Advance, Finalize
    <2>3. /\ cpc \in {"idle", "ready"} /\ cpc' \in {"wait", "check"}
          /\ cpc' = "check" => cset' = Threads
          /\ UNCHANGED <<ByteMap, allocatorlog, odd>>
      BY <1>9 DEF Advance, Finalize, hvars
    <2>4. prev' # prev /\ prev' \in 0..1 /\ \A p \in 0..1 : p = prev \/ p = prev'
      BY <1>1, <2>2, Swapped
    <2>5. \A p \in 0..1 : p # prev => Open(p)
      BY DEF Open
    <2>6. \A x \in Objs : ByteMap[prev][x] = 0 /\ x \notin odd[prev]
      BY <2>3 DEF ByteInv, MetaInv
    <2>7. \A p \in 0..1, x \in Objs :
            /\ ByteMap[p][x] # 0 => \E u \in Threads : InLog(x, allocatorlog[u][p])
            /\ x \in odd[p] <=> ByteMap[p][x] = 1
      BY <2>4, <2>5, <2>6 DEF ByteInv
    <2>8. \A x \in Objs : cpc' = "check" /\ ByteMap[prev'][x] # 0
            => \E u \in cset' : InLog(x, allocatorlog[u][prev'])
      BY <2>3, <2>4, <2>7
    <2> HIDE DEF prev
    <2> QED BY <2>3, <2>7, <2>8 DEF ByteInv
  <1>10. CASE StartLogPersistence
    <2>1. prev' = prev
      BY <1>8, <1>10, SamePhase DEF StartLogPersistence
    <2>2. /\ cpc = "wait" /\ cpc' = "check" /\ cset' = Threads
          /\ UNCHANGED <<ByteMap, allocatorlog, odd>>
      BY <1>10 DEF StartLogPersistence, hvars
    <2>3. \A p \in 0..1 : Open(p)
      BY <2>2 DEF Open
    <2> QED BY <1>1, <2>1, <2>2, <2>3 DEF ByteInv
  <1>11. CASE StartHeapUpdate
    <2>1. prev' = prev
      BY <1>8, <1>11, SamePhase DEF StartHeapUpdate
    <2>2. /\ cpc = "check" /\ cpc' = "update" /\ cset = {}
          /\ UNCHANGED <<ByteMap, allocatorlog, odd>>
      BY <1>11 DEF StartHeapUpdate, hvars
    <2>3. \A p \in 0..1 : Open(p)' <=> Open(p)
      BY <2>1, <2>2 DEF Open
    <2>4. \A x \in Objs : ByteMap[prev][x] = 0
      BY <2>2 DEF ByteInv
    <2> QED BY <2>1, <2>2, <2>3, <2>4 DEF ByteInv
  <1> QED
    BY <1>2, <1>3, <1>4, <1>5, <1>6, <1>7, <1>9, <1>10, <1>11, Kinds

LEMMA ClearStep ==
  ASSUME TypeOK, EpochInv, OwnInv, ClearInv, Next
  PROVE  ClearInv'
  <1>1. prev \in 0..1 /\ allocatorlog \in [Threads -> [0..1 -> Seq(Entry)]]
    BY Parities DEF TypeOK
  <1>2. MEE \in Phase /\ LP \in Phase /\ NHU \in Phase
    BY DEF Phase
  <1>3. CASE UNCHANGED <<GLOBAL_EPOCH, cpc, cset, allocatorlog, dealloc_list>>
    BY <1>3 DEF ClearInv, prev
  <1>4. ASSUME NEW t \in Threads, NEW o \in Objs, Operation(t, o) PROVE ClearInv'
    <2>1. prev' = prev /\ cpc' = cpc /\ cset' = cset /\ dealloc_list' = dealloc_list
      BY <1>4 DEF Operation, prev
    <2>2. cpc # "wait" => \A u \in Threads : allocatorlog'[u][prev] = allocatorlog[u][prev]
      BY <1>4, OperationsAreCurrent
    <2> QED BY <2>1, <2>2 DEF ClearInv
  <1>5. ASSUME NEW t \in Threads, Free(t) PROVE ClearInv'
    <2>1. /\ prev' = prev /\ cpc' = cpc /\ cset' = cset /\ allocatorlog' = allocatorlog
          /\ pc[t] # "idle"
      BY <1>5 DEF Free, prev
    <2>2. curr(t) \in 0..1 /\ (cpc # "wait" => curr(t) # prev)
      BY <2>1, Parities DEF Open
    <2>3. cpc # "wait" => \A u \in Threads : dealloc_list'[u][prev] = dealloc_list[u][prev]
      BY <1>1, <1>5, <2>2 DEF Free, TypeOK
    <2> QED BY <2>1, <2>3 DEF ClearInv
  <1>6. ASSUME NEW t \in Threads, NEW o \in Objs, Dealloc(t, o) PROVE ClearInv'
    <2>1. /\ prev' = prev /\ cpc' = cpc /\ cset' = cset /\ allocatorlog' = allocatorlog
          /\ cpc \in {"check", "update"}
      BY <1>6 DEF Dealloc, prev, EpochInv
    <2> QED BY <2>1 DEF ClearInv
  <1>7. ASSUME NEW t \in Threads, CheckValid(t) PROVE ClearInv'
    BY <1>7 DEF CheckValid, ClearInv
  <1>8. ASSUME NEW t \in Threads, Checkpoint(t) PROVE ClearInv'
    <2>1. prev' = prev /\ cpc = "update" /\ cpc' = cpc /\ cset' = cset \ {t}
      BY <1>8 DEF Checkpoint, prev
    <2>2. \A u \in Threads : allocatorlog'[u][prev] =
            IF u = t THEN <<>> ELSE allocatorlog[u][prev]
      BY <1>1, <1>8, CheckpointEffect
    <2> QED BY <2>1, <2>2 DEF ClearInv
  <1>9. CASE EndCheckpoint
    <2>1. /\ prev' = prev /\ cpc = "update" /\ cpc' \in {"idle", "ended"}
          /\ cset = {} /\ allocatorlog' = allocatorlog /\ dealloc_list' = dealloc_list
          /\ cpc' = "idle" => \A t \in Threads : dealloc_list[t][prev] = {}
      BY <1>9 DEF EndCheckpoint, prev
    <2> QED BY <2>1 DEF ClearInv
  <1>10. CASE Loop
    BY <1>10 DEF Loop, ClearInv, prev
  <1>11. CASE Advance \/ StartLogPersistence \/ Finalize
    BY <1>11 DEF Advance, StartLogPersistence, Finalize, ClearInv
  <1>12. CASE StartHeapUpdate
    BY <1>12 DEF StartHeapUpdate, ClearInv
  <1>13. ASSUME NEW t \in Threads, BeginOp(t) \/ EndOp(t) PROVE ClearInv'
    BY <1>3, <1>13 DEF BeginOp, EndOp
  <1>14. ASSUME NEW t \in Threads, NEW o \in Objs, Malloc(t, o) PROVE ClearInv'
    BY <1>3, <1>14 DEF Malloc
  <1>15. CASE Stop \/ Ended
    BY <1>3, <1>15 DEF Stop, Ended, vars
  <1>16. ASSUME NEW t \in Threads, MallocLog(t) PROVE ClearInv'
    <2>1. obj[t] \in Objs
      BY <1>16 DEF OwnInv, Handling, MallocLog, TypeOK
    <2> QED BY <1>4, <1>16, <2>1 DEF MallocLog, Operation
  <1>17. ASSUME NEW t \in Threads, NEW o \in Objs, FreeLog(t, o) PROVE ClearInv'
    BY <1>4, <1>17 DEF FreeLog, Operation
  <1> QED
    BY <1>5, <1>6, <1>7, <1>8, <1>9, <1>10, <1>11, <1>12, <1>13, <1>14, <1>15, <1>16,
       <1>17 DEF Next

LEMMA MetaStep ==
  ASSUME TypeOK, EpochInv, OwnInv, ByteInv, MetaInv, Next
  PROVE  MetaInv'
  <1>1. prev \in 0..1 /\ cset \subseteq Threads /\ image \subseteq Objs
    BY Parities DEF TypeOK
  <1>2. MEE \in Phase /\ LP \in Phase /\ NHU \in Phase
    BY DEF Phase
  <1>3. \A p \in 0..1 : odd[p] \subseteq Objs
    BY DEF TypeOK
  <1>4. CASE Quiet
    BY <1>4 DEF Quiet, MetaInv, prev, InLog
  <1>5. ASSUME NEW t \in Threads, NEW o \in Objs, Operation(t, o) PROVE MetaInv'
    <2>1. /\ prev' = prev /\ cpc' = cpc /\ cset' = cset /\ ByteMap_NVM' = ByteMap_NVM
          /\ image' = image
      BY <1>5 DEF Operation, prev
    <2>2. CASE cpc = "wait"
      BY <2>1, <2>2 DEF MetaInv
    <2>3. CASE cpc # "wait"
      <3>1. odd'[prev] \subseteq Objs
        BY <1>1, <1>5, LogEffect DEF Operation
      <3>2. \A x \in odd'[prev] : x \in odd[prev]
        BY <1>5, <2>3, <3>1, OperationsAreCurrent
      <3>3. \A u \in Threads : allocatorlog'[u][prev] = allocatorlog[u][prev]
        BY <1>5, <2>3, OperationsAreCurrent
      <3>4. cpc \in {"idle", "ready", "ended"} => odd'[prev] = {}
        BY <3>2 DEF MetaInv
      <3>5. cpc = "check" => \A x \in odd'[prev] :
              \E u \in Threads : InLog(x, allocatorlog'[u][prev])
        BY <3>2, <3>3 DEF MetaInv
      <3>6. cpc = "update" => \A x \in odd'[prev] :
              ByteMap_NVM[x] \/ \E u \in cset : InLog(x, allocatorlog'[u][prev])
        BY <1>1, <3>2, <3>3 DEF MetaInv
      <3>7. \A x \in image : ByteMap_NVM[x]
        BY DEF MetaInv
      <3> QED BY <2>1, <3>4, <3>5, <3>6, <3>7 DEF MetaInv
    <2> QED BY <2>2, <2>3
  <1>6. ASSUME NEW t \in Threads, CheckValid(t) PROVE MetaInv'
    <2>1. /\ prev' = prev /\ cpc = "check" /\ cpc' = cpc /\ ByteMap_NVM' = ByteMap_NVM
          /\ image' = image /\ odd' = odd
      BY <1>6 DEF CheckValid, prev, hvars
    <2>2. \A u \in Threads : u # t => allocatorlog'[u][prev] = allocatorlog[u][prev]
      BY <1>1, <1>6, CheckEffect
    <2>3. /\ DOMAIN allocatorlog'[t][prev] = DOMAIN allocatorlog[t][prev]
          /\ \A i \in DOMAIN allocatorlog[t][prev] :
               allocatorlog'[t][prev][i].obj = allocatorlog[t][prev][i].obj
      BY <1>6, CheckEffect
    <2>4. \A x : InLog(x, allocatorlog[t][prev]) => InLog(x, allocatorlog'[t][prev])
      BY <2>3 DEF InLog
    <2>5. \A x \in odd[prev] : \E u \in Threads : InLog(x, allocatorlog'[u][prev])
      BY <2>1, <2>2, <2>4 DEF MetaInv
    <2> QED BY <2>1, <2>5 DEF MetaInv
  <1>7. ASSUME NEW t \in Threads, Checkpoint(t) PROVE MetaInv'
    <2>1. /\ prev' = prev /\ cpc = "update" /\ cpc' = cpc /\ cset' = cset \ {t}
          /\ image' = image /\ odd' = odd
      BY <1>7 DEF Checkpoint, prev, hvars
    <2>2. \A u \in Threads : u # t => allocatorlog'[u][prev] = allocatorlog[u][prev]
      BY <1>1, <1>7, CheckpointEffect
    <2>3. \A x \in Objs : ByteMap_NVM'[x] <=>
              ByteMap_NVM[x] \/ InLog(x, allocatorlog[t][prev])
      BY <1>7, CheckpointEffect
    <2>4. \A x \in image : ByteMap_NVM'[x]
      BY <1>1, <2>3 DEF MetaInv
    <2>5. ASSUME NEW x \in odd[prev]
          PROVE  ByteMap_NVM'[x] \/ \E u \in cset \ {t} : InLog(x, allocatorlog'[u][prev])
      <3>1. x \in Objs
        BY <1>1, <1>3
      <3>2. ByteMap_NVM[x] \/ \E u \in cset : InLog(x, allocatorlog[u][prev])
        BY <2>1 DEF MetaInv
      <3>3. CASE ByteMap_NVM[x]
        BY <2>3, <3>1, <3>3
      <3>4. ASSUME NEW u \in cset, InLog(x, allocatorlog[u][prev])
            PROVE  ByteMap_NVM'[x] \/ \E v \in cset \ {t} : InLog(x, allocatorlog'[v][prev])
        <4>1. CASE u = t
          BY <2>3, <3>1, <3>4, <4>1
        <4>2. CASE u # t
          BY <1>1, <2>2, <3>4, <4>2
        <4> QED BY <4>1, <4>2
      <3> QED BY <3>2, <3>3, <3>4
    <2> QED BY <2>1, <2>4, <2>5 DEF MetaInv
  <1>8. CASE EndCheckpoint
    <2>1. /\ prev' = prev /\ cpc = "update" /\ cpc' \in {"idle", "ended"} /\ cset = {}
          /\ ByteMap_NVM' = ByteMap_NVM
          /\ image' = (image \cup odd[prev]) \ (image \cap odd[prev])
      BY <1>8 DEF EndCheckpoint, prev
    <2>2. odd'[prev] = {}
      BY <1>1, <1>8 DEF EndCheckpoint, TypeOK
    <2>3. \A x \in odd[prev] : ByteMap_NVM[x]
      BY <2>1 DEF MetaInv
    <2>4. \A x \in image' : ByteMap_NVM[x]
      BY <2>1, <2>3 DEF MetaInv
    <2> QED BY <2>1, <2>2, <2>4 DEF MetaInv
  <1>9. CASE Loop
    BY <1>9 DEF Loop, MetaInv, prev, hvars
  <1>10. CASE Advance
    BY <1>10 DEF Advance, MetaInv, hvars
  <1>11. ASSUME prev' \in 0..1, Open(prev'), cpc' = "check",
                UNCHANGED <<allocatorlog, odd, ByteMap_NVM, image>>
         PROVE  MetaInv'
    <2>1. \A x \in odd[prev'] : \E u \in Threads : InLog(x, allocatorlog[u][prev'])
      <3> HIDE DEF prev
      <3>1. odd[prev'] \subseteq Objs
        BY <1>3, <1>11
      <3>2. \A x \in odd[prev'] : ByteMap[prev'][x] # 0
        BY <1>11, <3>1 DEF ByteInv
      <3> QED BY <1>11, <3>1, <3>2 DEF ByteInv
    <2> HIDE DEF prev
    <2> QED BY <1>11, <2>1 DEF MetaInv
  <1>12. CASE Finalize
    <2>1. prev' = 1 - prev
      BY <1>2, <1>12, Successor DEF Finalize
    <2>2. prev' \in 0..1 /\ prev' # prev
      BY <1>1, <2>1, Swapped
    <2> HIDE DEF prev
    <2>3. Open(prev')
      BY <2>2 DEF Open
    <2> QED BY <1>11, <1>12, <2>2, <2>3 DEF Finalize, hvars
  <1>13. CASE StartLogPersistence
    <2>1. prev' = prev
      BY <1>2, <1>13, SamePhase DEF StartLogPersistence
    <2> HIDE DEF prev
    <2>2. Open(prev') /\ prev' \in 0..1
      BY <1>1, <1>13, <2>1 DEF Open, StartLogPersistence
    <2> QED BY <1>11, <1>13, <2>2 DEF StartLogPersistence, hvars
  <1>14. CASE StartHeapUpdate
    <2>1. prev' = prev
      BY <1>2, <1>14, SamePhase DEF StartHeapUpdate
    <2>2. /\ cpc = "check" /\ cpc' = "update" /\ cset' = Threads
          /\ UNCHANGED <<allocatorlog, odd, ByteMap_NVM, image>>
      BY <1>14 DEF StartHeapUpdate, hvars
    <2> QED BY <2>1, <2>2 DEF MetaInv
  <1> QED
    BY <1>4, <1>5, <1>6, <1>7, <1>8, <1>9, <1>10, <1>12, <1>13, <1>14, Kinds

-----------------------------------------------------------------------------
(***************************************************************************)
(* The entries of logs.                                                    *)
(***************************************************************************)
LEMMA EntryStep ==
  ASSUME TypeOK, EpochInv, OwnInv, ClearInv, EntryInv, Next
  PROVE  EntryInv'
  <1>1. prev \in 0..1 /\ cset \subseteq Threads
    BY Parities DEF TypeOK
  <1>2. MEE \in Phase /\ LP \in Phase /\ NHU \in Phase
    BY DEF Phase
  <1>3. ASSUME allocatorlog' = allocatorlog, prev' = prev,
               \A p \in 0..1 : Open(p)' => Open(p), cpc' # "check" \/ UNCHANGED <<cpc, cset>>
        PROVE  EntryInv'
    BY <1>3 DEF EntryInv
  <1>4. CASE Quiet \/ Loop \/ EndCheckpoint
    <2>1. prev' = prev /\ allocatorlog' = allocatorlog
      BY <1>4 DEF Quiet, Loop, EndCheckpoint, prev
    <2>2. \A p \in 0..1 : Open(p)' => Open(p)
      BY <1>4, <2>1 DEF Quiet, Loop, EndCheckpoint, Open
    <2>3. cpc' # "check" \/ UNCHANGED <<cpc, cset>>
      BY <1>4 DEF Quiet, Loop, EndCheckpoint
    <2> QED BY <1>3, <2>1, <2>2, <2>3
  <1>5. CASE StartHeapUpdate
    <2>1. prev' = prev
      BY <1>2, <1>5, SamePhase DEF StartHeapUpdate
    <2>2. \A p \in 0..1 : Open(p)' => Open(p)
      BY <1>5, <2>1 DEF StartHeapUpdate, Open
    <2> QED BY <1>3, <1>5, <2>1, <2>2 DEF StartHeapUpdate
  <1>6. ASSUME allocatorlog' = allocatorlog,
               \A p \in 0..1 : Open(p) \/ \A t \in Threads : allocatorlog[t][p] = <<>>
        PROVE  EntryInv'
    <2>1. ASSUME NEW t \in Threads, NEW p \in 0..1, NEW i \in DOMAIN allocatorlog[t][p]
          PROVE  allocatorlog[t][p][i].is_valid
      <3>1. CASE Open(p)
        BY <3>1 DEF EntryInv
      <3>2. CASE allocatorlog[t][p] = <<>>
        BY <2>1, <3>2
      <3> QED BY <1>6, <3>1, <3>2
    <2> QED BY <1>6, <2>1 DEF EntryInv
  <1>7. CASE StartLogPersistence
    BY <1>6, <1>7 DEF StartLogPersistence, Open
  <1>8. CASE Advance \/ Finalize
    BY <1>6, <1>8 DEF Advance, Finalize, Open, ClearInv
  <1>9. ASSUME NEW t \in Threads, NEW o \in Objs, Operation(t, o) PROVE EntryInv'
    <2>1. prev' = prev /\ cpc' = cpc /\ cset' = cset /\ \A p \in 0..1 : Open(p)' <=> Open(p)
      BY <1>9 DEF Operation, prev, Open
    <2>2. curr(t) \in 0..1 /\ LogOperation(t, o)
      BY <1>9, Parities DEF Operation
    <2>3. ASSUME NEW u \in Threads, NEW p \in 0..1, Open(p) \/ (cpc = "check" /\ u \in cset),
                 NEW i \in DOMAIN allocatorlog'[u][p]
          PROVE  allocatorlog'[u][p][i].is_valid
      <3> DEFINE log == allocatorlog[u][p]
                 e == [obj |-> o, is_valid |-> TRUE]
      <3>1. \A j \in DOMAIN log : log[j].is_valid
        BY <2>3 DEF EntryInv
      <3>2. allocatorlog'[u][p] = log \/ allocatorlog'[u][p] = Append(log, e)
        <4>1. CASE u = t /\ p = curr(t)
          BY <2>2, <4>1, LogEffect
        <4>2. CASE u # t \/ p # curr(t)
          BY <2>2, <4>2, LogElsewhere
        <4> QED BY <4>1, <4>2
      <3>3. log \in Seq(Entry) /\ e.is_valid = TRUE
        BY DEF TypeOK
      <3> HIDE DEF log, e
      <3>4. /\ DOMAIN Append(log, e) = 1 .. Len(log) + 1 /\ DOMAIN log = 1 .. Len(log)
            /\ Len(log) \in Nat
            /\ \A j \in 1 .. Len(log) : Append(log, e)[j] = log[j]
            /\ Append(log, e)[Len(log) + 1] = e
        BY <3>3
      <3>5. \A j \in DOMAIN Append(log, e) : j \in DOMAIN log \/ j = Len(log) + 1
        BY <3>4
      <3>6. \A j \in DOMAIN Append(log, e) : Append(log, e)[j].is_valid
        BY <3>1, <3>3, <3>4, <3>5
      <3> QED BY <3>1, <3>2, <3>6
    <2> QED BY <2>1, <2>3 DEF EntryInv
  <1>10. ASSUME NEW t \in Threads, CheckValid(t) PROVE EntryInv'
    <2>1. /\ prev' = prev /\ cpc = "check" /\ cpc' = cpc /\ cset' = cset \ {t}
          /\ \A p \in 0..1 : Open(p)' <=> p # prev
      BY <1>10 DEF CheckValid, prev, Open
    <2>2. \A p \in 0..1 : p # prev => Open(p)
      BY DEF Open
    <2>3. \A u \in Threads, p \in 0..1 : u # t \/ p # prev
              => allocatorlog'[u][p] = allocatorlog[u][p]
      BY <1>10, CheckEffect
    <2> QED BY <2>1, <2>2, <2>3 DEF EntryInv
  <1>11. ASSUME NEW t \in Threads, Checkpoint(t) PROVE EntryInv'
    <2>1. /\ prev' = prev /\ cpc' = "update" /\ \A p \in 0..1 : Open(p)' <=> p # prev
      BY <1>11 DEF Checkpoint, prev, Open
    <2>2. \A p \in 0..1 : p # prev => Open(p)
      BY DEF Open
    <2>3. \A u \in Threads, p \in 0..1 : p # prev
              => allocatorlog'[u][p] = allocatorlog[u][p]
      BY <1>11, CheckpointEffect
    <2> QED BY <2>1, <2>2, <2>3 DEF EntryInv
  <1> QED
    BY <1>4, <1>5, <1>7, <1>8, <1>9, <1>10, <1>11, Kinds

LEMMA BoundStep ==
  ASSUME TypeOK, EpochInv, OwnInv, BoundInv, Next
  PROVE  BoundInv'
  <1>1. /\ prev \in 0..1 /\ MaxLog \in Nat
        /\ pc \in [Threads -> {"idle", "tx", "malloc", "free"}]
    BY Parities, BoundsAssumption DEF TypeOK
  <1>2. \A t \in Threads, p \in 0..1 : allocatorlog[t][p] \in Seq(Entry)
    BY DEF TypeOK
  <1>3. ASSUME NEW t \in Threads, NEW o \in Objs, LogOperation(t, o), Room(t),
               epoch' = epoch, pc' \in [Threads -> {"idle", "tx", "malloc", "free"}],
               \A u \in Threads : pc'[u] = "malloc" => u # t /\ pc[u] = "malloc"
        PROVE  BoundInv'
    <2> DEFINE log == allocatorlog[t][curr(t)]
               e == [obj |-> o, is_valid |-> TRUE]
    <2>1. curr(t) \in 0..1
      BY Parities
    <2>2. Len(log) < MaxLog /\ log \in Seq(Entry) /\ e \in Entry
      BY <1>2, <1>3, <2>1 DEF Room, Entry
    <2>3. Len(Append(log, e)) = Len(log) + 1 /\ Len(log) \in Nat
      BY <2>2
    <2>4. Len(Append(log, e)) <= MaxLog /\ Len(log) <= MaxLog
      BY <1>1, <2>2, <2>3
    <2>5. allocatorlog'[t][curr(t)] = log \/ allocatorlog'[t][curr(t)] = Append(log, e)
      BY <1>3, LogEffect
    <2>6. \A u \in Threads, p \in 0..1 : u # t \/ p # curr(t)
            => allocatorlog'[u][p] = allocatorlog[u][p]
      BY <1>3, LogElsewhere
    <2>7. \A u \in Threads, p \in 0..1 : Len(allocatorlog'[u][p]) <= MaxLog
      <3> HIDE DEF e
      <3> QED BY <2>4, <2>5, <2>6 DEF BoundInv
    <2>8. \A u \in Threads : u # t /\ Room(u) => Room(u)'
      <3>1. \A u \in Threads : curr(u)' = curr(u) /\ curr(u) \in 0..1
        BY <1>3, Parities DEF curr
      <3> HIDE DEF e, log
      <3> QED BY <2>6, <3>1 DEF Room
    <2> QED BY <1>3, <2>7, <2>8 DEF BoundInv
  <1>4. ASSUME NEW t \in Threads, MallocLog(t) PROVE BoundInv'
    <2>1. obj[t] \in Objs
      BY <1>4 DEF OwnInv, Handling, MallocLog, TypeOK
    <2>2. Room(t)
      BY <1>4 DEF MallocLog, BoundInv
    <2>3. /\ pc' \in [Threads -> {"idle", "tx", "malloc", "free"}]
          /\ \A u \in Threads : pc'[u] = "malloc" => u # t /\ pc[u] = "malloc"
      BY <1>1, <1>4 DEF MallocLog
    <2> QED BY <1>3, <1>4, <2>1, <2>2, <2>3 DEF MallocLog
  <1>5. ASSUME NEW t \in Threads, NEW o \in Objs, FreeLog(t, o) PROVE BoundInv'
    <2>1. /\ pc' \in [Threads -> {"idle", "tx", "malloc", "free"}]
          /\ \A u \in Threads : pc'[u] = "malloc" => u # t /\ pc[u] = "malloc"
      BY <1>1, <1>5 DEF FreeLog
    <2> QED BY <1>3, <1>5, <2>1 DEF FreeLog
  <1>6. ASSUME allocatorlog' = allocatorlog,
               \A u \in Threads : pc'[u] = "malloc" => Room(u) /\ epoch'[u] = epoch[u]
        PROVE  BoundInv'
    BY <1>6 DEF BoundInv, Room, curr
  <1>7. ASSUME NEW t \in Threads, NEW o \in Objs, Malloc(t, o) PROVE BoundInv'
    <2>1. \A u \in Threads : pc'[u] = "malloc" => Room(u) /\ epoch'[u] = epoch[u]
      BY <1>1, <1>7 DEF Malloc, BoundInv
    <2> QED BY <1>6, <1>7, <2>1 DEF Malloc
  <1>8. ASSUME NEW t \in Threads, BeginOp(t) \/ EndOp(t) \/ Free(t) PROVE BoundInv'
    <2>1. \A u \in Threads : pc'[u] = "malloc" => pc[u] = "malloc" /\ epoch'[u] = epoch[u]
      BY <1>1, <1>8 DEF BeginOp, EndOp, Free, TypeOK
    <2> QED BY <1>6, <1>8, <2>1 DEF BeginOp, EndOp, Free, BoundInv
  <1>9. ASSUME NEW t \in Threads, NEW o \in Objs, Dealloc(t, o) PROVE BoundInv'
    BY <1>6, <1>9 DEF Dealloc, tvars, BoundInv
  <1>10. CASE \/ Stop \/ Loop \/ Advance \/ StartLogPersistence \/ Finalize
              \/ StartHeapUpdate \/ EndCheckpoint \/ Ended
    BY <1>6, <1>10 DEF Stop, Loop, Advance, StartLogPersistence, Finalize,
                       StartHeapUpdate, EndCheckpoint, Ended, vars, tvars, BoundInv
  <1>11. ASSUME cpc # "wait", pc' = pc, epoch' = epoch,
                \A u \in Threads, p \in 0..1 : p # prev
                  => allocatorlog'[u][p] = allocatorlog[u][p],
                \A u \in Threads : Len(allocatorlog'[u][prev]) <= MaxLog
         PROVE  BoundInv'
    <2>1. \A u \in Threads : /\ curr(u)' = curr(u) /\ curr(u) \in 0..1
                             /\ pc[u] = "malloc" => curr(u) # prev
      BY <1>11, Parities DEF curr, Open
    <2>2. \A u \in Threads : pc[u] = "malloc" => Room(u)'
      BY <1>11, <2>1 DEF BoundInv, Room
    <2>3. \A u \in Threads, p \in 0..1 : Len(allocatorlog'[u][p]) <= MaxLog
      BY <1>11 DEF BoundInv
    <2> QED BY <1>11, <2>2, <2>3 DEF BoundInv
  <1>12. ASSUME NEW t \in Threads, CheckValid(t) PROVE BoundInv'
    <2>1. \A u \in Threads, p \in 0..1 : u # t \/ p # prev
            => allocatorlog'[u][p] = allocatorlog[u][p]
      BY <1>12, CheckEffect
    <2>2. /\ allocatorlog'[t][prev] \in Seq(Entry)
          /\ DOMAIN allocatorlog'[t][prev] = DOMAIN allocatorlog[t][prev]
      BY <1>1, <1>12, CheckEffect
    <2>3. Len(allocatorlog'[t][prev]) = Len(allocatorlog[t][prev])
      BY <1>1, <1>2, <2>2
    <2>4. \A u \in Threads : Len(allocatorlog'[u][prev]) <= MaxLog
      BY <1>1, <2>1, <2>3 DEF BoundInv
    <2> QED BY <1>11, <1>12, <2>1, <2>4 DEF CheckValid, tvars
  <1>13. ASSUME NEW t \in Threads, Checkpoint(t) PROVE BoundInv'
    <2>1. \A u \in Threads, p \in 0..1 : allocatorlog'[u][p] =
              IF u = t /\ p = prev THEN <<>> ELSE allocatorlog[u][p]
      BY <1>13, CheckpointEffect
    <2>2. Len(<<>>) <= MaxLog
      BY <1>1
    <2>3. \A u \in Threads : Len(allocatorlog'[u][prev]) <= MaxLog
      BY <1>1, <2>1, <2>2 DEF BoundInv
    <2> QED BY <1>11, <1>13, <2>1, <2>3 DEF Checkpoint, tvars
  <1> QED
    BY <1>4, <1>5, <1>7, <1>8, <1>9, <1>10, <1>12, <1>13 DEF Next

\* Every set of naturals that is not empty has a smallest element.
LEMMA Smallest ==
  ASSUME NEW S \in SUBSET Nat, S # {}
  PROVE  \E n \in S : \A m \in S : n <= m
  <1> DEFINE R == {ss \in Nat \X Nat : ss[1] < ss[2]}
  <1>1. IsWellFoundedOn(R, Nat)
    BY NatLessThanWellFounded, Zenon DEF OpToRel
  <1> HIDE DEF R
  <1>2. PICK n \in S : \A m \in S : ~ (<<m, n>> \in R)
    BY <1>1, WFMin
  <1>3. ASSUME NEW m \in S, m < n PROVE FALSE
    BY <1>2, <1>3 DEF R
  <1> QED BY <1>3

\* An object in a log has a first entry there.
LEMMA FirstEntry ==
  ASSUME NEW log \in Seq(Entry), NEW o, InLog(o, log)
  PROVE  \E i \in DOMAIN log : log[i].obj = o /\ \A j \in 1 .. (i - 1) : log[j].obj # o
  <1> DEFINE S == {i \in DOMAIN log : log[i].obj = o}
  <1>1. DOMAIN log = 1 .. Len(log) /\ Len(log) \in Nat
    OBVIOUS
  <1>2. S \in SUBSET Nat /\ S # {}
    BY <1>1 DEF InLog
  <1> HIDE DEF S
  <1>3. PICK i \in S : \A j \in S : i <= j
    BY <1>2, Smallest
  <1>4. i \in DOMAIN log /\ log[i].obj = o
    BY <1>3 DEF S
  <1>5. ASSUME NEW j \in 1 .. (i - 1), log[j].obj = o PROVE FALSE
    <2>1. j \in DOMAIN log /\ j < i /\ j \in Nat /\ i \in Nat
      BY <1>1, <1>4, <1>5
    <2>2. j \in S
      BY <1>5, <2>1 DEF S
    <2> QED BY <1>3, <2>1, <2>2
  <1> QED BY <1>4, <1>5

\* check_valid of one log keeps VisitedInv.
LEMMA CheckVisited ==
  ASSUME TypeOK, EpochInv, EntryInv, VisitedInv, NEW t \in Threads, CheckValid(t)
  PROVE  VisitedInv'
  <1> DEFINE log == allocatorlog[t][prev]
             new == allocatorlog'[t][prev]
             done == Threads \ cset
  <1>1. prev \in 0..1 /\ cset \subseteq Threads /\ log \in Seq(Entry)
    BY Parities DEF TypeOK
  <1>2. /\ prev' = prev /\ cpc = "check" /\ cpc' = cpc /\ cset' = cset \ {t} /\ t \in cset
        /\ odd' = odd
    BY <1>1 DEF CheckValid, prev, hvars
  <1>3. Threads \ cset' = done \cup {t} /\ t \notin done
    BY <1>2
  <1>4. \A u \in done : allocatorlog'[u][prev] = allocatorlog[u][prev]
    <2>1. \A u \in Threads : u # t => allocatorlog'[u][prev] = allocatorlog[u][prev]
      BY <1>1, CheckEffect
    <2> QED BY <1>3, <2>1
  <1>5. DOMAIN log = 1 .. Len(log) /\ Len(log) \in Nat /\ DOMAIN new = DOMAIN log
    BY <1>1, CheckEffect
  <1>6. \A i \in DOMAIN log : log[i].is_valid
    BY <1>1, <1>2 DEF EntryInv
  <1>7. \A i \in DOMAIN log :
          /\ new[i].obj = log[i].obj
          /\ new[i].is_valid <=> /\ ByteMap[prev][log[i].obj] = 1
                                 /\ \A j \in 1 .. (i - 1) : log[j].obj # log[i].obj
    BY <1>6, CheckEffect
  <1>8. \A o \in Objs : ByteMap'[prev][o] = IF InLog(o, log) THEN 0 ELSE ByteMap[prev][o]
    BY <1>1, CheckEffect
  <1>9. \A u \in done, o \in Objs : \A i \in DOMAIN allocatorlog[u][prev] :
          Valid(u, i, o)' <=> Valid(u, i, o)
    BY <1>2, <1>4 DEF Valid
  <1>10. \A o \in Objs : \A i \in DOMAIN log :
           Valid(t, i, o)' <=> /\ log[i].obj = o /\ ByteMap[prev][o] = 1
                               /\ \A j \in 1 .. (i - 1) : log[j].obj # o
    BY <1>2, <1>7 DEF Valid
  <1> HIDE DEF new, log, done
  <1>11. ASSUME NEW o \in Objs
         PROVE  /\ ByteMap'[prev][o] = 1 => o \in odd[prev]
                /\ \A u \in done \cup {t} : \A i \in DOMAIN allocatorlog'[u][prev] :
                     Valid(u, i, o)' => o \in odd[prev] /\ ByteMap'[prev][o] # 1
                /\ \A u, v \in done \cup {t} : \A i \in DOMAIN allocatorlog'[u][prev] :
                     \A j \in DOMAIN allocatorlog'[v][prev] :
                       Valid(u, i, o)' /\ Valid(v, j, o)' => u = v /\ i = j
                /\ o \in odd[prev] /\ ByteMap'[prev][o] # 1 =>
                     \E u \in done \cup {t} : \E i \in DOMAIN allocatorlog'[u][prev] :
                       Valid(u, i, o)'
    <2>1. /\ ByteMap[prev][o] = 1 => o \in odd[prev]
          /\ \A u \in done : \A i \in DOMAIN allocatorlog[u][prev] :
               Valid(u, i, o) => o \in odd[prev] /\ ByteMap[prev][o] # 1
          /\ \A u, v \in done : \A i \in DOMAIN allocatorlog[u][prev] :
               \A j \in DOMAIN allocatorlog[v][prev] :
                 Valid(u, i, o) /\ Valid(v, j, o) => u = v /\ i = j
          /\ o \in odd[prev] /\ ByteMap[prev][o] # 1 =>
               \E u \in done : \E i \in DOMAIN allocatorlog[u][prev] : Valid(u, i, o)
      BY <1>2 DEF VisitedInv, done
    <2>2. \A i \in DOMAIN allocatorlog'[t][prev] : i \in DOMAIN log
      BY <1>5 DEF new
    <2>3. ASSUME NEW i \in DOMAIN log, NEW j \in DOMAIN log, Valid(t, i, o)', Valid(t, j, o)'
          PROVE  i = j
      <3>1. /\ \A k \in 1 .. (i - 1) : log[k].obj # o
            /\ \A k \in 1 .. (j - 1) : log[k].obj # o
            /\ log[i].obj = o /\ log[j].obj = o
        BY <1>10, <2>3
      <3>2. i \in Nat /\ j \in Nat /\ i >= 1 /\ j >= 1
        BY <1>5
      <3>3. ~(i < j) /\ ~(j < i)
        BY <3>1, <3>2
      <3> QED BY <3>2, <3>3
    <2>4. \A i \in DOMAIN log : Valid(t, i, o)' => ByteMap[prev][o] = 1 /\ InLog(o, log)
      BY <1>10 DEF InLog
    <2>5. ByteMap'[prev][o] = 1 => ByteMap[prev][o] = 1 /\ ~InLog(o, log)
      BY <1>8
    <2>6. ByteMap'[prev][o] = 1 => o \in odd[prev]
      BY <2>1, <2>5
    <2>7. ASSUME NEW u \in done \cup {t}, NEW i \in DOMAIN allocatorlog'[u][prev],
                 Valid(u, i, o)'
          PROVE  o \in odd[prev] /\ ByteMap'[prev][o] # 1
      <3>1. CASE u = t
        BY <2>1, <2>2, <2>4, <2>5, <2>7, <3>1
      <3>2. CASE u \in done
        <4>1. i \in DOMAIN allocatorlog[u][prev] /\ Valid(u, i, o)
          BY <1>4, <1>9, <2>7, <3>2
        <4> QED BY <2>1, <2>5, <3>2, <4>1
      <3> QED BY <2>7, <3>1, <3>2
    <2>8. ASSUME NEW u \in done \cup {t}, NEW v \in done \cup {t},
                 NEW i \in DOMAIN allocatorlog'[u][prev],
                 NEW j \in DOMAIN allocatorlog'[v][prev],
                 Valid(u, i, o)', Valid(v, j, o)'
          PROVE  u = v /\ i = j
      <3>1. ASSUME NEW w \in done \cup {t}, NEW k \in DOMAIN allocatorlog'[w][prev],
                   Valid(w, k, o)'
            PROVE  IF ByteMap[prev][o] = 1 THEN w = t /\ k \in DOMAIN log
                   ELSE w \in done /\ k \in DOMAIN allocatorlog[w][prev] /\ Valid(w, k, o)
        <4>1. CASE w = t
          BY <2>2, <2>4, <3>1, <4>1
        <4>2. CASE w \in done
          <5>1. k \in DOMAIN allocatorlog[w][prev] /\ Valid(w, k, o)
            BY <1>4, <1>9, <3>1, <4>2
          <5> QED BY <2>1, <4>2, <5>1
        <4> QED BY <3>1, <4>1, <4>2
      <3>2. CASE ByteMap[prev][o] = 1
        <4>1. u = t /\ v = t /\ i \in DOMAIN log /\ j \in DOMAIN log
          BY <2>8, <3>1, <3>2
        <4> QED BY <2>3, <2>8, <4>1
      <3>3. CASE ByteMap[prev][o] # 1
        <4>1. /\ u \in done /\ i \in DOMAIN allocatorlog[u][prev] /\ Valid(u, i, o)
              /\ v \in done /\ j \in DOMAIN allocatorlog[v][prev] /\ Valid(v, j, o)
          BY <2>8, <3>1, <3>3
        <4> QED BY <2>1, <4>1
      <3> QED BY <3>2, <3>3
    <2>9. ASSUME o \in odd[prev], ByteMap'[prev][o] # 1
          PROVE  \E u \in done \cup {t} : \E i \in DOMAIN allocatorlog'[u][prev] :
                   Valid(u, i, o)'
      <3>1. CASE ByteMap[prev][o] # 1
        <4>1. PICK u \in done : \E i \in DOMAIN allocatorlog[u][prev] : Valid(u, i, o)
          BY <2>1, <2>9, <3>1
        <4> QED BY <1>4, <1>9, <4>1
      <3>2. CASE ByteMap[prev][o] = 1
        <4>1. InLog(o, log)
          BY <1>8, <2>9, <3>2
        <4>2. PICK i \in DOMAIN log :
                log[i].obj = o /\ \A j \in 1 .. (i - 1) : log[j].obj # o
          BY <1>1, <4>1, FirstEntry
        <4>3. Valid(t, i, o)' /\ i \in DOMAIN allocatorlog'[t][prev]
          BY <1>5, <1>10, <3>2, <4>2 DEF new
        <4> QED BY <4>3
      <3> QED BY <3>1, <3>2
    <2> QED BY <2>6, <2>7, <2>8, <2>9
  <1> QED BY <1>2, <1>3, <1>11 DEF VisitedInv

LEMMA VisitedStep ==
  ASSUME TypeOK, EpochInv, OwnInv, ByteInv, EntryInv, VisitedInv, Next
  PROVE  VisitedInv'
  <1>1. prev \in 0..1 /\ cset \subseteq Threads
    BY Parities DEF TypeOK
  <1>2. MEE \in Phase /\ LP \in Phase /\ NHU \in Phase
    BY DEF Phase
  <1>3. CASE Quiet
    BY <1>3 DEF Quiet, VisitedInv, Valid, prev
  <1>4. ASSUME NEW t \in Threads, NEW o \in Objs, Operation(t, o) PROVE VisitedInv'
    <2>1. CASE cpc # "check"
      BY <1>4, <2>1 DEF Operation, VisitedInv
    <2>2. CASE cpc = "check"
      <3>1. prev' = prev /\ cpc' = cpc /\ cset' = cset
        BY <1>4 DEF Operation, prev
      <3>2. /\ \A x \in Objs : ByteMap'[prev][x] = ByteMap[prev][x]
            /\ \A x \in Objs : x \in odd'[prev] <=> x \in odd[prev]
            /\ \A u \in Threads : allocatorlog'[u][prev] = allocatorlog[u][prev]
        BY <1>4, <2>2, OperationsAreCurrent
      <3>3. \A u \in Threads : \A i, x : Valid(u, i, x)' <=> Valid(u, i, x)
        BY <3>1, <3>2 DEF Valid
      <3> QED BY <2>2, <3>1, <3>2, <3>3 DEF VisitedInv
    <2> QED BY <2>1, <2>2
  <1>5. ASSUME NEW t \in Threads, CheckValid(t) PROVE VisitedInv'
    BY <1>5, CheckVisited
  <1>6. ASSUME NEW t \in Threads, Checkpoint(t) PROVE VisitedInv'
    BY <1>6 DEF Checkpoint, VisitedInv
  <1>7. CASE Loop \/ Advance \/ StartHeapUpdate \/ EndCheckpoint
    BY <1>7 DEF Loop, Advance, StartHeapUpdate, EndCheckpoint, VisitedInv
  <1>8. ASSUME prev' \in 0..1, Open(prev'), cset' = Threads,
               UNCHANGED <<ByteMap, odd>>
        PROVE  VisitedInv'
    <2> HIDE DEF prev
    <2>1. \A o \in Objs : o \in odd[prev'] <=> ByteMap[prev'][o] = 1
      BY <1>8 DEF ByteInv
    <2> QED BY <1>8, <2>1 DEF VisitedInv
  <1>9. CASE Finalize
    <2>1. prev' = 1 - prev
      BY <1>2, <1>9, Successor DEF Finalize
    <2>2. prev' \in 0..1 /\ prev' # prev
      BY <1>1, <2>1, Swapped
    <2> HIDE DEF prev
    <2>3. Open(prev')
      BY <2>2 DEF Open
    <2> QED BY <1>8, <1>9, <2>2, <2>3 DEF Finalize, hvars
  <1>10. CASE StartLogPersistence
    <2>1. prev' = prev
      BY <1>2, <1>10, SamePhase DEF StartLogPersistence
    <2> HIDE DEF prev
    <2>2. Open(prev') /\ prev' \in 0..1
      BY <1>1, <1>10, <2>1 DEF Open, StartLogPersistence
    <2> QED BY <1>8, <1>10, <2>2 DEF StartLogPersistence, hvars
  <1> QED
    BY <1>3, <1>4, <1>5, <1>6, <1>7, <1>9, <1>10, Kinds

\* An entry is known by its two fields.
LEMMA EntryIs ==
  ASSUME NEW e \in Entry, NEW o
  PROVE  e = [obj |-> o, is_valid |-> TRUE] <=> e.obj = o /\ e.is_valid
  <1>1. e = [obj |-> e.obj, is_valid |-> e.is_valid] /\ e.is_valid \in BOOLEAN
    BY DEF Entry
  <1>2. e = [obj |-> o, is_valid |-> TRUE] => e.obj = o /\ e.is_valid
    OBVIOUS
  <1>3. e.is_valid => e.is_valid = TRUE
    BY <1>1
  <1> QED BY <1>1, <1>2, <1>3

-----------------------------------------------------------------------------
(***************************************************************************)
(* The theorems.                                                           *)
(***************************************************************************)
LEMMA AllocInit == Init => AllocInv
  <1> SUFFICES ASSUME Init PROVE AllocInv
    OBVIOUS
  <1>1. 0 \in Word /\ 2 \in Word
    BY EpochLimitAssumption DEF Word
  <1>2. <<>> \in Seq(Entry) /\ Len(<<>>) = 0 /\ DOMAIN <<>> = {}
    OBVIOUS
  <1>3. TypeOK
    <2>1. MaxEpoch \in Nat
      BY BoundsAssumption, EpochLimitAssumption
    <2>2. allocatorlog \in [Threads -> [0..1 -> Seq(Entry)]]
      BY <1>2 DEF Init
    <2>3. /\ GLOBAL_EPOCH \in Word /\ epoch \in [Threads -> Word]
          /\ pc \in [Threads -> {"idle", "tx", "malloc", "free"}]
          /\ obj \in [Threads -> Objs \cup {None}]
      BY <1>1 DEF Init
    <2>4. /\ ByteMap \in [0..1 -> [Objs -> -1 .. 1]]
          /\ born \in [Objs -> 0 .. MaxEpoch] /\ freed \in [Objs -> 0 .. MaxEpoch]
      BY <2>1 DEF Init
    <2>5. /\ dealloc_list \in [Threads -> [0..1 -> SUBSET Objs]]
          /\ odd \in [0..1 -> SUBSET Objs] /\ ByteMap_NVM \in [Objs -> BOOLEAN]
      BY DEF Init
    <2> QED BY <2>2, <2>3, <2>4, <2>5 DEF Init, TypeOK
  <1>4. Epoch(GLOBAL_EPOCH) = 2
    BY EpochOfSmall, EpochLimitAssumption DEF Init
  <1>5. EpochInv
    BY <1>4, BoundsAssumption, EpochLimitAssumption DEF Init, EpochInv
  <1>6. prev \in 0..1
    BY <1>3, <1>5, Parities
  <1>7. OwnInv
    BY DEF Init, OwnInv, Handling
  <1>8. FreedInv
    BY <1>4 DEF Init, FreedInv, NoReuseAcrossEpochs
  <1>9. \A p \in 0..1 : /\ \A o \in Objs : ByteMap[p][o] = 0
                        /\ \A t \in Threads : allocatorlog[t][p] = <<>>
                        /\ \A t \in Threads : dealloc_list[t][p] = {}
                        /\ odd[p] = {}
    BY DEF Init
  <1>10. cpc = "idle" /\ image = {} /\ \A t \in Threads : pc[t] = "idle"
    BY DEF Init
  <1>11. ByteInv /\ ClearInv /\ MetaInv
    BY <1>6, <1>9, <1>10 DEF ByteInv, ClearInv, MetaInv
  <1>12. EntryInv /\ VisitedInv
    BY <1>2, <1>9, <1>10 DEF EntryInv, VisitedInv
  <1>13. BoundInv
    BY <1>2, <1>9, <1>10, BoundsAssumption DEF BoundInv
  <1> QED BY <1>3, <1>5, <1>7, <1>8, <1>11, <1>12, <1>13 DEF AllocInv

LEMMA AllocStep == AllocInv /\ [Next]_vars => AllocInv'
  <1> SUFFICES ASSUME AllocInv, [Next]_vars PROVE AllocInv'
    OBVIOUS
  <1>1. CASE Next
    BY <1>1, TypeStep, EpochStep, OwnStep, FreedStep, ByteStep, ClearStep, MetaStep,
       EntryStep, BoundStep, VisitedStep DEF AllocInv
  <1>2. CASE UNCHANGED vars
    <2>1. /\ UNCHANGED <<GLOBAL_EPOCH, isPersisting, pc, epoch, obj, live, ByteMap,
                         allocatorlog, dealloc_list, ByteMap_NVM, cpc, cset, dealloc,
                         held, born, freed, odd, image>>
      BY <1>2 DEF vars, tvars, hvars
    <2>2. TypeOK' /\ EpochInv' /\ OwnInv' /\ FreedInv'
      BY <2>1 DEF AllocInv, TypeOK, EpochInv, OwnInv, Handling, FreedInv,
                  NoReuseAcrossEpochs
    <2>3. prev' = prev /\ \A p \in 0..1 : Open(p)' <=> Open(p)
      BY <2>1 DEF prev, Open
    <2>4. ByteInv' /\ ClearInv' /\ MetaInv'
      BY <2>1, <2>3 DEF AllocInv, ByteInv, ClearInv, MetaInv, InLog
    <2>5. EntryInv' /\ BoundInv' /\ VisitedInv'
      BY <2>1, <2>3 DEF AllocInv, EntryInv, BoundInv, Room, curr, VisitedInv, Valid
    <2> QED BY <2>2, <2>4, <2>5 DEF AllocInv
  <1> QED BY <1>1, <1>2

\* The inductive invariant holds in every state.
LEMMA AllocInductive == Spec => []AllocInv
  <1> QED BY AllocInit, AllocStep, PTL DEF Spec

(***************************************************************************)
(* Every variable keeps its type; in particular a byte is 0, 1 or -1.      *)
(***************************************************************************)
THEOREM TypeCorrect == Spec => []TypeOK
  <1>1. AllocInv => TypeOK
    BY DEF AllocInv
  <1> QED BY <1>1, AllocInductive, PTL

(***************************************************************************)
(* free_with_create_log and the deallocator together return an address at  *)
(* most once: no two calls and lists have the same object, and what they   *)
(* have is still handed out.                                               *)
(***************************************************************************)
THEOREM NothingIsFreedTwice == Spec => []NoDoubleFree
  <1>1. ASSUME AllocInv PROVE NoDoubleFree
    <2>1. OwnInv
      BY <1>1 DEF AllocInv
    <2>2. \A t \in Threads : \A o \in ToFree(t) :
            \/ \E p \in 0..1 : o \in dealloc_list[t][p]
            \/ Handling(t) /\ o = obj[t]
      BY DEF ToFree, Handling
    <2>3. \A t \in Threads : ToFree(t) \subseteq live \ held
      BY <2>1, <2>2 DEF OwnInv
    <2>4. \A t \in Threads :
            /\ dealloc_list[t][0] \cap dealloc_list[t][1] = {}
            /\ pc[t] = "free" => \A p \in 0..1 : obj[t] \notin dealloc_list[t][p]
      BY <2>1 DEF OwnInv, Handling
    <2>5. ASSUME NEW t \in Threads, NEW u \in Threads, t # u
          PROVE  ToFree(t) \cap ToFree(u) = {}
      <3>1. SUFFICES ASSUME NEW o \in ToFree(t), o \in ToFree(u) PROVE FALSE
        OBVIOUS
      <3>2. \/ \E p \in 0..1 : o \in dealloc_list[t][p]
            \/ Handling(t) /\ o = obj[t]
        BY <2>2
      <3>3. \/ \E p \in 0..1 : o \in dealloc_list[u][p]
            \/ Handling(u) /\ o = obj[u]
        BY <2>2, <3>1
      <3> QED BY <2>1, <2>5, <3>2, <3>3 DEF OwnInv
    <2> QED BY <2>3, <2>4, <2>5 DEF NoDoubleFree
  <1> QED BY <1>1, AllocInductive, PTL

(***************************************************************************)
(* A malloc never gets memory that a transaction of a later epoch has      *)
(* freed: the delay of free_with_create_log suffices.                      *)
(***************************************************************************)
THEOREM NothingIsReusedEarly == Spec => []NoReuseAcrossEpochs
  <1>1. AllocInv => NoReuseAcrossEpochs
    BY DEF AllocInv, FreedInv
  <1> QED BY <1>1, AllocInductive, PTL

(***************************************************************************)
(* The byte map, logs and delayed lists of an epoch are clear when the     *)
(* epoch after next begins to use them.                                    *)
(***************************************************************************)
THEOREM EpochStateIsRecycled == Spec => []EpochStateRecycled
  <1>1. AllocInv => EpochStateRecycled
    BY DEF AllocInv, ByteInv, ClearInv, EpochStateRecycled
  <1> QED BY <1>1, AllocInductive, PTL

(***************************************************************************)
(* Between checkpoints every object that was allocated when the previous   *)
(* epoch ended has a size in the NVM byte map.                             *)
(***************************************************************************)
THEOREM MetadataIsComplete == Spec => []MetadataComplete
  <1>1. AllocInv => MetadataComplete
    BY DEF AllocInv, MetaInv, MetadataComplete
  <1> QED BY <1>1, AllocInductive, PTL

(***************************************************************************)
(* When check_valid has visited all logs, an object has one valid entry in *)
(* them if the epoch has allocated or freed it on balance, and else none.  *)
(***************************************************************************)
THEOREM ValidEntriesAreChanges == Spec => []ValidIffChanged
  <1>1. ASSUME AllocInv PROVE ValidIffChanged
    <2>1. SUFFICES ASSUME cpc = "check", cset = {}, NEW o \in Objs
                   PROVE  Cardinality(ValidEntries(o)) = IF o \in odd[prev] THEN 1 ELSE 0
      BY DEF ValidIffChanged
    <2>2. TypeOK /\ EpochInv /\ ByteInv /\ BoundInv /\ VisitedInv
      BY <1>1 DEF AllocInv
    <2>3. prev \in 0..1
      BY <2>2, Parities
    <2>4. ByteMap[prev][o] # 1
      BY <2>1, <2>2 DEF ByteInv
    <2>5. \A t \in Threads : allocatorlog[t][prev] \in Seq(Entry)
      BY <2>2, <2>3 DEF TypeOK
    <2>6. \A t \in Threads : /\ Len(allocatorlog[t][prev]) <= MaxLog
                             /\ Len(allocatorlog[t][prev]) \in Nat
                             /\ DOMAIN allocatorlog[t][prev] = 1 .. Len(allocatorlog[t][prev])
      BY <2>2, <2>3, <2>5 DEF BoundInv
    <2>7. MaxLog \in Nat
      BY BoundsAssumption
    <2>8. \A t \in Threads : \A i \in DOMAIN allocatorlog[t][prev] : i \in 1 .. MaxLog
      BY <2>6, <2>7
    <2>9. ASSUME NEW t \in Threads, NEW i \in DOMAIN allocatorlog[t][prev]
          PROVE  allocatorlog[t][prev][i] = [obj |-> o, is_valid |-> TRUE] <=> Valid(t, i, o)
      <3>1. allocatorlog[t][prev][i] \in Entry
        BY <2>5, <2>9
      <3> QED BY <3>1, EntryIs DEF Valid
    <2>10. \A e \in ValidEntries(o) :
             /\ e[1] \in Threads /\ e[2] \in DOMAIN allocatorlog[e[1]][prev]
             /\ Valid(e[1], e[2], o) /\ e = <<e[1], e[2]>>
      BY <2>9 DEF ValidEntries
    <2>11. CASE o \in odd[prev]
      <3>1. PICK t \in Threads : \E i \in DOMAIN allocatorlog[t][prev] : Valid(t, i, o)
        BY <2>1, <2>2, <2>4, <2>11 DEF VisitedInv
      <3>2. PICK i \in DOMAIN allocatorlog[t][prev] : Valid(t, i, o)
        BY <3>1
      <3>3. i \in 1 .. MaxLog /\ allocatorlog[t][prev][i] = [obj |-> o, is_valid |-> TRUE]
        BY <2>8, <2>9, <3>2
      <3>4. <<t, i>> \in ValidEntries(o)
        BY <3>2, <3>3 DEF ValidEntries
      <3>5. \A e \in ValidEntries(o) : e[1] = t /\ e[2] = i
        BY <2>1, <2>2, <2>10, <3>2 DEF VisitedInv
      <3>6. \A e \in ValidEntries(o) : e = <<t, i>>
        BY <2>10, <3>5
      <3>7. ValidEntries(o) = {<<t, i>>}
        BY <3>4, <3>6
      <3> QED BY <2>11, <3>7, FS_Singleton
    <2>12. CASE o \notin odd[prev]
      <3>1. ValidEntries(o) = {}
        BY <2>1, <2>2, <2>10, <2>12 DEF VisitedInv
      <3> QED BY <2>12, <3>1, FS_EmptySet
    <2> QED BY <2>11, <2>12
  <1> QED BY <1>1, AllocInductive, PTL
=============================================================================
