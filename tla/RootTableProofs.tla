-------------------------- MODULE RootTableProofs --------------------------
(***************************************************************************)
(* Proofs about RootTable, for any threads, names, addresses and nodes,    *)
(* names that share buckets, and any thread setting any name, as long as   *)
(* no thread has taken a lock that was held.  Until then one thread at a   *)
(* time is in set() of a bucket, the head of a bucket, once set, never     *)
(* changes, and the address in its node is the root of the node's name.    *)
(***************************************************************************)
EXTENDS RootTable, TLAPS

PCs == {"idle", "lock", "head", "scan", "new", "insert", "link", "unlock"}
Node == [id : Ids, addr : Addrs]

TypeInv ==
  /\ lock \in [Buckets -> BOOLEAN] /\ expected \in [Threads -> BOOLEAN]
  /\ head \in [Buckets -> Nodes \cup {Null}]
  /\ node \in [Nodes -> Node \cup {Null}]
  /\ pc \in [Threads -> PCs] /\ op \in [Threads -> {"none", "set", "get"}]
  /\ id \in [Threads -> Ids \cup {Null}] /\ addr \in [Threads -> Addrs \cup {Null}]
  /\ curr \in [Threads -> Nodes \cup {Null}]
  /\ roots \in [Ids -> Addrs \cup {Null}]
  /\ window \in [Threads -> SUBSET (Addrs \cup {Null})]
  /\ fault \in BOOLEAN

\* Node n has name i and its address is a; node n has a name other than i.
Holds(n, i, a) ==
  n \in Nodes /\ node[n] \in Node /\ node[n].id = i /\ node[n].addr = a
Other(n, i) == n \in Nodes /\ node[n] \in Node /\ node[n].id # i

\* What the bucket of a name says is its root.
HeadInv ==
  \A i \in Ids : LET h == head[hashfn[i]] IN
    \/ h # Null /\ Holds(h, i, roots[i])
    \/ (h = Null \/ Other(h, i)) /\ roots[i] = Null

\* What a call knows.
Setting(t) ==
  /\ id[t] \in Ids /\ addr[t] \in Addrs
  /\ pc[t] = "scan" => \/ curr[t] = head[bucket(t)]
                       \/ curr[t] = Null /\ Other(head[bucket(t)], id[t])
  /\ pc[t] \in {"new", "insert"} => \/ head[bucket(t)] = Null
                                    \/ Other(head[bucket(t)], id[t])
  /\ pc[t] = "link" => head[bucket(t)] = Null
  /\ pc[t] \in {"insert", "link"} => Holds(curr[t], id[t], addr[t])

Getting(t) ==
  /\ id[t] \in Ids /\ pc[t] \in {"head", "scan"}
  /\ roots[id[t]] \in window[t]
  /\ pc[t] = "scan" => \/ curr[t] = Null /\ Null \in window[t]
                       \/ curr[t] # Null /\ curr[t] = head[bucket(t)]

Call(t) ==
  /\ pc[t] = "idle" <=> op[t] = "none"
  /\ op[t] = "set" => Setting(t)
  /\ op[t] = "get" => Getting(t)

CallInv == \A t \in Threads : Call(t)

\* One thread at a time is in set() of a bucket, and has its lock.
Exclusive ==
  /\ \A t, u \in Threads : InSet(t) /\ InSet(u) /\ bucket(t) = bucket(u) => t = u
  /\ \A t \in Threads : InSet(t) => lock[bucket(t)] = TRUE

FaultInv == fault => \E t \in Threads : Collides(t)

TableInv == TypeInv /\ HeadInv /\ CallInv /\ Exclusive /\ FaultInv
RootInv == raced \/ TableInv

-----------------------------------------------------------------------------
(***************************************************************************)
(* Calls that leave the table alone.                                       *)
(***************************************************************************)
LEMMA NullApart ==
  /\ Null \notin Nodes /\ Null \notin Addrs /\ Null \notin Ids /\ Null \notin Node
  /\ \A i \in Ids : hashfn[i] \in Buckets
  BY RootsAssumption DEF Node, Buckets

\* Goto moves one thread, in a process without a fault.
LEMMA Moves ==
  ASSUME TypeInv, NEW t \in Threads, NEW from \in PCs, NEW to \in PCs,
         Goto(t, from, to)
  PROVE  /\ ~fault /\ pc[t] = from /\ pc'[t] = to /\ pc' \in [Threads -> PCs]
         /\ \A u \in Threads : u # t => pc'[u] = pc[u]
  BY DEF TypeInv, Goto

\* A call that does not move is undisturbed if the table is not changed.
LEMMA CallStays ==
  ASSUME NEW u \in Threads, Call(u),
         pc'[u] = pc[u], op'[u] = op[u], id'[u] = id[u], addr'[u] = addr[u],
         curr'[u] = curr[u], window'[u] = window[u],
         head' = head, node' = node, roots' = roots
  PROVE  Call(u)'
  BY DEF Call, Setting, Getting, Holds, Other, bucket

\* A step of one thread that takes and releases no lock.
LEMMA LocksStay ==
  ASSUME TableInv, NEW t \in Threads, lock' = lock,
         \A u \in Threads : u # t => pc'[u] = pc[u] /\ op'[u] = op[u] /\ id'[u] = id[u],
         InSet(t)' => InSet(t) /\ id'[t] = id[t]
  PROVE  Exclusive'
  <1>1. \A u \in Threads : InSet(u)' => InSet(u) /\ bucket(u)' = bucket(u)
    <2> TAKE u \in Threads
    <2>1. CASE u = t
      BY <2>1 DEF bucket
    <2>2. CASE u # t
      BY <2>2 DEF InSet, bucket
    <2> QED BY <2>1, <2>2
  <1>2. \A u, v \in Threads : InSet(u) /\ InSet(v) /\ bucket(u) = bucket(v) => u = v
    BY DEF TableInv, Exclusive
  <1>3. \A u, v \in Threads :
          InSet(u)' /\ InSet(v)' /\ bucket(u)' = bucket(v)' => u = v
    BY <1>1, <1>2
  <1>4. \A u \in Threads : InSet(u)' => (lock[bucket(u)] = TRUE)'
    BY <1>1 DEF TableInv, Exclusive
  <1> QED BY <1>3, <1>4 DEF Exclusive

LEMMA LocalStep ==
  ASSUME TableInv, NEW t \in Threads, head' = head, node' = node, roots' = roots,
         \A u \in Threads : u # t =>
           /\ pc'[u] = pc[u] /\ op'[u] = op[u] /\ id'[u] = id[u]
           /\ addr'[u] = addr[u] /\ curr'[u] = curr[u] /\ window'[u] = window[u],
         TypeInv', Call(t)', Exclusive', FaultInv'
  PROVE  TableInv'
  <1>1. HeadInv'
    BY DEF TableInv, HeadInv, Holds, Other
  <1>2. ASSUME NEW u \in Threads, u # t PROVE Call(u)'
    <2>1. Call(u)
      BY DEF TableInv, CallInv
    <2> QED BY <1>2, <2>1, CallStays
  <1>3. CallInv'
    BY <1>2 DEF CallInv
  <1> QED BY <1>1, <1>3 DEF TableInv

LEMMA InitInv ==
  ASSUME Init PROVE TableInv
  <1>1. \/ head = [b \in Buckets |-> Null] /\ node = [n \in Nodes |-> Null]
        \/ \E i \in Ids, a \in Addrs, n \in Nodes :
             /\ head = [b \in Buckets |-> IF b = hashfn[i] THEN n ELSE Null]
             /\ node = [m \in Nodes |-> IF m = n THEN [id |-> i, addr |-> a] ELSE Null]
    BY DEF Init
  <1>2. roots = [i \in Ids |-> IF /\ head[hashfn[i]] # Null
                                  /\ node[head[hashfn[i]]].id = i
                               THEN node[head[hashfn[i]]].addr ELSE Null]
    BY DEF Init
  <1>3. CallInv /\ Exclusive /\ FaultInv
    <2>1. \A t \in Threads : pc[t] = "idle" /\ op[t] = "none" /\ ~fault
      BY DEF Init
    <2> QED BY <2>1 DEF CallInv, Call, Exclusive, InSet, FaultInv, Init
  <1>4. lock \in [Buckets -> BOOLEAN]
    BY DEF Init
  <1>5. CASE /\ head = [b \in Buckets |-> Null] /\ node = [n \in Nodes |-> Null]
    <2>1. \A i \in Ids : head[hashfn[i]] = Null /\ roots[i] = Null
      BY <1>2, <1>5, NullApart
    <2>2. roots \in [Ids -> Addrs \cup {Null}]
      BY <1>2, <2>1
    <2>3. TypeInv
      BY <1>4, <1>5, <2>2 DEF Init, TypeInv, PCs
    <2> QED BY <1>3, <2>1, <2>3 DEF TableInv, HeadInv
  <1>6. ASSUME NEW i \in Ids, NEW a \in Addrs, NEW n \in Nodes,
               head = [b \in Buckets |-> IF b = hashfn[i] THEN n ELSE Null],
               node = [m \in Nodes |-> IF m = n THEN [id |-> i, addr |-> a] ELSE Null]
        PROVE  TableInv
    <2>1. [id |-> i, addr |-> a] \in Node
      BY DEF Node
    <2>2. \A j \in Ids : head[hashfn[j]] = IF hashfn[j] = hashfn[i] THEN n ELSE Null
      BY <1>6, NullApart
    <2>3. node[n] = [id |-> i, addr |-> a] /\ n # Null
      BY <1>6, NullApart
    <2>4. \A j \in Ids : roots[j] = IF j = i THEN a ELSE Null
      BY <1>2, <2>2, <2>3
    <2>5. HeadInv
      BY <2>1, <2>2, <2>3, <2>4 DEF HeadInv, Holds, Other
    <2>6. roots \in [Ids -> Addrs \cup {Null}]
      BY <1>2, <2>4
    <2>7. head \in [Buckets -> Nodes \cup {Null}] /\ node \in [Nodes -> Node \cup {Null}]
      BY <1>6, <2>1
    <2>8. TypeInv
      BY <1>4, <2>6, <2>7 DEF Init, TypeInv, PCs
    <2> QED BY <1>3, <2>5, <2>8 DEF TableInv
  <1> QED BY <1>1, <1>5, <1>6

LEMMA CallSetInv ==
  ASSUME TableInv, NEW t \in Threads, NEW i \in Ids, NEW a \in Addrs, CallSet(t, i, a)
  PROVE  TableInv'
  <1>1. TypeInv
    BY DEF TableInv
  <1>2. /\ ~fault /\ pc'[t] = "lock" /\ pc' \in [Threads -> PCs]
        /\ \A u \in Threads : u # t => pc'[u] = pc[u]
    BY <1>1, Moves DEF CallSet, PCs
  <1>3. /\ op' = [op EXCEPT ![t] = "set"] /\ expected' = [expected EXCEPT ![t] = FALSE]
        /\ id' = [id EXCEPT ![t] = i] /\ addr' = [addr EXCEPT ![t] = a]
        /\ head' = head /\ node' = node /\ roots' = roots /\ fault' = fault
        /\ curr' = curr /\ window' = window /\ lock' = lock
    BY DEF CallSet, shared
  <1>4. TypeInv'
    BY <1>1, <1>2, <1>3 DEF TypeInv
  <1>5. op'[t] = "set" /\ id'[t] = i /\ addr'[t] = a
    BY <1>1, <1>3 DEF TypeInv
  <1>6. Call(t)'
    BY <1>2, <1>3, <1>5 DEF Call, Setting
  <1>7. \A u \in Threads : u # t =>
           /\ pc'[u] = pc[u] /\ op'[u] = op[u] /\ id'[u] = id[u]
           /\ addr'[u] = addr[u] /\ curr'[u] = curr[u] /\ window'[u] = window[u]
    BY <1>1, <1>2, <1>3 DEF TypeInv
  <1>8. ~InSet(t)'
    BY <1>2 DEF InSet, Locked
  <1>9. Exclusive'
    BY <1>3, <1>7, <1>8, LocksStay
  <1>10. FaultInv'
    BY <1>2, <1>3 DEF FaultInv
  <1> QED BY <1>3, <1>4, <1>6, <1>7, <1>9, <1>10, LocalStep

LEMMA CallGetInv ==
  ASSUME TableInv, NEW t \in Threads, NEW i \in Ids, CallGet(t, i)
  PROVE  TableInv'
  <1>1. TypeInv
    BY DEF TableInv
  <1>2. /\ ~fault /\ pc'[t] = "head" /\ pc' \in [Threads -> PCs]
        /\ \A u \in Threads : u # t => pc'[u] = pc[u]
    BY <1>1, Moves DEF CallGet, PCs
  <1>3. /\ op' = [op EXCEPT ![t] = "get"] /\ id' = [id EXCEPT ![t] = i]
        /\ window' = [window EXCEPT ![t] = {roots[i]}]
        /\ head' = head /\ node' = node /\ roots' = roots /\ fault' = fault
        /\ curr' = curr /\ addr' = addr /\ lock' = lock /\ expected' = expected
    BY DEF CallGet, shared
  <1>4. TypeInv'
    <2>1. {roots[i]} \in SUBSET (Addrs \cup {Null})
      BY <1>1 DEF TypeInv
    <2> QED BY <1>1, <1>2, <1>3, <2>1 DEF TypeInv
  <1>5. op'[t] = "get" /\ id'[t] = i /\ window'[t] = {roots[i]}
    BY <1>1, <1>3 DEF TypeInv
  <1>6. Call(t)'
    BY <1>2, <1>3, <1>5 DEF Call, Getting
  <1>7. \A u \in Threads : u # t =>
           /\ pc'[u] = pc[u] /\ op'[u] = op[u] /\ id'[u] = id[u]
           /\ addr'[u] = addr[u] /\ curr'[u] = curr[u] /\ window'[u] = window[u]
    BY <1>1, <1>2, <1>3 DEF TypeInv
  <1>8. ~InSet(t)'
    BY <1>5 DEF InSet
  <1>9. Exclusive'
    BY <1>3, <1>7, <1>8, LocksStay
  <1>10. FaultInv'
    BY <1>2, <1>3 DEF FaultInv
  <1> QED BY <1>3, <1>4, <1>6, <1>7, <1>9, <1>10, LocalStep

\* One attempt to take the lock, successful or not, but not on a lock that is held.
LEMMA LockInv ==
  ASSUME TableInv, NEW t \in Threads, Lock(t), ~raced' PROVE TableInv'
  <1> DEFINE b == bucket(t)
             taken == lock[b] = expected[t]
  <1>1. TypeInv /\ Call(t)
    BY DEF TableInv, CallInv
  <1>2. /\ ~fault /\ pc[t] = "lock" /\ pc' \in [Threads -> PCs]
        /\ pc'[t] = IF taken THEN "head" ELSE "lock"
        /\ \A u \in Threads : u # t => pc'[u] = pc[u]
    <2>1. pc[t] = "lock" /\ Goto(t, "lock", IF taken THEN "head" ELSE "lock")
      BY DEF Lock
    <2> QED BY <1>1, <2>1, Moves DEF PCs
  <1>3. /\ op' = op /\ id' = id /\ window' = window /\ addr' = addr
        /\ head' = head /\ node' = node /\ roots' = roots /\ fault' = fault
        /\ curr' = curr /\ lock' = [lock EXCEPT ![b] = @ \/ taken]
        /\ expected' = [expected EXCEPT ![t] = ~taken /\ NextExpected(b)]
        /\ taken /\ lock[b] => ~\E u \in Threads \ {t} : InSet(u) /\ bucket(u) = b
    BY DEF Lock, args
  <1>4. op[t] = "set" /\ id[t] \in Ids /\ b \in Buckets
    BY <1>1, <1>2, NullApart DEF TypeInv, Call, Setting, Getting, bucket
  <1> HIDE DEF b, taken
  <1>5. TypeInv'
    <2>1. lock' \in [Buckets -> BOOLEAN]
      BY <1>1, <1>3, <1>4 DEF TypeInv
    <2>2. expected' \in [Threads -> BOOLEAN]
      BY <1>1, <1>3 DEF TypeInv
    <2> QED BY <1>1, <1>2, <1>3, <2>1, <2>2 DEF TypeInv
  <1>6. Call(t)'
    BY <1>1, <1>2, <1>3, <1>4 DEF Call, Setting
  <1>7. \A u \in Threads : bucket(u)' = bucket(u)
    BY <1>3 DEF bucket
  <1>8. \A u \in Threads : u # t => (InSet(u)' <=> InSet(u))
    BY <1>2, <1>3 DEF InSet
  <1>9. \A u \in Threads : InSet(u)' => lock'[bucket(u)] = TRUE
    <2> SUFFICES ASSUME NEW u \in Threads, InSet(u)' PROVE lock'[bucket(u)] = TRUE
      OBVIOUS
    <2>1. CASE u = t
      <3>1. taken
        BY <1>2, <2>1 DEF InSet, Locked
      <3> QED BY <1>1, <1>3, <1>4, <2>1, <3>1 DEF TypeInv, b
    <2>2. CASE u # t
      <3>1. InSet(u) /\ lock[bucket(u)] = TRUE
        BY <1>8, <2>2 DEF TableInv, Exclusive
      <3> QED BY <1>1, <1>3, <1>4, <3>1 DEF TypeInv
    <2> QED BY <2>1, <2>2
  <1>10. InSet(t)' => \A u \in Threads : InSet(u)' /\ bucket(u) = b => u = t
    <2> SUFFICES ASSUME InSet(t)', NEW u \in Threads, InSet(u)', bucket(u) = b, u # t
                 PROVE  FALSE
      OBVIOUS
    <2>1. taken
      BY <1>2 DEF InSet, Locked
    <2>2. InSet(u) /\ lock[bucket(u)] = TRUE
      BY <1>8 DEF TableInv, Exclusive
    <2> QED BY <1>3, <2>1, <2>2
  <1>11. Exclusive'
    <2>1. ASSUME NEW u \in Threads, NEW v \in Threads, InSet(u)', InSet(v)',
                 bucket(u)' = bucket(v)'
          PROVE  u = v
      <3>1. bucket(u) = bucket(v)
        BY <1>7, <2>1
      <3>2. CASE u = t \/ v = t
        BY <1>10, <2>1, <3>1, <3>2 DEF b
      <3>3. CASE u # t /\ v # t
        BY <1>8, <2>1, <3>1, <3>3 DEF TableInv, Exclusive
      <3> QED BY <3>2, <3>3
    <2>2. \A u \in Threads : InSet(u)' => (lock[bucket(u)] = TRUE)'
      BY <1>7, <1>9
    <2> QED BY <2>1, <2>2 DEF Exclusive
  <1>12. FaultInv'
    BY <1>2, <1>3 DEF FaultInv
  <1> QED BY <1>2, <1>3, <1>5, <1>6, <1>11, <1>12, LocalStep

LEMMA LoadHeadInv ==
  ASSUME TableInv, NEW t \in Threads, LoadHead(t) PROVE TableInv'
  <1>1. TypeInv /\ Call(t) /\ HeadInv
    BY DEF TableInv, CallInv
  <1>2. /\ ~fault /\ pc[t] = "head" /\ pc'[t] = "scan" /\ pc' \in [Threads -> PCs]
        /\ \A u \in Threads : u # t => pc'[u] = pc[u]
    BY <1>1, Moves DEF LoadHead, PCs
  <1>3. /\ op' = op /\ id' = id /\ window' = window /\ addr' = addr
        /\ head' = head /\ node' = node /\ roots' = roots /\ fault' = fault
        /\ lock' = lock /\ expected' = expected
        /\ curr' = [curr EXCEPT ![t] = head[bucket(t)]]
    BY DEF LoadHead, shared, args
  <1>4. op[t] \in {"set", "get"} /\ id[t] \in Ids
    BY <1>1, <1>2 DEF TypeInv, Call, Setting, Getting
  <1>5. bucket(t) \in Buckets /\ head[bucket(t)] \in Nodes \cup {Null}
    BY <1>1, <1>4, NullApart DEF TypeInv, bucket
  <1>6. TypeInv'
    BY <1>1, <1>2, <1>3, <1>5 DEF TypeInv
  <1>7. curr'[t] = head[bucket(t)] /\ bucket(t)' = bucket(t)
    BY <1>1, <1>3 DEF TypeInv, bucket
  <1>8. head[bucket(t)] = Null => roots[id[t]] = Null
    BY <1>1, <1>4, NullApart DEF HeadInv, Holds, bucket
  <1>9. Call(t)'
    BY <1>1, <1>2, <1>3, <1>7, <1>8 DEF Call, Setting, Getting
  <1>10. \A u \in Threads : u # t => curr'[u] = curr[u]
    BY <1>1, <1>3 DEF TypeInv
  <1>11. InSet(t)' => InSet(t) /\ id'[t] = id[t]
    BY <1>2, <1>3 DEF InSet, Locked
  <1>12. Exclusive'
    BY <1>2, <1>3, <1>11, LocksStay
  <1>13. FaultInv'
    BY <1>2, <1>3 DEF FaultInv
  <1> QED BY <1>2, <1>3, <1>6, <1>9, <1>10, <1>12, <1>13, LocalStep

\* A call that is at a node is at the head of its bucket, whose name is the call's
\* or another, which leaves the call's name without a root.
LEMMA AtHead ==
  ASSUME TableInv, NEW t \in Threads, pc[t] = "scan"
  PROVE  /\ op[t] \in {"set", "get"} /\ id[t] \in Ids
         /\ curr[t] # Null =>
              /\ curr[t] = head[bucket(t)] /\ curr[t] \in Nodes
              /\ node[curr[t]] \in Node
         /\ Matches(t) => node[curr[t]].addr = roots[id[t]]
         /\ curr[t] # Null /\ ~Matches(t) =>
              roots[id[t]] = Null /\ Other(head[bucket(t)], id[t])
         /\ op[t] = "set" /\ curr[t] = Null =>
              head[bucket(t)] = Null \/ Other(head[bucket(t)], id[t])
         /\ op[t] = "get" => roots[id[t]] \in window[t]
         /\ op[t] = "get" /\ curr[t] = Null => Null \in window[t]
  <1>1. TypeInv /\ Call(t) /\ HeadInv
    BY DEF TableInv, CallInv
  <1>2. op[t] \in {"set", "get"} /\ id[t] \in Ids
    BY <1>1 DEF TypeInv, Call, Setting, Getting
  <1>3. curr[t] # Null => curr[t] = head[bucket(t)]
    BY <1>1, <1>2 DEF Call, Setting, Getting
  <1>4. curr[t] # Null => \/ Holds(curr[t], id[t], roots[id[t]])
                          \/ Other(curr[t], id[t]) /\ roots[id[t]] = Null
    BY <1>1, <1>2, <1>3 DEF HeadInv, bucket
  <1>5. /\ op[t] = "set" /\ curr[t] = Null =>
             head[bucket(t)] = Null \/ Other(head[bucket(t)], id[t])
        /\ op[t] = "get" /\ curr[t] = Null => Null \in window[t]
        /\ op[t] = "get" => roots[id[t]] \in window[t]
    BY <1>1 DEF Call, Setting, Getting
  <1> QED BY <1>2, <1>3, <1>4, <1>5 DEF Holds, Other, Matches

LEMMA ScanOnInv ==
  ASSUME TableInv, NEW t \in Threads, ScanOn(t) PROVE TableInv'
  <1>1. TypeInv /\ Call(t)
    BY DEF TableInv, CallInv
  <1>2. pc[t] = "scan" /\ ~Matches(t) /\ (curr[t] # Null \/ op[t] = "set")
    BY DEF ScanOn
  <1>3. /\ ~fault /\ pc' \in [Threads -> PCs]
        /\ pc'[t] = IF curr[t] # Null THEN "scan" ELSE "new"
        /\ \A u \in Threads : u # t => pc'[u] = pc[u]
    <2>1. Goto(t, "scan", IF curr[t] # Null THEN "scan" ELSE "new")
      BY DEF ScanOn
    <2> QED BY <1>1, <2>1, Moves DEF PCs
  <1>4. /\ op' = op /\ id' = id /\ window' = window /\ addr' = addr
        /\ head' = head /\ node' = node /\ roots' = roots /\ fault' = fault
        /\ lock' = lock /\ expected' = expected
        /\ curr' = [curr EXCEPT ![t] = Null]
    BY DEF ScanOn, shared, args
  <1>5. TypeInv'
    BY <1>1, <1>3, <1>4 DEF TypeInv
  <1>6. /\ bucket(t)' = bucket(t) /\ curr'[t] = Null
        /\ \A u \in Threads : u # t => curr'[u] = curr[u]
    BY <1>1, <1>4 DEF TypeInv, bucket
  <1>7. Call(t)'
    <2>1. op[t] = "set" => Setting(t)'
      <3>1. ASSUME op[t] = "set"
            PROVE  \/ head[bucket(t)] = Null
                   \/ Other(head[bucket(t)], id[t])
        BY <1>2, <3>1, AtHead
      <3>2. curr[t] # Null => Other(head[bucket(t)], id[t])
        BY <1>2, AtHead
      <3>3. ASSUME NEW n, NEW i PROVE Other(n, i)' <=> Other(n, i)
        BY <1>4 DEF Other
      <3>4. ASSUME op[t] = "set"
            PROVE  /\ id[t] \in Ids /\ addr[t] \in Addrs
          BY <1>1, <3>4 DEF Call, Setting
      <3> QED BY <1>3, <1>4, <1>6, <3>1, <3>2, <3>3, <3>4 DEF Setting, Other
    <2>2. op[t] = "get" => Getting(t)'
      <3>1. op[t] = "get" => /\ curr[t] # Null /\ id[t] \in Ids
                             /\ roots[id[t]] \in window[t] /\ roots[id[t]] = Null
        BY <1>2, AtHead
      <3> QED BY <1>3, <1>4, <1>6, <3>1 DEF Getting
    <2>3. op[t] # "none" /\ pc'[t] # "idle"
      BY <1>2, <1>3, AtHead
    <2> QED BY <1>4, <2>1, <2>2, <2>3 DEF Call
  <1>8. InSet(t)' => InSet(t) /\ id'[t] = id[t]
    BY <1>2, <1>4 DEF InSet, Locked
  <1>9. Exclusive'
    BY <1>3, <1>4, <1>8, LocksStay
  <1>10. FaultInv'
    BY <1>3, <1>4 DEF FaultInv
  <1> QED BY <1>3, <1>4, <1>5, <1>6, <1>7, <1>9, <1>10, LocalStep

\* A call that returns leaves its thread as it was before its first call.
LEMMA ReturnCalls ==
  ASSUME TableInv, NEW t \in Threads, NEW from \in PCs, Return(t, from),
         head' = head, node' = node, roots' = roots, fault' = fault,
         lock' \in [Buckets -> BOOLEAN], Exclusive'
  PROVE  TableInv'
  <1>1. TypeInv
    BY DEF TableInv
  <1>2. /\ ~fault /\ pc'[t] = "idle" /\ pc' \in [Threads -> PCs]
        /\ \A u \in Threads : u # t => pc'[u] = pc[u]
    BY <1>1, Moves DEF Return, PCs
  <1>3. /\ op' = [op EXCEPT ![t] = "none"] /\ expected' = [expected EXCEPT ![t] = FALSE]
        /\ id' = [id EXCEPT ![t] = Null] /\ addr' = [addr EXCEPT ![t] = Null]
        /\ window' = [window EXCEPT ![t] = {}]
        /\ curr' = [curr EXCEPT ![t] = Null]
    BY DEF Return
  <1>4. TypeInv'
    BY <1>1, <1>2, <1>3 DEF TypeInv
  <1>5. Call(t)'
    BY <1>1, <1>2, <1>3 DEF Call, TypeInv
  <1>6. \A u \in Threads : u # t =>
           /\ pc'[u] = pc[u] /\ op'[u] = op[u] /\ id'[u] = id[u]
           /\ addr'[u] = addr[u] /\ curr'[u] = curr[u] /\ window'[u] = window[u]
    BY <1>1, <1>2, <1>3 DEF TypeInv
  <1>7. FaultInv'
    BY <1>2 DEF FaultInv
  <1> QED BY <1>4, <1>5, <1>6, <1>7, LocalStep

\* The thread that has returned, and the others.
LEMMA ReturnMoves ==
  ASSUME TableInv, NEW t \in Threads, NEW from \in PCs, Return(t, from)
  PROVE  /\ pc[t] = from /\ ~InSet(t)'
         /\ \A u \in Threads : u # t => pc'[u] = pc[u] /\ op'[u] = op[u] /\ id'[u] = id[u]
  <1>1. TypeInv
    BY DEF TableInv
  <1>2. pc[t] = from /\ pc'[t] = "idle" /\ \A u \in Threads : u # t => pc'[u] = pc[u]
    BY <1>1, Moves DEF Return, PCs
  <1>3. op' = [op EXCEPT ![t] = "none"] /\ id' = [id EXCEPT ![t] = Null]
    BY DEF Return
  <1> QED BY <1>1, <1>2, <1>3 DEF TypeInv, InSet, Locked

LEMMA GetReturnInv ==
  ASSUME TableInv, NEW t \in Threads, GetReturn(t) PROVE TableInv'
  <1>1. /\ Return(t, "scan") /\ head' = head /\ node' = node /\ roots' = roots
        /\ fault' = fault /\ lock' = lock
    BY DEF GetReturn, shared
  <1>2. Exclusive'
    BY <1>1, ReturnMoves, LocksStay DEF PCs
  <1>3. lock' \in [Buckets -> BOOLEAN]
    BY <1>1 DEF TableInv, TypeInv
  <1> QED BY <1>1, <1>2, <1>3, ReturnCalls DEF PCs

\* Nobody else is in set() of the bucket whose lock is released.
LEMMA UnlockInv ==
  ASSUME TableInv, NEW t \in Threads, Unlock(t) PROVE TableInv'
  <1> DEFINE b == bucket(t)
  <1>1. /\ Return(t, "unlock") /\ lock' = [lock EXCEPT ![b] = FALSE]
        /\ head' = head /\ node' = node /\ roots' = roots /\ fault' = fault
    BY DEF Unlock
  <1>2. TypeInv /\ Call(t) /\ lock' \in [Buckets -> BOOLEAN]
    BY <1>1 DEF TableInv, CallInv, TypeInv
  <1>3. /\ pc[t] = "unlock" /\ ~InSet(t)'
        /\ \A u \in Threads : u # t => pc'[u] = pc[u] /\ op'[u] = op[u] /\ id'[u] = id[u]
    BY <1>1, ReturnMoves DEF PCs
  <1>4. InSet(t)
    BY <1>2, <1>3 DEF Call, Getting, TypeInv, InSet, Locked
  <1>5. ASSUME NEW u \in Threads, InSet(u)'
        PROVE  u # t /\ InSet(u) /\ bucket(u)' = bucket(u) /\ bucket(u) # b
    <2>1. u # t
      BY <1>3, <1>5
    <2>2. InSet(u) /\ bucket(u)' = bucket(u)
      BY <1>3, <1>5, <2>1 DEF InSet, bucket
    <2> QED BY <1>4, <2>1, <2>2 DEF TableInv, Exclusive
  <1> HIDE DEF b
  <1>6. \A u, v \in Threads :
          InSet(u)' /\ InSet(v)' /\ bucket(u)' = bucket(v)' => u = v
    BY <1>5 DEF TableInv, Exclusive
  <1>7. ASSUME NEW u \in Threads, InSet(u)' PROVE (lock[bucket(u)] = TRUE)'
    <2>1. InSet(u) /\ bucket(u)' = bucket(u) /\ bucket(u) # b
      BY <1>5, <1>7
    <2>2. lock[bucket(u)] = TRUE
      BY <2>1 DEF TableInv, Exclusive
    <2>3. bucket(u) \in Buckets
      BY <2>1, NullApart DEF TableInv, CallInv, Call, Setting, InSet, bucket
    <2> QED BY <1>1, <1>2, <2>1, <2>2, <2>3 DEF TypeInv
  <1>8. Exclusive'
    BY <1>6, <1>7 DEF Exclusive
  <1> QED BY <1>1, <1>2, <1>8, ReturnCalls DEF PCs

\* A bucket that has a node by now has one of another name, and the call ends there.
LEMMA InsertInv ==
  ASSUME TableInv, NEW t \in Threads, Insert(t) PROVE TableInv'
  <1>1. TypeInv /\ Call(t)
    BY DEF TableInv, CallInv
  <1>2. pc[t] = "insert"
    BY DEF Insert
  <1>3. op[t] = "set" /\ Setting(t)
    BY <1>1, <1>2 DEF Call, Getting, TypeInv
  <1>4. /\ op' = op /\ id' = id /\ window' = window /\ addr' = addr
        /\ head' = head /\ node' = node /\ roots' = roots /\ curr' = curr
        /\ lock' = lock /\ expected' = expected
    BY DEF Insert, args
  <1>5. /\ pc'[t] = IF head[bucket(t)] = Null THEN "link" ELSE "insert"
        /\ fault' = (head[bucket(t)] # Null)
        /\ pc' \in [Threads -> PCs]
        /\ \A u \in Threads : u # t => pc'[u] = pc[u]
    <2>1. CASE head[bucket(t)] = Null
      <3>1. Goto(t, "insert", "link") /\ fault' = fault
        BY <2>1 DEF Insert
      <3>2. /\ ~fault /\ pc'[t] = "link" /\ pc' \in [Threads -> PCs]
            /\ \A u \in Threads : u # t => pc'[u] = pc[u]
        BY <1>1, <3>1, Moves DEF PCs
      <3> QED BY <1>1, <2>1, <3>1, <3>2 DEF TypeInv
    <2>2. CASE head[bucket(t)] # Null
      <3>1. Goto(t, "insert", "insert") /\ fault' = TRUE
        BY <2>2 DEF Insert
      <3> QED BY <1>1, <2>2, <3>1, Moves DEF PCs
    <2> QED BY <2>1, <2>2
  <1>6. TypeInv'
    BY <1>1, <1>4, <1>5 DEF TypeInv
  <1>7. Call(t)'
    BY <1>2, <1>3, <1>4, <1>5 DEF Call, Setting, Holds, Other, bucket
  <1>8. FaultInv'
    <2> SUFFICES ASSUME head[bucket(t)] # Null PROVE Collides(t)'
      BY <1>5 DEF FaultInv
    <2>1. Other(head[bucket(t)], id[t])
      BY <1>2, <1>3 DEF Setting
    <2> QED BY <1>4, <1>5, <2>1 DEF Collides, Other, bucket
  <1>9. InSet(t)' => InSet(t) /\ id'[t] = id[t]
    BY <1>2, <1>4 DEF InSet, Locked
  <1>10. Exclusive'
    BY <1>4, <1>5, <1>9, LocksStay
  <1> QED BY <1>4, <1>5, <1>6, <1>7, <1>8, <1>10, LocalStep

-----------------------------------------------------------------------------
(***************************************************************************)
(* Calls that change the table.                                            *)
(***************************************************************************)

\* While a thread is in set() of a bucket, other calls of set() wait for its lock.
LEMMA OthersWait ==
  ASSUME TableInv, NEW t \in Threads, NEW u \in Threads, u # t,
         InSet(t), op[u] = "set", bucket(u) = bucket(t)
  PROVE  pc[u] = "lock"
  <1>1. ~InSet(u)
    BY DEF TableInv, Exclusive
  <1>2. pc[u] \in PCs /\ pc[u] # "idle"
    BY DEF TableInv, TypeInv, CallInv, Call
  <1> QED BY <1>1, <1>2 DEF InSet, Locked, PCs

\* A node that PNEW returns is in no bucket and in no other thread's hands.
LEMMA NewInv ==
  ASSUME TableInv, NEW t \in Threads, NEW n \in Nodes, New(t, n) PROVE TableInv'
  <1>1. TypeInv /\ HeadInv /\ Call(t)
    BY DEF TableInv, CallInv
  <1>2. /\ ~fault /\ pc[t] = "new" /\ pc'[t] = "insert" /\ pc' \in [Threads -> PCs]
        /\ \A u \in Threads : u # t => pc'[u] = pc[u]
    BY <1>1, Moves DEF New, PCs
  <1>3. /\ node[n] = Null /\ node' = [node EXCEPT ![n] = NewNode(t)]
        /\ op' = op /\ id' = id /\ window' = window /\ addr' = addr
        /\ head' = head /\ roots' = roots /\ fault' = fault
        /\ lock' = lock /\ expected' = expected
        /\ curr' = [curr EXCEPT ![t] = n]
    BY DEF New, args
  <1>4. Setting(t) /\ op[t] = "set"
    BY <1>1, <1>2 DEF Call, Getting, TypeInv
  <1>5. NewNode(t) \in Node /\ NewNode(t).id = id[t] /\ NewNode(t).addr = addr[t]
    BY <1>4 DEF Setting, NewNode, Node
  <1>6. node'[n] = NewNode(t) /\ \A m \in Nodes : m # n => node'[m] = node[m]
    BY <1>1, <1>3 DEF TypeInv
  <1>7. curr'[t] = n /\ \A u \in Threads : u # t => curr'[u] = curr[u]
    BY <1>1, <1>3 DEF TypeInv
  <1>8. TypeInv'
    <2>1. node' \in [Nodes -> Node \cup {Null}]
      BY <1>1, <1>3, <1>5 DEF TypeInv
    <2> QED BY <1>1, <1>2, <1>3, <2>1 DEF TypeInv
  <1>9. ASSUME NEW m, NEW i, NEW a, Holds(m, i, a) PROVE Holds(m, i, a)'
    <2>1. m # n
      BY <1>3, <1>9, NullApart DEF Holds
    <2> QED BY <1>6, <1>9, <2>1 DEF Holds
  <1>9a. ASSUME NEW m, NEW i, Other(m, i)
         PROVE  m \in Nodes /\ node'[m] \in Node /\ node'[m].id # i
    <2>1. m # n
      BY <1>3, <1>9a, NullApart DEF Other
    <2> QED BY <1>6, <1>9a, <2>1 DEF Other
  <1>10. HeadInv'
    BY <1>1, <1>3, <1>9, <1>9a DEF HeadInv, Other
  <1>11. Call(t)'
    <2>1. bucket(t)' = bucket(t)
      BY <1>3 DEF bucket
    <2>2. \/ head[bucket(t)] = Null
          \/ Other(head[bucket(t)], id[t])'
      BY <1>2, <1>3, <1>4, <1>9a, <2>1 DEF Setting, Other
    <2>3. Holds(curr[t], id[t], addr[t])'
      BY <1>3, <1>5, <1>6, <1>7 DEF Holds
    <2> QED BY <1>2, <1>3, <1>4, <2>1, <2>2, <2>3 DEF Call, Setting, Other
  <1>12. ASSUME NEW u \in Threads, u # t PROVE Call(u)'
    <2>1. Call(u)
      BY DEF TableInv, CallInv
    <2>2. bucket(u)' = bucket(u) /\ pc'[u] = pc[u] /\ curr'[u] = curr[u]
      BY <1>2, <1>3, <1>7, <1>12 DEF bucket
    <2>3. Holds(curr[u], id[u], addr[u]) => Holds(curr[u], id[u], addr[u])'
      <3>1. ASSUME Holds(curr[u], id[u], addr[u])
            PROVE  /\ curr[u] \in Nodes /\ node'[curr[u]] \in Node
                   /\ node'[curr[u]].id = id[u] /\ node'[curr[u]].addr = addr[u]
        <4>1. curr[u] \in Nodes /\ curr[u] # n
          BY <1>3, <3>1, NullApart DEF Holds
        <4> QED BY <1>6, <3>1, <4>1 DEF Holds
      <3> QED BY <1>3, <2>2, <3>1 DEF Holds
    <2>4. op[u] = "set" => Setting(u)'
      <3>1. Other(head[bucket(u)], id[u]) => Other(head[bucket(u)], id[u])'
        BY <1>3, <1>9a, <2>2 DEF Other
      <3> QED BY <1>3, <2>1, <2>2, <2>3, <3>1 DEF Call, Setting, Other
    <2>5. op[u] = "get" => Getting(u)'
      BY <1>3, <2>1, <2>2 DEF Call, Getting
    <2> QED BY <1>3, <2>1, <2>2, <2>4, <2>5 DEF Call
  <1>13. InSet(t)' => InSet(t) /\ id'[t] = id[t]
    BY <1>2, <1>3 DEF InSet, Locked
  <1>14. Exclusive'
    BY <1>2, <1>3, <1>13, LocksStay
  <1>15. FaultInv'
    BY <1>2, <1>3 DEF FaultInv
  <1> QED BY <1>8, <1>10, <1>11, <1>12, <1>14, <1>15 DEF TableInv, CallInv

\* What publishing an address does to roots and to the calls that look for it.
LEMMA PublishEffect ==
  ASSUME TypeInv, NEW t \in Threads, Setting(t), Publish(t)
  PROVE  /\ roots' \in [Ids -> Addrs \cup {Null}]
         /\ window' \in [Threads -> SUBSET (Addrs \cup {Null})]
         /\ \A i \in Ids : roots'[i] = IF i = id[t] THEN addr[t] ELSE roots[i]
         /\ \A u \in Threads : /\ window[u] \subseteq window'[u]
                               /\ id[u] = id[t] => addr[t] \in window'[u]
  <1>1. id[t] \in Ids /\ addr[t] \in Addrs
    BY DEF Setting
  <1>2. roots' = [roots EXCEPT ![id[t]] = addr[t]]
    BY DEF Publish
  <1>3. window' = [u \in Threads |-> IF id[u] = id[t] THEN window[u] \cup {addr[t]}
                                                      ELSE window[u]]
    BY DEF Publish
  <1>4. \A u \in Threads : window[u] \in SUBSET (Addrs \cup {Null})
    BY DEF TypeInv
  <1> QED BY <1>1, <1>2, <1>3, <1>4 DEF TypeInv

\* A get that runs while an address is published may return it or an earlier one.
LEMMA GettingStays ==
  ASSUME TypeInv, NEW t \in Threads, Setting(t), Publish(t),
         NEW u \in Threads, Getting(u), id'[u] = id[u], pc'[u] = pc[u],
         curr'[u] = curr[u], id[u] \in Ids,
         head'[bucket(u)] = head[bucket(u)] \/ head[bucket(u)] = Null
  PROVE  Getting(u)'
  <1>1. /\ window[u] \subseteq window'[u]
        /\ id[u] = id[t] => addr[t] \in window'[u]
        /\ roots'[id[u]] = IF id[u] = id[t] THEN addr[t] ELSE roots[id[u]]
    BY PublishEffect
  <1>2. roots'[id[u]] \in window'[u]
    BY <1>1 DEF Getting
  <1>3. bucket(u)' = bucket(u)
    BY DEF bucket
  <1> QED BY <1>1, <1>2, <1>3 DEF Getting

LEMMA UpdateInv ==
  ASSUME TableInv, NEW t \in Threads, Update(t) PROVE TableInv'
  <1> DEFINE n == curr[t]
  <1>1. TypeInv /\ HeadInv /\ Call(t)
    BY DEF TableInv, CallInv
  <1>2. /\ ~fault /\ pc[t] = "scan" /\ pc'[t] = "unlock" /\ pc' \in [Threads -> PCs]
        /\ \A u \in Threads : u # t => pc'[u] = pc[u]
    BY <1>1, Moves DEF Update, PCs
  <1>3. /\ op[t] = "set" /\ Matches(t) /\ Publish(t)
        /\ node' = [node EXCEPT ![n].addr = addr[t]]
        /\ op' = op /\ id' = id /\ addr' = addr
        /\ head' = head /\ fault' = fault /\ curr' = curr
        /\ lock' = lock /\ expected' = expected
    BY DEF Update
  <1>4. Setting(t) /\ id[t] \in Ids /\ addr[t] \in Addrs
    BY <1>1, <1>3 DEF Call, Setting
  <1>5. n \in Nodes /\ n = head[bucket(t)] /\ node[n] \in Node /\ node[n].id = id[t]
    BY <1>2, <1>3, AtHead DEF Matches
  <1>6. /\ node'[n] \in Node /\ node'[n].id = id[t] /\ node'[n].addr = addr[t]
        /\ \A m \in Nodes : m # n => node'[m] = node[m]
    BY <1>1, <1>3, <1>4, <1>5 DEF TypeInv, Node
  <1>7. /\ roots' \in [Ids -> Addrs \cup {Null}]
        /\ window' \in [Threads -> SUBSET (Addrs \cup {Null})]
        /\ \A i \in Ids : roots'[i] = IF i = id[t] THEN addr[t] ELSE roots[i]
    BY <1>1, <1>3, <1>4, PublishEffect
  <1>8. TypeInv'
    <2>1. node' \in [Nodes -> Node \cup {Null}]
      <3>1. \A m \in Nodes : node'[m] \in Node \cup {Null}
        BY <1>1, <1>6 DEF TypeInv
      <3> QED BY <1>1, <1>3, <3>1 DEF TypeInv
    <2> QED BY <1>1, <1>2, <1>3, <1>7, <2>1 DEF TypeInv
  <1> HIDE DEF n
  <1>9. ASSUME NEW m, NEW i, NEW a, i # id[t], Holds(m, i, a)
        PROVE  /\ m \in Nodes /\ node'[m] \in Node
               /\ node'[m].id = i /\ node'[m].addr = a
    <2>1. m # n
      BY <1>5, <1>9 DEF Holds
    <2> QED BY <1>6, <1>9, <2>1 DEF Holds
  <1>9a. ASSUME NEW m, NEW i, Other(m, i)
         PROVE  m \in Nodes /\ node'[m] \in Node /\ node'[m].id # i
    <2>1. CASE m = n
      BY <1>5, <1>6, <1>9a, <2>1 DEF Other
    <2>2. CASE m # n
      BY <1>6, <1>9a, <2>2 DEF Other
    <2> QED BY <2>1, <2>2
  <1>10. HeadInv'
    <2> SUFFICES ASSUME NEW i \in Ids
                 PROVE  LET h == head[hashfn[i]] IN
                          \/ h # Null /\ /\ h \in Nodes /\ node'[h] \in Node
                                         /\ node'[h].id = i
                                         /\ node'[h].addr = roots'[i]
                          \/ /\ \/ h = Null
                                \/ h \in Nodes /\ node'[h] \in Node /\ node'[h].id # i
                             /\ roots'[i] = Null
      BY <1>3 DEF HeadInv, Holds, Other
    <2>1. CASE i = id[t]
      <3>1. head[hashfn[i]] = n /\ n # Null
        BY <1>5, <2>1, NullApart DEF bucket
      <3> QED BY <1>5, <1>6, <1>7, <2>1, <3>1
    <2>2. CASE i # id[t]
      <3>1. roots'[i] = roots[i]
        BY <1>7, <2>2
      <3>2. \/ head[hashfn[i]] # Null /\ Holds(head[hashfn[i]], i, roots[i])
            \/ /\ head[hashfn[i]] = Null \/ Other(head[hashfn[i]], i)
               /\ roots[i] = Null
        BY <1>1 DEF HeadInv
      <3> QED BY <1>9, <1>9a, <2>2, <3>1, <3>2
    <2> QED BY <2>1, <2>2
  <1>11. Call(t)'
    BY <1>2, <1>3, <1>4 DEF Call, Setting
  <1>12. ASSUME NEW u \in Threads, u # t PROVE Call(u)'
    <2>1. Call(u) /\ pc'[u] = pc[u] /\ bucket(u)' = bucket(u)
      BY <1>2, <1>3, <1>12 DEF TableInv, CallInv, bucket
    <2>2. ASSUME op[u] = "set" PROVE Setting(u)'
      <3>1. Setting(u)
        BY <2>1, <2>2 DEF Call
      <3>2. CASE bucket(u) = bucket(t)
        <4>1. InSet(t)
          BY <1>2, <1>3 DEF InSet, Locked
        <4>2. pc[u] = "lock"
          BY <1>12, <2>2, <3>2, <4>1, OthersWait
        <4> QED BY <1>3, <2>1, <3>1, <4>2 DEF Setting
      <3>3. CASE bucket(u) # bucket(t)
        <4>1. id[u] # id[t]
          BY <3>3 DEF bucket
        <4>2. Holds(curr[u], id[u], addr[u]) => Holds(curr[u], id[u], addr[u])'
          BY <1>3, <1>9, <4>1 DEF Holds
        <4>3. Other(head[bucket(u)], id[u]) => Other(head[bucket(u)], id[u])'
          BY <1>3, <1>9a, <2>1 DEF Other
        <4> QED BY <1>3, <2>1, <3>1, <4>2, <4>3 DEF Setting
      <3> QED BY <3>2, <3>3
    <2>3. ASSUME op[u] = "get" PROVE Getting(u)'
      <3>1. Getting(u) /\ id[u] \in Ids
        BY <2>1, <2>3 DEF Call, Getting
      <3> QED BY <1>1, <1>3, <1>4, <2>1, <3>1, GettingStays
    <2> QED BY <1>3, <2>1, <2>2, <2>3 DEF Call
  <1>13. InSet(t)' => InSet(t) /\ id'[t] = id[t]
    BY <1>2, <1>3 DEF InSet, Locked
  <1>14. Exclusive'
    BY <1>2, <1>3, <1>13, LocksStay
  <1>15. FaultInv'
    BY <1>2, <1>3 DEF FaultInv
  <1> QED BY <1>8, <1>10, <1>11, <1>12, <1>14, <1>15 DEF TableInv, CallInv

LEMMA LinkInv ==
  ASSUME TableInv, NEW t \in Threads, Link(t) PROVE TableInv'
  <1> DEFINE n == curr[t]
             b == bucket(t)
  <1>1. TypeInv /\ HeadInv /\ Call(t)
    BY DEF TableInv, CallInv
  <1>2. /\ ~fault /\ pc[t] = "link" /\ pc'[t] = "unlock" /\ pc' \in [Threads -> PCs]
        /\ \A u \in Threads : u # t => pc'[u] = pc[u]
    BY <1>1, Moves DEF Link, PCs
  <1>3. /\ Publish(t) /\ head' = [head EXCEPT ![b] = n]
        /\ op' = op /\ id' = id /\ addr' = addr
        /\ node' = node /\ fault' = fault /\ curr' = curr
        /\ lock' = lock /\ expected' = expected
    BY DEF Link
  <1>4. /\ op[t] = "set" /\ Setting(t) /\ id[t] \in Ids /\ addr[t] \in Addrs
        /\ head[b] = Null /\ Holds(n, id[t], addr[t])
    BY <1>1, <1>2 DEF Call, Setting, Getting, TypeInv
  <1>5. b = hashfn[id[t]] /\ b \in Buckets /\ n \in Nodes /\ n # Null
    BY <1>4, NullApart DEF bucket, Holds
  <1> HIDE DEF n, b
  <1>6. head'[b] = n /\ \A c \in Buckets : c # b => head'[c] = head[c]
    BY <1>1, <1>3, <1>5 DEF TypeInv
  <1>7. /\ roots' \in [Ids -> Addrs \cup {Null}]
        /\ window' \in [Threads -> SUBSET (Addrs \cup {Null})]
        /\ \A i \in Ids : roots'[i] = IF i = id[t] THEN addr[t] ELSE roots[i]
    BY <1>1, <1>3, <1>4, PublishEffect
  <1>8. TypeInv'
    BY <1>1, <1>2, <1>3, <1>5, <1>7 DEF TypeInv
  <1>9. /\ \A m, i, a : Holds(m, i, a) => Holds(m, i, a)'
        /\ \A m, i : Other(m, i) => Other(m, i)'
    BY <1>3 DEF Holds, Other
  <1>10. HeadInv'
    <2> SUFFICES ASSUME NEW i \in Ids
                 PROVE  LET h == head'[hashfn[i]] IN
                          \/ h # Null /\ Holds(h, i, roots'[i])
                          \/ (h = Null \/ Other(h, i)) /\ roots'[i] = Null
      BY <1>3 DEF HeadInv, Holds, Other
    <2>1. CASE i = id[t]
      BY <1>4, <1>5, <1>6, <1>7, <2>1
    <2>2. CASE i # id[t]
      <3>1. roots'[i] = roots[i]
        BY <1>7, <2>2
      <3>2. CASE hashfn[i] = b
        <4>1. roots[i] = Null
          BY <1>1, <1>4, <3>2, NullApart DEF HeadInv, Holds
        <4>2. head'[hashfn[i]] = n /\ Other(n, i)
          BY <1>4, <1>6, <2>2, <3>2 DEF Holds, Other
        <4> QED BY <3>1, <4>1, <4>2
      <3>3. CASE hashfn[i] # b
        <4>1. head'[hashfn[i]] = head[hashfn[i]]
          BY <1>6, <3>3, NullApart
        <4> QED BY <1>1, <3>1, <4>1 DEF HeadInv
      <3> QED BY <3>2, <3>3
    <2> QED BY <2>1, <2>2
  <1>11. Call(t)'
    BY <1>2, <1>3, <1>4 DEF Call, Setting
  <1>12. ASSUME NEW u \in Threads, u # t PROVE Call(u)'
    <2>1. Call(u) /\ pc'[u] = pc[u] /\ bucket(u)' = bucket(u)
      BY <1>2, <1>3, <1>12 DEF TableInv, CallInv, bucket
    <2>2. ASSUME op[u] = "set" PROVE Setting(u)'
      <3>1. Setting(u) /\ bucket(u) \in Buckets
        BY <2>1, <2>2, NullApart DEF Call, Setting, bucket
      <3>2. CASE bucket(u) = b
        <4>1. InSet(t)
          BY <1>2, <1>4 DEF InSet, Locked
        <4>2. pc[u] = "lock"
          BY <1>12, <2>2, <3>2, <4>1, OthersWait DEF b
        <4> QED BY <1>3, <2>1, <3>1, <4>2 DEF Setting
      <3>3. CASE bucket(u) # b
        <4>1. head'[bucket(u)] = head[bucket(u)]
          BY <1>6, <3>1, <3>3
        <4> QED BY <1>3, <2>1, <3>1, <4>1 DEF Setting, Holds, Other
      <3> QED BY <3>2, <3>3
    <2>3. ASSUME op[u] = "get" PROVE Getting(u)'
      <3>1. Getting(u) /\ id[u] \in Ids
        BY <2>1, <2>3 DEF Call, Getting
      <3>2. head'[bucket(u)] = head[bucket(u)] \/ head[bucket(u)] = Null
        BY <1>4, <1>6, <3>1, NullApart DEF bucket
      <3> QED BY <1>1, <1>3, <1>4, <2>1, <3>1, <3>2, GettingStays
    <2> QED BY <1>3, <2>1, <2>2, <2>3 DEF Call
  <1>13. InSet(t)' => InSet(t) /\ id'[t] = id[t]
    BY <1>2, <1>3 DEF InSet, Locked
  <1>14. Exclusive'
    BY <1>2, <1>3, <1>13, LocksStay
  <1>15. FaultInv'
    BY <1>2, <1>3 DEF FaultInv
  <1> QED BY <1>8, <1>10, <1>11, <1>12, <1>14, <1>15 DEF TableInv, CallInv

-----------------------------------------------------------------------------
LEMMA RootInvHolds == Spec => []RootInv
  <1>1. Init => RootInv
    BY InitInv DEF RootInv
  <1>2. RootInv /\ [Next]_vars => RootInv'
    <2> SUFFICES ASSUME RootInv, [Next]_vars, ~raced' PROVE TableInv'
      BY DEF RootInv
    <2>1. TableInv
      <3>1. raced => raced'
        <4>1. ASSUME NEW t \in Threads, Lock(t), raced PROVE raced'
          BY <4>1 DEF Lock
        <4>2. ASSUME NEW t \in Threads, Step(t), ~Lock(t) PROVE raced' = raced
          BY <4>2 DEF Step, LoadHead, ScanOn, Update, New, Insert, Link, Unlock,
                      GetReturn, shared
        <4> QED BY <4>1, <4>2 DEF Next, CallSet, CallGet, Ended, vars, shared
      <3> QED BY <3>1 DEF RootInv
    <2>2. ASSUME NEW t \in Threads, Step(t) PROVE TableInv'
      BY <2>1, <2>2, LockInv, LoadHeadInv, ScanOnInv, UpdateInv, NewInv, InsertInv,
         LinkInv, UnlockInv, GetReturnInv DEF Step
    <2>3. CASE UNCHANGED vars
      <3>1. /\ head' = head /\ node' = node /\ fault' = fault /\ roots' = roots
            /\ pc' = pc /\ op' = op /\ id' = id /\ addr' = addr /\ curr' = curr
            /\ window' = window /\ lock' = lock /\ expected' = expected
        BY <2>3 DEF vars, shared, local, args
      <3>2. TypeInv'
        BY <2>1, <3>1 DEF TableInv, TypeInv
      <3>3. HeadInv'
        BY <2>1, <3>1 DEF TableInv, HeadInv, Holds, Other
      <3>4. ASSUME NEW u \in Threads PROVE Call(u)'
        <4>1. Call(u)
          BY <2>1 DEF TableInv, CallInv
        <4> QED BY <3>1, <4>1, CallStays
      <3>5. Exclusive' /\ FaultInv'
        BY <2>1, <3>1 DEF TableInv, Exclusive, InSet, FaultInv, Collides, bucket
      <3> QED BY <3>2, <3>3, <3>4, <3>5 DEF TableInv, CallInv
    <2> QED BY <2>1, <2>2, <2>3, CallSetInv, CallGetInv DEF Next, Ended
  <1> QED BY <1>1, <1>2, PTL DEF Spec

(***************************************************************************)
(* roottable_t::get takes no lock, but what it returns was the address of  *)
(* the name at some moment of the call, unless a lock that was held has    *)
(* been taken.                                                             *)
(***************************************************************************)
THEOREM GetsReturnRoots == Spec => []GetReturnsRoot
  <1>1. RootInv => GetReturnsRoot
    <2> SUFFICES ASSUME TableInv, NEW t \in Threads, AtAnswer(t)
                 PROVE  Answer(t) \in window[t]
      BY DEF GetReturnsRoot, RootInv
    <2>1. pc[t] = "scan" /\ op[t] = "get" /\ (curr[t] = Null \/ Matches(t))
      BY DEF AtAnswer
    <2>2. CASE curr[t] = Null
      BY <2>1, <2>2, AtHead DEF Answer, Matches
    <2>3. CASE curr[t] # Null
      BY <2>1, <2>3, AtHead DEF Answer
    <2> QED BY <2>2, <2>3
  <1> QED BY <1>1, RootInvHolds, PTL

(***************************************************************************)
(* The null pointer in roottable_t::set is followed only by the set of a   *)
(* name whose bucket has a node of another name, unless a lock that was    *)
(* held has been taken.                                                    *)
(***************************************************************************)
THEOREM FaultsAreCollisions == Spec => []FaultIsCollision
  <1>1. RootInv => FaultIsCollision
    BY DEF RootInv, TableInv, FaultInv, FaultIsCollision
  <1> QED BY <1>1, RootInvHolds, PTL
=============================================================================
