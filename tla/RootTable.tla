------------------------------ MODULE RootTable ------------------------------
(***************************************************************************)
(* The root table (roottable_t.hpp): a hash table from names to addresses, *)
(* with a lock and a list of nodes in each bucket, that threads use inside *)
(* transactions through escort_set_root and escort_get_root.               *)
(* escort_remove_root is a call of get_root and has no effect.             *)
(*                                                                         *)
(* A list never has a second node: the only store to a node's next, in the *)
(* else branch of set(), comes after a use of curr, which is null there.   *)
(* That use is a fault and ends the process.  roottable_t::remove has no   *)
(* caller but userthreadctx_t::remove_root, which has none.                *)
(***************************************************************************)
EXTENDS Naturals

CONSTANTS
  Threads,
  Ids,      \* names of roots
  Addrs,    \* addresses of roots
  Nodes,    \* bound: nodes PNEW may allocate
  Null,
  hashfn    \* the bucket of each name, a sum of its characters: names may share one

ASSUME RootsAssumption ==
  /\ hashfn \in [Ids -> Nat]
  /\ Null \notin Ids \cup Addrs \cup Nodes \cup [id : Ids, addr : Addrs]

VARIABLES
  lock,     \* _lock of each bucket
  head,     \* head of each bucket
  node,     \* the nodes' contents
  pc, op, id, addr,   \* each thread's call and its arguments
  expected,           \* lock(): what compare_exchange_weak compares with
  curr,               \* the node the call is looking at
  fault,              \* a null pointer was followed
  \* history
  raced,    \* a thread took the lock of a bucket from one that was in set()
  roots,    \* the address each name was set to last
  window    \* the addresses the name had since the thread's call began

shared == <<lock, head, node, fault, raced, roots>>
args   == <<op, id, addr, window>>
local  == <<pc, args, expected, curr>>
vars   == <<shared, local>>

Buckets == {hashfn[i] : i \in Ids}
bucket(t) == hashfn[id[t]]
Goto(t, from, to) == ~fault /\ pc[t] = from /\ pc' = [pc EXCEPT ![t] = to]

(***************************************************************************)
(* A new table, or one recovered from NVM.  The lock shares the cache line *)
(* of the head, so a checkpoint taken while a thread of the next epoch     *)
(* holds the lock of a bucket in use saves it as taken.                    *)
(***************************************************************************)
Init ==
  /\ \/ head = [b \in Buckets |-> Null] /\ node = [n \in Nodes |-> Null]
     \/ \E i \in Ids, a \in Addrs, n \in Nodes :
          /\ head = [b \in Buckets |-> IF b = hashfn[i] THEN n ELSE Null]
          /\ node = [m \in Nodes |-> IF m = n THEN [id |-> i, addr |-> a] ELSE Null]
  /\ lock \in {f \in [Buckets -> BOOLEAN] : \A b \in Buckets : f[b] => head[b] # Null}
  /\ roots = [i \in Ids |-> IF /\ head[hashfn[i]] # Null
                               /\ node[head[hashfn[i]]].id = i
                            THEN node[head[hashfn[i]]].addr ELSE Null]
  /\ fault = FALSE /\ raced = FALSE
  /\ pc = [t \in Threads |-> "idle"] /\ op = [t \in Threads |-> "none"]
  /\ id = [t \in Threads |-> Null] /\ addr = [t \in Threads |-> Null]
  /\ expected = [t \in Threads |-> FALSE] /\ curr = [t \in Threads |-> Null]
  /\ window = [t \in Threads |-> {}]

-----------------------------------------------------------------------------
\* escort_set_root
CallSet(t, i, a) ==
  /\ Goto(t, "idle", "lock")
  /\ op' = [op EXCEPT ![t] = "set"]
  /\ id' = [id EXCEPT ![t] = i] /\ addr' = [addr EXCEPT ![t] = a]
  /\ expected' = [expected EXCEPT ![t] = FALSE]
  /\ UNCHANGED <<shared, curr, window>>

\* escort_get_root, and escort_remove_root, which calls get_root
CallGet(t, i) ==
  /\ Goto(t, "idle", "head")
  /\ op' = [op EXCEPT ![t] = "get"]
  /\ id' = [id EXCEPT ![t] = i]
  /\ window' = [window EXCEPT ![t] = {roots[i]}]
  /\ UNCHANGED <<shared, addr, expected, curr>>

\* A failed compare_exchange_weak stores what it has seen in expected.  Mutant:
\* expected is set to false again before the next attempt.
NextExpected_false(b) == FALSE
NextExpected(b) == lock[b]

\* The part of set() between lock() and unlock(), and the threads in it.
Locked == {"head", "scan", "new", "insert", "link", "unlock"}
InSet(u) == op[u] = "set" /\ pc[u] \in Locked

\* Bucket::lock: one compare_exchange_weak(expected, true)
Lock(t) ==
  /\ pc[t] = "lock"
  /\ LET b == bucket(t)
         taken == lock[b] = expected[t]
     IN /\ Goto(t, "lock", IF taken THEN "head" ELSE "lock")
        /\ lock' = [lock EXCEPT ![b] = @ \/ taken]
        /\ expected' = [expected EXCEPT ![t] = ~taken /\ NextExpected(b)]
        /\ raced' = \/ raced
                    \/ /\ taken /\ lock[b]
                       /\ \E u \in Threads \ {t} : InSet(u) /\ bucket(u) = b
  /\ UNCHANGED <<head, node, fault, roots, args, curr>>

\* set(), get(): Node* curr = bucket.head
LoadHead(t) ==
  /\ Goto(t, "head", "scan")
  /\ curr' = [curr EXCEPT ![t] = head[bucket(t)]]
  /\ UNCHANGED <<shared, args, expected>>

\* strcmp(curr->id, rootid) == 0.  Mutant: the comparison is negated.
Matches_not(t) == curr[t] # Null /\ node[curr[t]].id # id[t]
Matches(t) == curr[t] # Null /\ node[curr[t]].id = id[t]

\* The name has a new address: every call looking for it may return that one.
Publish(t) ==
  /\ roots' = [roots EXCEPT ![id[t]] = addr[t]]
  /\ window' = [u \in Threads |-> IF id[u] = id[t] THEN window[u] \cup {addr[t]}
                                                 ELSE window[u]]

\* The call is over, and its variables with it.
Return(t, from) ==
  /\ Goto(t, from, "idle")
  /\ op' = [op EXCEPT ![t] = "none"]
  /\ id' = [id EXCEPT ![t] = Null] /\ addr' = [addr EXCEPT ![t] = Null]
  /\ window' = [window EXCEPT ![t] = {}]
  /\ expected' = [expected EXCEPT ![t] = FALSE]
  /\ curr' = [curr EXCEPT ![t] = Null]

\* curr = curr->next, which is null, or set() at the end of the list
ScanOn(t) ==
  /\ pc[t] = "scan" /\ ~Matches(t)
  /\ Goto(t, "scan", IF curr[t] # Null THEN "scan" ELSE "new")
  /\ curr[t] # Null \/ op[t] = "set"
  /\ curr' = [curr EXCEPT ![t] = Null]
  /\ UNCHANGED <<shared, args, expected>>

\* get() has found the name, or is at the end of the list; what it returns.
AtAnswer(t) == pc[t] = "scan" /\ op[t] = "get" /\ (curr[t] = Null \/ Matches(t))
Answer(t) == IF Matches(t) THEN node[curr[t]].addr ELSE Null
GetReturn(t) == AtAnswer(t) /\ Return(t, "scan") /\ UNCHANGED shared

\* set() of a name that exists: curr->update(rootaddr)
Update(t) ==
  /\ Goto(t, "scan", "unlock") /\ op[t] = "set" /\ Matches(t)
  /\ node' = [node EXCEPT ![curr[t]].addr = addr[t]]
  /\ Publish(t)
  /\ UNCHANGED <<lock, head, fault, raced, op, id, addr, expected, curr>>

\* set(): PNEW(Node, rootid, rootaddr).  Mutant: the address is set after linking.
NewNode_blank(t) == [id |-> id[t], addr |-> Null]
NewNode(t) == [id |-> id[t], addr |-> addr[t]]
New(t, n) ==
  /\ Goto(t, "new", "insert") /\ node[n] = Null
  /\ node' = [node EXCEPT ![n] = NewNode(t)]
  /\ curr' = [curr EXCEPT ![t] = n]
  /\ UNCHANGED <<lock, head, fault, raced, roots, args, expected>>

\* set(): if(bucket.head == nullptr), with curr->next in the else branch
Insert(t) ==
  /\ pc[t] = "insert"
  /\ IF head[bucket(t)] = Null THEN Goto(t, "insert", "link") /\ UNCHANGED fault
                               ELSE Goto(t, "insert", "insert") /\ fault' = TRUE
  /\ UNCHANGED <<lock, head, node, raced, roots, args, expected, curr>>

\* set(): bucket.head = new_node
Link(t) ==
  /\ Goto(t, "link", "unlock")
  /\ head' = [head EXCEPT ![bucket(t)] = curr[t]]
  /\ Publish(t)
  /\ UNCHANGED <<lock, node, fault, raced, op, id, addr, expected, curr>>

\* Bucket::unlock: compare_exchange_weak(true, false)
Unlock(t) ==
  /\ Return(t, "unlock")
  /\ lock' = [lock EXCEPT ![bucket(t)] = FALSE]
  /\ UNCHANGED <<head, node, fault, raced, roots>>

Step(t) == \/ Lock(t) \/ LoadHead(t) \/ ScanOn(t) \/ Update(t)
           \/ (\E n \in Nodes : New(t, n)) \/ Insert(t) \/ Link(t) \/ Unlock(t)
           \/ GetReturn(t)

\* The process that has followed a null pointer is gone.
Ended == fault /\ UNCHANGED vars

Next ==
  \/ \E t \in Threads, i \in Ids : CallGet(t, i) \/ \E a \in Addrs : CallSet(t, i, a)
  \/ \E t \in Threads : Step(t)
  \/ Ended

Spec == Init /\ [][Next]_vars
\* A thread inside a call keeps running.
FairSpec == Spec /\ \A t \in Threads : WF_vars(Step(t))

-----------------------------------------------------------------------------
(***************************************************************************)
(* get() takes no lock.  What it returns was the name's address at some    *)
(* moment between call and return, never null or another name's address    *)
(* once a set has returned, with names that share buckets and any thread   *)
(* setting any name.  The exception is a table in which a lock that was    *)
(* held has been taken: a failed attempt leaves true in expected, and the  *)
(* next one compares the lock with that.                                   *)
(***************************************************************************)
GetReturnsRoot ==
  ~raced => \A t \in Threads : AtAnswer(t) => Answer(t) \in window[t]

(***************************************************************************)
(* The null pointer in the else branch of set() is followed by the set of  *)
(* a second name in a bucket, never by that of a name the bucket has, or   *)
(* of the first name of a bucket, unless a lock that was held was taken.   *)
(***************************************************************************)
Collides(t) == /\ pc[t] = "insert" /\ head[bucket(t)] # Null
               /\ node[head[bucket(t)]].id # id[t]
FaultIsCollision == fault /\ ~raced => \E t \in Threads : Collides(t)

(***************************************************************************)
(* Every call returns unless a null pointer ends the process or a set of   *)
(* another thread gets ahead of it in the bucket (the lock is not fair):   *)
(* no bucket is stuck, even one whose lock was saved as taken.             *)
(***************************************************************************)
CallsReturn ==
  \A t \in Threads : pc[t] # "idle" ~>
    \/ pc[t] = "idle" \/ fault
    \/ \E u \in Threads \ {t} : pc[u] = "unlock" /\ bucket(u) = bucket(t)
=============================================================================
