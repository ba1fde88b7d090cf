------------------------- MODULE ExecuteRightProofs -------------------------
(***************************************************************************)
(* Theorems about ExecuteRight, for any finite set of threads.             *)
(*                                                                         *)
(* One flag carries all of it: RightInv says that it has one owner, a user *)
(* thread or a checkpoint.  What its owner may touch follows: the array of *)
(* contexts, and user_num between its load and its store.                  *)
(***************************************************************************)
EXTENDS ExecuteRight, FiniteSetTheorems, TLAPS

UserPC == Waiting \cup Holding \cup {"new", "run", "done"}

\* Types, but for the bounds, which depend on the other parts
ShapeOK ==
  /\ execute_right \in BOOLEAN /\ isPersisting \in BOOLEAN
  /\ ctx_array \in Seq(Threads) /\ ctx_delete_array \subseteq Threads
  /\ user_num \in Int /\ num_wait_threads \in Int
  /\ pc \in [Threads -> UserPC]
  /\ reg \in [Threads -> 0 .. Cardinality(Threads)]
  /\ cpc \in Iterating \cup {"top", "spin", "wait", "ended"}
  /\ visit \in Nat /\ visit <= Len(ctx_array)
  /\ passed \in [Threads -> 0 .. 2]

\* The execute right has one owner, and finalize() runs when nobody can want it.
RightInv ==
  /\ \A t, u \in Threads : pc[t] \in Holding /\ pc[u] \in Holding => t = u
  /\ cpc = "checkpoint" => \A t \in Threads : pc[t] \notin Holding
  /\ execute_right <=> cpc = "checkpoint" \/ \E t \in Threads : pc[t] \in Holding
  /\ ~isPersisting => \A t \in Threads : pc[t] \in {"new", "run", "done"}
  /\ cpc \in {"finalize", "ended"} => ~isPersisting

\* num_wait_threads counts the threads between their announcement and withdrawal.
Waiters == {t \in Threads : pc[t] \in Waiting}
WaitInv == num_wait_threads = Cardinality(Waiters)

\* A thread that a checkpoint has overtaken keeps the next one from beginning.
PassInv ==
  \A t \in Threads : pc[t] \in Waiting /\ passed[t] # 0
    => passed[t] = 1 /\ cpc \in {"checkpoint", "wait"}

\* The array has every thread once that has pushed its context, and user_num is
\* one behind while a thread is about to add itself.
Counting == {t \in Threads : pc[t] \in {"load", "store"}}
ArrayInv ==
  /\ ToSet(ctx_array) = {t \in Threads : pc[t] \notin {"new", "spin", "push"}}
  /\ Cardinality(ToSet(ctx_array)) = Len(ctx_array)
  /\ ctx_delete_array \subseteq ToSet(ctx_array)
  /\ user_num = IF Counting = {} THEN Len(ctx_array) ELSE Len(ctx_array) - 1
  /\ \A t \in Threads : pc[t] = "store" => reg[t] = user_num

RightsInv == ShapeOK /\ RightInv /\ WaitInv /\ PassInv /\ ArrayInv

-----------------------------------------------------------------------------
LEMMA PCs ==
  /\ Waiting = {"spin", "push", "load", "store", "sub", "fspin", "fpush", "fsub"}
  /\ Holding = {"push", "load", "store", "sub", "fpush", "fsub", "release", "frelease"}
  /\ UserPC = {"spin", "push", "load", "store", "sub", "fspin", "fpush", "fsub",
               "release", "frelease", "new", "run", "done"}
  BY DEF Waiting, Holding, UserPC, Registering, Leaving

\* The elements of the array are finitely many threads.
LEMMA ArraySet ==
  ASSUME ctx_array \in Seq(Threads)
  PROVE  /\ ToSet(ctx_array) \subseteq Threads /\ IsFiniteSet(ToSet(ctx_array))
         /\ Cardinality(ToSet(ctx_array)) \in Nat
         /\ Cardinality(ToSet(ctx_array)) <= Cardinality(Threads)
         /\ Cardinality(Threads) \in Nat
  <1>1. ToSet(ctx_array) \subseteq Threads
    BY DEF ToSet
  <1> QED
    BY <1>1, ThreadsAssumption, FS_Subset, FS_CardinalityType

LEMMA ArrayAppend ==
  ASSUME ctx_array \in Seq(Threads), NEW t \in Threads, t \notin ToSet(ctx_array)
  PROVE  LET a == Append(ctx_array, t)
         IN  /\ a \in Seq(Threads) /\ Len(a) = Len(ctx_array) + 1
             /\ ToSet(a) = ToSet(ctx_array) \cup {t}
             /\ Cardinality(ToSet(a)) = Cardinality(ToSet(ctx_array)) + 1
  <1> DEFINE a == Append(ctx_array, t)
  <1>1. a \in Seq(Threads) /\ Len(a) = Len(ctx_array) + 1
    OBVIOUS
  <1>2. ToSet(a) = ToSet(ctx_array) \cup {t}
    BY DEF ToSet
  <1>3. Cardinality(ToSet(ctx_array) \cup {t}) = Cardinality(ToSet(ctx_array)) + 1
    BY ArraySet, FS_AddElement
  <1> QED BY <1>1, <1>2, <1>3

\* The bounds that TypeOK states follow from what is counted.
LEMMA Bounds ==
  ASSUME RightsInv
  PROVE  /\ Len(ctx_array) \in Nat /\ Len(ctx_array) <= Cardinality(Threads)
         /\ user_num \in 0 .. Cardinality(Threads)
         /\ num_wait_threads \in 0 .. Cardinality(Threads)
         /\ num_wait_threads = 0 <=> Waiters = {}
  <1>1. /\ Cardinality(ToSet(ctx_array)) <= Cardinality(Threads)
        /\ Cardinality(ToSet(ctx_array)) \in Nat /\ Cardinality(Threads) \in Nat
        /\ IsFiniteSet(ToSet(ctx_array))
    BY ArraySet DEF RightsInv, ShapeOK
  <1>2. Cardinality(ToSet(ctx_array)) = Len(ctx_array)
    BY DEF RightsInv, ArrayInv
  <1>3. Counting # {} => Len(ctx_array) # 0
    <2>1. Counting \subseteq ToSet(ctx_array)
      BY DEF RightsInv, ArrayInv, Counting
    <2> QED BY <1>1, <1>2, <2>1, FS_EmptySet
  <1>4. user_num \in 0 .. Cardinality(Threads)
    BY <1>1, <1>2, <1>3 DEF RightsInv, ArrayInv
  <1>5. /\ Cardinality(Waiters) \in Nat /\ Cardinality(Waiters) <= Cardinality(Threads)
        /\ IsFiniteSet(Waiters)
    BY ThreadsAssumption, FS_Subset, FS_CardinalityType DEF Waiters
  <1>6. Cardinality(Waiters) = 0 <=> Waiters = {}
    BY <1>5, FS_EmptySet
  <1> QED BY <1>1, <1>2, <1>4, <1>5, <1>6 DEF RightsInv, WaitInv

\* A thread that counts itself in or out changes the count by one.
LEMMA WaitersChange ==
  ASSUME ShapeOK, NEW t \in Threads
  PROVE  /\ Cardinality(Waiters) \in Nat
         /\ pc[t] \notin Waiting /\ Waiters' = Waiters \cup {t}
              => Cardinality(Waiters)' = Cardinality(Waiters) + 1
         /\ pc[t] \in Waiting /\ Waiters' = Waiters \ {t}
              => Cardinality(Waiters)' = Cardinality(Waiters) - 1
  <1>1. IsFiniteSet(Waiters)
    BY ThreadsAssumption, FS_Subset DEF Waiters
  <1>2. Cardinality(Waiters) \in Nat
    BY <1>1, FS_CardinalityType
  <1>3. t \in Waiters <=> pc[t] \in Waiting
    BY DEF Waiters
  <1>4. t \notin Waiters => Cardinality(Waiters \cup {t}) = Cardinality(Waiters) + 1
    BY <1>1, FS_AddElement
  <1>5. t \in Waiters => Cardinality(Waiters \ {t}) = Cardinality(Waiters) - 1
    BY <1>1, FS_RemoveElement
  <1> HIDE DEF Waiters
  <1> QED BY <1>2, <1>3, <1>4, <1>5

LEMMA RightsStep ==
  ASSUME RightsInv, [Next]_vars
  PROVE  RightsInv'
  <1>i. ShapeOK /\ RightInv /\ WaitInv /\ PassInv /\ ArrayInv
    BY DEF RightsInv
  <1>t. /\ pc \in [Threads -> UserPC] /\ passed \in [Threads -> 0 .. 2]
        /\ reg \in [Threads -> 0 .. Cardinality(Threads)]
        /\ ctx_array \in Seq(Threads) /\ Len(ctx_array) \in Nat
    BY <1>i DEF ShapeOK
  <1> USE PCs, <1>t DEF Goto, has_execute_right, release_execute_right, Iterating, CpVars
  <1>1. ASSUME NEW t \in Threads, Announce(t) PROVE RightsInv'
    <2>1. pc[t] \in {"new", "run"} /\ pc'[t] \in {"spin", "fspin"} /\ passed'[t] = 0
          /\ (pc[t] = "new" <=> pc'[t] = "spin") /\ isPersisting
      BY <1>1 DEF Announce
    <2>2. \A u \in Threads : u # t => pc'[u] = pc[u] /\ passed'[u] = passed[u]
      BY <1>1 DEF Announce
    <2>3. UNCHANGED <<execute_right, ctx_array, ctx_delete_array, user_num,
                      isPersisting, reg, cpc, visit>>
      BY <1>1 DEF Announce
    <2>4. Waiters' = Waiters \cup {t} /\ pc[t] \notin Waiting
      BY <2>1, <2>2 DEF Waiters
    <2>5. WaitInv'
      BY <1>1, <1>i, <2>4, WaitersChange DEF Announce, WaitInv
    <2>6. ShapeOK'
      <3>1. pc' \in [Threads -> UserPC] /\ passed' \in [Threads -> 0 .. 2]
        BY <1>1 DEF Announce
      <3> QED BY <1>1, <1>i, <2>3, <3>1 DEF Announce, ShapeOK
    <2>7. RightInv'
      BY <1>i, <2>1, <2>2, <2>3 DEF RightInv
    <2>8. PassInv'
      BY <1>i, <2>1, <2>2, <2>3 DEF PassInv
    <2>9. ArrayInv'
      <3>1. Counting' = Counting
        BY <2>1, <2>2 DEF Counting
      <3> QED BY <1>i, <2>1, <2>2, <2>3, <3>1 DEF ArrayInv
    <2> QED BY <2>5, <2>6, <2>7, <2>8, <2>9 DEF RightsInv
  <1>2. ASSUME NEW t \in Threads, Acquire(t) PROVE RightsInv'
    <2>1. \/ pc[t] = "spin" /\ pc'[t] = "push"
          \/ pc[t] = "fspin" /\ pc'[t] = "fpush"
      BY <1>2 DEF Acquire
    <2>2. \A u \in Threads : u # t => pc'[u] = pc[u]
      BY <1>2 DEF Acquire
    <2>3. /\ UNCHANGED <<num_wait_threads, ctx_array, ctx_delete_array, user_num,
                         isPersisting, reg, cpc, visit, passed>>
          /\ ~execute_right /\ execute_right'
      BY <1>2 DEF Acquire
    <2>4. Waiters' = Waiters /\ Counting' = Counting
      BY <2>1, <2>2 DEF Waiters, Counting
    <2>5. ShapeOK'
      <3>1. pc' \in [Threads -> UserPC] /\ execute_right' \in BOOLEAN
        BY <1>2 DEF Acquire
      <3> QED BY <1>i, <2>3, <3>1 DEF ShapeOK
    <2>6. RightInv'
      BY <1>i, <2>1, <2>2, <2>3 DEF RightInv
    <2>7. PassInv' /\ WaitInv'
      BY <1>i, <2>1, <2>2, <2>3, <2>4 DEF PassInv, WaitInv
    <2>8. ArrayInv'
      BY <1>i, <2>1, <2>2, <2>3, <2>4 DEF ArrayInv
    <2> QED BY <2>5, <2>6, <2>7, <2>8 DEF RightsInv
  <1>3. ASSUME NEW t \in Threads, PushBack(t) PROVE RightsInv'
    <2>1. pc[t] = "push" /\ pc'[t] = "load" /\ \A u \in Threads : u # t => pc'[u] = pc[u]
      BY <1>3 DEF PushBack
    <2>2. /\ UNCHANGED <<execute_right, num_wait_threads, ctx_delete_array, user_num,
                         isPersisting, reg, cpc, visit, passed>>
          /\ ctx_array' = Append(ctx_array, t)
      BY <1>3 DEF PushBack
    <2>3. t \notin ToSet(ctx_array)
      BY <1>i, <2>1 DEF ArrayInv
    <2>4. /\ ctx_array' \in Seq(Threads) /\ Len(ctx_array') = Len(ctx_array) + 1
          /\ ToSet(ctx_array') = ToSet(ctx_array) \cup {t}
          /\ Cardinality(ToSet(ctx_array')) = Cardinality(ToSet(ctx_array)) + 1
      BY <2>2, <2>3, ArrayAppend
    <2>5. \A u \in Threads : u # t => pc[u] \notin Holding
      BY <1>i, <2>1 DEF RightInv
    <2>6. Waiters' = Waiters /\ Counting = {} /\ Counting' = {t}
      BY <2>1, <2>5 DEF Waiters, Counting
    <2>7. ShapeOK'
      <3>1. pc' \in [Threads -> UserPC]
        BY <1>3 DEF PushBack
      <3> QED BY <1>i, <2>2, <2>4, <3>1 DEF ShapeOK
    <2>8. RightInv' /\ PassInv' /\ WaitInv'
      BY <1>i, <2>1, <2>2, <2>6 DEF RightInv, PassInv, WaitInv
    <2>9. ArrayInv'
      <3>1. ToSet(ctx_array') = {u \in Threads : pc'[u] \notin {"new", "spin", "push"}}
        BY <1>i, <2>1, <2>4 DEF ArrayInv
      <3>2. user_num' = Len(ctx_array') - 1
        BY <1>i, <2>2, <2>4, <2>6 DEF ArrayInv
      <3>3. \A u \in Threads : pc'[u] # "store"
        BY <2>1, <2>5
      <3> QED BY <1>i, <2>2, <2>4, <2>6, <3>1, <3>2, <3>3 DEF ArrayInv
    <2> QED BY <2>7, <2>8, <2>9 DEF RightsInv
  <1>4. ASSUME NEW t \in Threads, AddUserNumLoad(t) PROVE RightsInv'
    <2>1. pc[t] = "load" /\ pc'[t] = "store" /\ \A u \in Threads : u # t => pc'[u] = pc[u]
      BY <1>4 DEF AddUserNumLoad
    <2>2. /\ UNCHANGED <<execute_right, num_wait_threads, ctx_array, ctx_delete_array,
                         user_num, isPersisting, cpc, visit, passed>>
          /\ reg'[t] = user_num /\ \A u \in Threads : u # t => reg'[u] = reg[u]
      BY <1>4 DEF AddUserNumLoad
    <2>3. Waiters' = Waiters /\ Counting' = Counting
      BY <2>1 DEF Waiters, Counting
    <2>4. ShapeOK'
      <3>1. pc' \in [Threads -> UserPC] /\ reg' \in [Threads -> 0 .. Cardinality(Threads)]
        BY <1>4, Bounds DEF AddUserNumLoad
      <3> QED BY <1>i, <2>2, <3>1 DEF ShapeOK
    <2>5. RightInv' /\ PassInv' /\ WaitInv'
      BY <1>i, <2>1, <2>2, <2>3 DEF RightInv, PassInv, WaitInv
    <2>6. ArrayInv'
      BY <1>i, <2>1, <2>2, <2>3 DEF ArrayInv
    <2> QED BY <2>4, <2>5, <2>6 DEF RightsInv
  <1>5. ASSUME NEW t \in Threads, AddUserNumStore(t) PROVE RightsInv'
    <2>1. pc[t] = "store" /\ pc'[t] = "sub" /\ \A u \in Threads : u # t => pc'[u] = pc[u]
      BY <1>5 DEF AddUserNumStore
    <2>2. /\ UNCHANGED <<execute_right, num_wait_threads, ctx_array, ctx_delete_array,
                         isPersisting, reg, cpc, visit, passed>>
          /\ user_num' = reg[t] + 1 /\ reg[t] = user_num
      BY <1>5, <1>i DEF AddUserNumStore, ArrayInv
    <2>3. \A u \in Threads : u # t => pc[u] \notin Holding
      BY <1>i, <2>1 DEF RightInv
    <2>4. Waiters' = Waiters /\ Counting # {} /\ Counting' = {}
      BY <2>1, <2>3 DEF Waiters, Counting
    <2>5. ShapeOK'
      <3>1. pc' \in [Threads -> UserPC] /\ user_num' \in Int
        BY <1>5, <1>i, <2>2 DEF AddUserNumStore, ShapeOK
      <3> QED BY <1>i, <2>2, <3>1 DEF ShapeOK
    <2>6. RightInv' /\ PassInv' /\ WaitInv'
      BY <1>i, <2>1, <2>2, <2>4 DEF RightInv, PassInv, WaitInv
    <2>7. ArrayInv'
      <3>1. ToSet(ctx_array') = {u \in Threads : pc'[u] \notin {"new", "spin", "push"}}
        BY <1>i, <2>1, <2>2 DEF ArrayInv
      <3>2. user_num' = Len(ctx_array')
        BY <1>i, <2>2, <2>4 DEF ArrayInv
      <3>3. \A u \in Threads : pc'[u] # "store"
        BY <2>1, <2>3
      <3> QED BY <1>i, <2>2, <2>4, <3>1, <3>2, <3>3 DEF ArrayInv
    <2> QED BY <2>5, <2>6, <2>7 DEF RightsInv
  <1>6. ASSUME NEW t \in Threads, PushDeleted(t) PROVE RightsInv'
    <2>1. pc[t] = "fpush" /\ pc'[t] = "fsub" /\ \A u \in Threads : u # t => pc'[u] = pc[u]
      BY <1>6 DEF PushDeleted
    <2>2. /\ UNCHANGED <<execute_right, num_wait_threads, ctx_array, user_num,
                         isPersisting, reg, cpc, visit, passed>>
          /\ ctx_delete_array' = ctx_delete_array \cup {t}
      BY <1>6 DEF PushDeleted
    <2>3. Waiters' = Waiters /\ Counting' = Counting
      BY <2>1 DEF Waiters, Counting
    <2>4. ShapeOK'
      <3>1. pc' \in [Threads -> UserPC]
        BY <1>6 DEF PushDeleted
      <3> QED BY <1>i, <2>2, <3>1 DEF ShapeOK
    <2>5. RightInv' /\ PassInv' /\ WaitInv'
      BY <1>i, <2>1, <2>2, <2>3 DEF RightInv, PassInv, WaitInv
    <2>6. ArrayInv'
      BY <1>i, <2>1, <2>2, <2>3 DEF ArrayInv
    <2> QED BY <2>4, <2>5, <2>6 DEF RightsInv
  <1>7. ASSUME NEW t \in Threads, Withdraw(t) PROVE RightsInv'
    <2>1. /\ \/ pc[t] = "sub"  /\ pc'[t] = "release"
             \/ pc[t] = "fsub" /\ pc'[t] = "frelease"
          /\ \A u \in Threads : u # t => pc'[u] = pc[u]
      BY <1>7 DEF Withdraw
    <2>2. /\ UNCHANGED <<execute_right, ctx_array, ctx_delete_array, user_num,
                         isPersisting, reg, cpc, visit, passed>>
          /\ num_wait_threads' = num_wait_threads - 1
      BY <1>7 DEF Withdraw
    <2>3. Waiters' = Waiters \ {t} /\ pc[t] \in Waiting /\ Counting' = Counting
      BY <2>1 DEF Waiters, Counting
    <2>4. WaitInv'
      BY <1>i, <2>2, <2>3, WaitersChange DEF WaitInv
    <2>5. ShapeOK'
      <3>1. pc' \in [Threads -> UserPC]
        BY <1>7 DEF Withdraw
      <3> QED BY <1>i, <2>2, <3>1 DEF ShapeOK
    <2>6. RightInv' /\ PassInv'
      BY <1>i, <2>1, <2>2 DEF RightInv, PassInv
    <2>7. ArrayInv'
      BY <1>i, <2>1, <2>2, <2>3 DEF ArrayInv
    <2> QED BY <2>4, <2>5, <2>6, <2>7 DEF RightsInv
  <1>8. ASSUME NEW t \in Threads, Release(t) PROVE RightsInv'
    <2>1. /\ \/ pc[t] = "release"  /\ pc'[t] = "run"
             \/ pc[t] = "frelease" /\ pc'[t] = "done"
          /\ \A u \in Threads : u # t => pc'[u] = pc[u]
      BY <1>8 DEF Release
    <2>2. /\ UNCHANGED <<num_wait_threads, ctx_array, ctx_delete_array, user_num,
                         isPersisting, reg, cpc, visit, passed>>
          /\ execute_right' = FALSE
      BY <1>8 DEF Release
    <2>3. Waiters' = Waiters /\ Counting' = Counting
      BY <2>1 DEF Waiters, Counting
    <2>4. ShapeOK'
      <3>1. pc' \in [Threads -> UserPC]
        BY <1>8 DEF Release
      <3> QED BY <1>i, <2>2, <3>1 DEF ShapeOK
    <2>5. RightInv'
      BY <1>i, <2>1, <2>2 DEF RightInv
    <2>6. PassInv' /\ WaitInv' /\ ArrayInv'
      BY <1>i, <2>1, <2>2, <2>3 DEF PassInv, WaitInv, ArrayInv
    <2> QED BY <2>4, <2>5, <2>6 DEF RightsInv
  <1>9. ASSUME Stop PROVE RightsInv'
    <2>1. UNCHANGED <<Waiters, Counting>>
      BY <1>9 DEF Stop, Waiters, Counting
    <2> QED
      BY <1>9, <1>i, <2>1
         DEF Stop, RightsInv, ShapeOK, RightInv, WaitInv, PassInv, ArrayInv
  <1>10. ASSUME CpAcquire PROVE RightsInv'
    <2>1. /\ cpc = "spin" /\ cpc' = "checkpoint" /\ visit' = 0
          /\ ~execute_right /\ execute_right'
          /\ UNCHANGED <<num_wait_threads, ctx_array, ctx_delete_array, user_num,
                         isPersisting, pc, reg>>
      BY <1>10 DEF CpAcquire
    <2>2. UNCHANGED <<Waiters, Counting>>
      BY <2>1 DEF Waiters, Counting
    <2>3. \A t \in Threads :
            passed'[t] = IF pc[t] \in Waiting /\ passed[t] < 2 THEN passed[t] + 1
                                                              ELSE passed[t]
      BY <1>10 DEF CpAcquire
    <2>4. passed' \in [Threads -> 0 .. 2]
      BY <1>10 DEF CpAcquire
    <2>5. PassInv'
      BY <1>i, <2>1, <2>3 DEF PassInv
    <2>6. ShapeOK'
      BY <1>10, <1>i, <2>1, <2>4 DEF ShapeOK, CpAcquire
    <2> QED
      BY <1>i, <2>1, <2>2, <2>5, <2>6 DEF RightsInv, RightInv, WaitInv, ArrayInv
  <1>11. ASSUME StandBack PROVE RightsInv'
    <2>1. /\ cpc = "wait" /\ cpc' = "top" /\ num_wait_threads = 0
          /\ UNCHANGED <<num_wait_threads, ctx_array, ctx_delete_array, user_num,
                         isPersisting, pc, reg, execute_right, visit, passed>>
      BY <1>11 DEF StandBack, NoWaiters
    <2>2. UNCHANGED <<Waiters, Counting>> /\ Waiters = {}
      BY <2>1, Bounds DEF Waiters, Counting
    <2>3. PassInv'
      BY <2>1, <2>2 DEF PassInv, Waiters
    <2> QED
      BY <1>i, <2>1, <2>2, <2>3 DEF RightsInv, ShapeOK, RightInv, WaitInv, ArrayInv
  <1>12. ASSUME Top \/ Visit \/ CpRelease \/ FinalizeDone PROVE RightsInv'
    <2>1. UNCHANGED <<num_wait_threads, ctx_array, ctx_delete_array, user_num,
                      isPersisting, pc, reg, passed>>
      BY <1>12 DEF Top, Visit, CpRelease, FinalizeDone
    <2>2. UNCHANGED <<Waiters, Counting>>
      BY <2>1 DEF Waiters, Counting
    <2>3. ShapeOK'
      <3>1. /\ visit' \in Nat /\ visit' <= Len(ctx_array)
            /\ execute_right' \in BOOLEAN
            /\ cpc' \in Iterating \cup {"top", "spin", "wait", "ended"}
        <4>s. /\ visit \in Nat /\ visit <= Len(ctx_array) /\ execute_right \in BOOLEAN
              /\ cpc \in Iterating \cup {"top", "spin", "wait", "ended"}
          BY <1>i DEF ShapeOK
        <4>1. CASE Top
          BY <4>s, <4>1 DEF Top
        <4>2. CASE Visit
          BY <4>s, <4>2 DEF Visit
        <4>3. CASE CpRelease \/ FinalizeDone
          BY <4>s, <4>3 DEF CpRelease, FinalizeDone
        <4> QED BY <1>12, <4>1, <4>2, <4>3
      <3> QED BY <1>i, <2>1, <3>1 DEF ShapeOK
    <2>4. PassInv' /\ RightInv'
      BY <1>12, <1>i, <2>1 DEF PassInv, RightInv, Top, Visit, CpRelease, FinalizeDone
    <2> QED
      BY <1>i, <2>1, <2>2, <2>3, <2>4 DEF RightsInv, WaitInv, ArrayInv
  <1>13. ASSUME Ended \/ UNCHANGED vars PROVE RightsInv'
    <2>1. UNCHANGED vars /\ UNCHANGED <<Waiters, Counting>>
      BY <1>13 DEF Ended, vars, Waiters, Counting
    <2> QED
      BY <1>i, <2>1 DEF vars, RightsInv, ShapeOK, RightInv, WaitInv, PassInv, ArrayInv
  <1> QED
    BY <1>1, <1>2, <1>3, <1>4, <1>5, <1>6, <1>7, <1>8, <1>9, <1>10, <1>11, <1>12, <1>13
       DEF Next, User, Cp

LEMMA RightsInductive == Spec => []RightsInv
  <1>1. Init => RightsInv
    <2> SUFFICES ASSUME Init PROVE RightsInv
      OBVIOUS
    <2>1. Waiters = {} /\ Counting = {} /\ ToSet(ctx_array) = {}
      BY PCs DEF Init, Waiters, Counting, ToSet
    <2>2. Cardinality(Threads) \in Nat /\ Cardinality({}) = 0
      BY ThreadsAssumption, FS_CardinalityType, FS_EmptySet
    <2>3. ShapeOK
      <3>1. ctx_array \in Seq(Threads) /\ Len(ctx_array) = 0
        BY DEF Init
      <3>2. pc \in [Threads -> UserPC] /\ cpc \in Iterating \cup {"top", "spin", "wait", "ended"}
        BY PCs DEF Init
      <3>3. reg \in [Threads -> 0 .. Cardinality(Threads)] /\ passed \in [Threads -> 0 .. 2]
        BY <2>2 DEF Init
      <3>4. /\ execute_right \in BOOLEAN /\ isPersisting \in BOOLEAN
            /\ user_num = 0 /\ num_wait_threads = 0 /\ visit = 0 /\ ctx_delete_array = {}
        BY DEF Init
      <3> QED BY <3>1, <3>2, <3>3, <3>4 DEF ShapeOK
    <2>4. RightInv /\ WaitInv /\ PassInv
      BY <2>1, <2>2, PCs DEF Init, RightInv, WaitInv, PassInv
    <2>5. ArrayInv
      <3>1. Len(ctx_array) = 0 /\ user_num = 0 /\ ctx_delete_array = {}
        BY DEF Init
      <3>2. \A t \in Threads : pc[t] = "new"
        BY DEF Init
      <3> QED BY <2>1, <2>2, <3>1, <3>2 DEF ArrayInv
    <2> QED BY <2>3, <2>4, <2>5 DEF RightsInv
  <1>2. RightsInv /\ [Next]_vars => RightsInv'
    BY RightsStep
  <1> QED BY <1>1, <1>2, PTL DEF Spec

-----------------------------------------------------------------------------
\* Every variable keeps its type; no count leaves the range of the threads.
THEOREM TypeCorrect == Spec => []TypeOK
  <1>1. ASSUME RightsInv PROVE TypeOK
    <2>1. /\ Len(ctx_array) \in Nat /\ Len(ctx_array) <= Cardinality(Threads)
          /\ user_num \in 0 .. Cardinality(Threads)
          /\ num_wait_threads \in 0 .. Cardinality(Threads)
          /\ Cardinality(Threads) \in Nat
      BY <1>1, Bounds, ThreadsAssumption, FS_CardinalityType
    <2>2. visit \in 0 .. Cardinality(Threads)
      BY <1>1, <2>1 DEF RightsInv, ShapeOK
    <2> QED BY <1>1, <2>1, <2>2 DEF RightsInv, ShapeOK, TypeOK, UserPC
  <1> QED BY <1>1, RightsInductive, PTL

(***************************************************************************)
(* Whenever the execute right is free, user_num in NVM is the number of    *)
(* registered threads and each is in the array once, although add_user_num *)
(* is a load and a store that nothing but the right keeps apart.           *)
(***************************************************************************)
THEOREM RegisteredAreCounted == Spec => []UserNumCounts
  <1>1. ASSUME RightsInv PROVE UserNumCounts
    <2>1. ~execute_right => Counting = {}
      BY <1>1, PCs DEF RightsInv, RightInv, Counting
    <2> QED BY <1>1, <2>1 DEF RightsInv, ArrayInv, UserNumCounts
  <1> QED BY <1>1, RightsInductive, PTL

(***************************************************************************)
(* num_wait_threads makes the checkpointing thread stand back in time: at  *)
(* most one checkpoint begins ahead of a thread that waits for the right.  *)
(***************************************************************************)
THEOREM OneCheckpointPasses == Spec => []AtMostOneCheckpointPasses
  <1>1. RightsInv => AtMostOneCheckpointPasses
    BY DEF RightsInv, ShapeOK, PassInv, AtMostOneCheckpointPasses
  <1> QED BY <1>1, RightsInductive, PTL

(***************************************************************************)
(* No std::vector is resized under the checkpointing thread's iterators:   *)
(* checkpoint() owns the execute right, and when finalize() iterates no    *)
(* thread is left that could register.                                     *)
(***************************************************************************)
THEOREM IterationsAreUndisturbed == Spec => NoResizeWhileIterating
  <1>1. ASSUME RightsInv, [Next]_vars
        PROVE  [(cpc \in Iterating) => UNCHANGED ctx_array]_vars
    <2> SUFFICES ASSUME Next, cpc \in Iterating PROVE UNCHANGED ctx_array
      BY <1>1
    <2>1. ASSUME NEW t \in Threads, PushBack(t) PROVE FALSE
      BY <1>1, <2>1, PCs DEF PushBack, RightsInv, RightInv, Iterating
    <2> QED
      BY <2>1 DEF Next, Announce, User, Acquire, AddUserNumLoad, AddUserNumStore,
           PushDeleted, Withdraw, Release, Stop, Cp, Top, CpAcquire, Visit,
           CpRelease, StandBack, FinalizeDone, CpVars, Ended, vars
  <1> QED BY <1>1, RightsInductive, PTL DEF Spec, NoResizeWhileIterating
=============================================================================
