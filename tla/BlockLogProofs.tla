--------------------------- MODULE BlockLogProofs ---------------------------
(***************************************************************************)
(* Proofs about BlockLog, for any logs, any number and size of blocks: a   *)
(* block has one owner at any time, whichever logs append and clear        *)
(* concurrently, it carries the stamp of the epoch that uses it, only the  *)
(* last block of a log has room left, and the blocks implement LogStore.   *)
(***************************************************************************)
EXTENDS BlockLog, WellFoundedInduction, TLAPS

PCs == {"idle", "first", "link", "append", "full", "relink", "last",
        "clear", "push", "popback"}

\* Where a user of a log is, what it has in its hands.
ShapeInv ==
  /\ free_block_list \in Seq(Blocks) /\ used_block_list \subseteq Blocks
  /\ stamp \in [Blocks -> 0 .. 2] /\ epoch \in [Logs -> 1 .. 2]
  /\ block_list \in [Logs -> Seq(Blocks)]
  /\ pc \in [Logs -> PCs] /\ got \in [Logs -> Blocks \cup {None}]
  /\ \A o \in Logs :
       /\ pc[o] \in {"link", "relink"} <=> got[o] # None
       /\ pc[o] \in {"append", "full", "relink", "last", "push", "popback"}
            => block_list[o] # <<>>

\* The blocks of a log, as a set
Linked(o) == ToSet(OwnBlocks(o))

(***************************************************************************)
(* OneOwner with unions and intersections unfolded, and that a block which *)
(* was taken from the pool is not yet in the list of its log.              *)
(***************************************************************************)
OwnerInv ==
  /\ \A b \in Blocks : b \in used_block_list <=> b \notin ToSet(free_block_list)
  /\ \A b \in Blocks : b \in used_block_list <=> \E o \in Logs : b \in Held(o)
  /\ \A o, q \in Logs, b \in Blocks : b \in Held(o) /\ b \in Held(q) => o = q
  /\ \A o \in Logs : got[o] \notin Linked(o)
  /\ IsInjective(free_block_list)
  /\ \A o \in Logs : IsInjective(block_list[o])

BlockInv == ShapeInv /\ OwnerInv /\ StampedAlike

-----------------------------------------------------------------------------
(***************************************************************************)
(* Lists as sets.                                                          *)
(***************************************************************************)

\* push_back adds an element to the set of a list.
LEMMA AppendSet ==
  ASSUME NEW S, NEW s \in Seq(S), NEW x \in S
  PROVE  /\ Append(s, x) \in Seq(S) /\ Append(s, x) # <<>>
         /\ ToSet(Append(s, x)) = ToSet(s) \cup {x}
         /\ IsInjective(s) /\ x \notin ToSet(s) => IsInjective(Append(s, x))
  <1> DEFINE t == Append(s, x)
             n == Len(s)
  <1>1. /\ n \in Nat /\ DOMAIN s = 1 .. n /\ DOMAIN t = 1 .. n + 1
        /\ \A i \in 1 .. n : t[i] = s[i]
        /\ t[n + 1] = x /\ t \in Seq(S) /\ t # <<>>
    OBVIOUS
  <1>2. \A i \in DOMAIN t : i \in DOMAIN s \/ i = n + 1
    BY <1>1
  <1>3. \A i \in DOMAIN s : i \in DOMAIN t /\ t[i] = s[i] /\ i # n + 1
    BY <1>1
  <1>4. n + 1 \in DOMAIN t
    BY <1>1
  <1> HIDE DEF t, n
  <1>5. ToSet(t) = ToSet(s) \cup {x}
    BY <1>1, <1>2, <1>3, <1>4 DEF ToSet
  <1>6. ASSUME IsInjective(s), x \notin ToSet(s) PROVE IsInjective(t)
    <2>1. \A i \in DOMAIN s : t[i] # x
      BY <1>3, <1>6 DEF ToSet
    <2> QED BY <1>1, <1>2, <1>3, <1>6, <2>1 DEF IsInjective
  <1> QED BY <1>1, <1>5, <1>6 DEF t

\* pop_back removes an element from the set of a list without repetitions.
LEMMA FrontSet ==
  ASSUME NEW S, NEW s \in Seq(S), s # <<>>, IsInjective(s)
  PROVE  /\ Front(s) \in Seq(S) /\ Last(s) \in S /\ Last(s) \in ToSet(s)
         /\ ToSet(Front(s)) = ToSet(s) \ {Last(s)}
         /\ IsInjective(Front(s))
  <1> DEFINE f == Front(s)
             n == Len(s)
  <1>1. n \in Nat /\ n > 0 /\ DOMAIN s = 1 .. n /\ \A i \in 1 .. n : s[i] \in S
    OBVIOUS
  <1>2. f = [i \in 1 .. n - 1 |-> s[i]]
    BY <1>1 DEF Front
  <1>3. f \in Seq(S)
    BY <1>1, <1>2
  <1>4. DOMAIN f = 1 .. n - 1 /\ \A i \in 1 .. n - 1 : f[i] = s[i]
    BY <1>2
  <1>5. \A i \in DOMAIN s : i \in DOMAIN f \/ i = n
    BY <1>1, <1>4
  <1>6. \A i \in DOMAIN f : i \in DOMAIN s /\ i # n /\ f[i] = s[i]
    BY <1>1, <1>4
  <1>7. n \in DOMAIN s /\ Last(s) = s[n] /\ Last(s) \in S
    BY <1>1 DEF Last
  <1> HIDE DEF f, n
  <1>8. ToSet(f) = ToSet(s) \ {Last(s)}
    BY <1>5, <1>6, <1>7 DEF ToSet, IsInjective
  <1>9. IsInjective(f)
    BY <1>6 DEF IsInjective
  <1>10. Last(s) \in ToSet(s)
    BY <1>7 DEF ToSet
  <1> QED BY <1>3, <1>7, <1>8, <1>9, <1>10 DEF f

-----------------------------------------------------------------------------
(***************************************************************************)
(* What a log holds changes only where its own user changes it.            *)
(***************************************************************************)

\* A log keeps its blocks if neither its lists nor its place in clear() change.
LEMMA SameBlocks ==
  ASSUME NEW q \in Logs, block_list'[q] = block_list[q], got'[q] = got[q],
         pc'[q] = "popback" <=> pc[q] = "popback"
  PROVE  Linked(q)' = Linked(q) /\ Held(q)' = Held(q)
  <1>1. OwnBlocks(q)' = OwnBlocks(q)
    BY DEF OwnBlocks
  <1> QED BY <1>1 DEF Linked, Held

\* None is not a block.
LEMMA HeldBlocks ==
  ASSUME BlockInv, NEW o \in Logs
  PROVE  /\ OwnBlocks(o) \in Seq(Blocks) /\ IsInjective(OwnBlocks(o))
         /\ Linked(o) \subseteq Blocks /\ Held(o) \subseteq Blocks
         /\ \A b \in Blocks : b \in Held(o) <=> b \in Linked(o) \/ b = got[o]
  <1>1. /\ block_list[o] \in Seq(Blocks) /\ IsInjective(block_list[o])
        /\ pc[o] = "popback" => block_list[o] # <<>>
        /\ got[o] \in Blocks \cup {None}
    BY DEF BlockInv, ShapeInv, OwnerInv
  <1>2. OwnBlocks(o) \in Seq(Blocks) /\ IsInjective(OwnBlocks(o))
    <2>1. CASE pc[o] = "popback"
      BY <1>1, <2>1, FrontSet DEF OwnBlocks
    <2>2. CASE pc[o] # "popback"
      BY <1>1, <2>2 DEF OwnBlocks
    <2> QED BY <2>1, <2>2
  <1>3. Linked(o) \subseteq Blocks
    BY <1>2 DEF Linked, ToSet
  <1>4. None \notin Blocks
    BY BlocksAssumption DEF Blocks
  <1>5. Held(o) = Linked(o) \cup ({got[o]} \ {None})
    BY DEF Held, Linked
  <1> QED BY <1>1, <1>2, <1>3, <1>4, <1>5

(***************************************************************************)
(* The steps that move no block: they leave the pool, the lists and the    *)
(* stamps alone.                                                           *)
(***************************************************************************)
LEMMA NothingMoves ==
  ASSUME BlockInv, ShapeInv', UNCHANGED <<pool, stamp, block_list, got>>,
         \A q \in Logs : pc'[q] = "popback" <=> pc[q] = "popback",
         \A q \in Logs : epoch'[q] = epoch[q] \/ Linked(q) = {}
  PROVE  BlockInv'
  <1>1. \A q \in Logs : Linked(q)' = Linked(q) /\ Held(q)' = Held(q)
    <2> SUFFICES ASSUME NEW q \in Logs
                 PROVE  Linked(q)' = Linked(q) /\ Held(q)' = Held(q)
      OBVIOUS
    <2> QED BY SameBlocks
  <1>2. OwnerInv'
    <2>0. /\ used_block_list' = used_block_list
          /\ free_block_list' = free_block_list
          /\ got' = got /\ block_list' = block_list
      BY DEF pool
    <2> QED BY <1>1, <2>0 DEF BlockInv, OwnerInv
  <1>3. StampedAlike'
    <2> SUFFICES ASSUME NEW o \in Logs, NEW b \in Linked(o)'
                 PROVE  stamp'[b] = epoch'[o]
      BY DEF StampedAlike, Linked
    <2>1. b \in Linked(o) /\ epoch'[o] = epoch[o] /\ stamp' = stamp
      BY <1>1
    <2> QED BY <2>1 DEF BlockInv, StampedAlike, Linked
  <1> QED BY <1>2, <1>3 DEF BlockInv

\* Moving the user of one log to another place in the code.
LEMMA MovesOn ==
  ASSUME ShapeInv, NEW o \in Logs, NEW l, Goto(o, l)
  PROVE  pc'[o] = l /\ \A q \in Logs : q # o => pc'[q] = pc[q]
  BY DEF ShapeInv, Goto

LEMMA QuietStep ==
  ASSUME BlockInv, NEW o \in Logs, NEW l \in PCs, Goto(o, l),
         pc[o] # "popback", l # "popback",
         pc[o] \notin {"link", "relink"}, l \notin {"link", "relink"},
         l \in {"append", "full", "last", "push"} => block_list[o] # <<>>,
         UNCHANGED <<pool, stamp, block_list, got, epoch>>
  PROVE  BlockInv'
  <1>1. pc'[o] = l /\ \A q \in Logs : q # o => pc'[q] = pc[q]
    BY MovesOn DEF BlockInv
  <1>2. ShapeInv'
    <2>1. pc' \in [Logs -> PCs]
      BY DEF BlockInv, ShapeInv, Goto
    <2>2. \A q \in Logs :
            /\ pc'[q] \in {"link", "relink"} <=> got'[q] # None
            /\ pc'[q] \in {"append", "full", "relink", "last", "push", "popback"}
                 => block_list'[q] # <<>>
      BY <1>1 DEF BlockInv, ShapeInv
    <2> QED BY <2>1, <2>2 DEF BlockInv, ShapeInv, pool
  <1> QED BY <1>1, <1>2, NothingMoves

-----------------------------------------------------------------------------
(***************************************************************************)
(* The actions, one by one.                                                *)
(***************************************************************************)
LEMMA InitInv ==
  ASSUME Init PROVE BlockInv
  <1>1. ShapeInv
    <2>1. free_block_list \in Seq(Blocks)
      BY BlocksAssumption DEF Init, Blocks
    <2> QED BY <2>1 DEF Init, ShapeInv, PCs, Blocks
  <1>2. \A o \in Logs : OwnBlocks(o) = <<>> /\ Linked(o) = {} /\ Held(o) = {}
    <2> SUFFICES ASSUME NEW o \in Logs
                 PROVE OwnBlocks(o) = <<>> /\ Linked(o) = {} /\ Held(o) = {}
      OBVIOUS
    <2>1. OwnBlocks(o) = <<>>
      BY DEF Init, OwnBlocks
    <2>2. ToSet(<<>>) = {}
      BY DEF ToSet
    <2>3. got[o] = None
      BY DEF Init
    <2> QED BY <2>1, <2>2, <2>3 DEF Linked, Held
  <1>3. ToSet(free_block_list) = Blocks /\ IsInjective(free_block_list)
    BY DEF Init, ToSet, IsInjective
  <1>4. \A o \in Logs : IsInjective(block_list[o])
    BY DEF Init, IsInjective
  <1>5. OwnerInv
    BY <1>2, <1>3, <1>4 DEF OwnerInv, Init
  <1>6. StampedAlike
    BY <1>2 DEF StampedAlike, Linked
  <1> QED BY <1>1, <1>5, <1>6 DEF BlockInv

LEMMA BeginAppendInv ==
  ASSUME BlockInv, NEW o \in Logs, NEW e, BeginAppend(o, e) PROVE BlockInv'
  <1> DEFINE l == IF block_list[o] = <<>> THEN "first" ELSE "append"
  <1>1. /\ Goto(o, l) /\ pc[o] = "idle"
        /\ UNCHANGED <<pool, stamp, block_list, got, epoch>>
    BY DEF BeginAppend, bvars
  <1>2. CASE block_list[o] = <<>>
    BY <1>1, <1>2, QuietStep DEF PCs
  <1>3. CASE block_list[o] # <<>>
    BY <1>1, <1>3, QuietStep DEF PCs
  <1> QED BY <1>2, <1>3

LEMMA AppendToTailInv ==
  ASSUME BlockInv, NEW o \in Logs, AppendToTail(o) PROVE BlockInv'
  <1> DEFINE tail == Last(block_list[o])
             l == IF Full(tail) THEN "full" ELSE "idle"
  <1>1. /\ Goto(o, l) /\ pc[o] = "append"
        /\ UNCHANGED <<pool, stamp, block_list, got, epoch>>
    BY DEF AppendToTail
  <1>2. block_list[o] # <<>>
    BY <1>1 DEF BlockInv, ShapeInv
  <1>3. CASE Full(tail)
    BY <1>1, <1>2, <1>3, QuietStep DEF PCs
  <1>4. CASE ~Full(tail)
    BY <1>1, <1>4, QuietStep DEF PCs
  <1> QED BY <1>3, <1>4

LEMMA AppendToNewInv ==
  ASSUME BlockInv, NEW o \in Logs, AppendToNew(o) PROVE BlockInv'
  BY QuietStep DEF AppendToNew, PCs

LEMMA BeginClearInv ==
  ASSUME BlockInv, NEW o \in Logs, BeginClear(o) PROVE BlockInv'
  BY QuietStep DEF BeginClear, PCs, bvars

LEMMA ClearTailInv ==
  ASSUME BlockInv, NEW o \in Logs, ClearTail(o) PROVE BlockInv'
  BY QuietStep DEF ClearTail, PCs

LEMMA EndClearInv ==
  ASSUME BlockInv, NEW o \in Logs, EndClear(o) PROVE BlockInv'
  <1>0. /\ Goto(o, "idle") /\ pc[o] = "clear" /\ block_list[o] = <<>>
        /\ epoch' = [epoch EXCEPT ![o] = 3 - @]
        /\ UNCHANGED <<pool, stamp, block_list, got>>
    BY DEF EndClear, bvars
  <1>1. pc'[o] = "idle" /\ \A q \in Logs : q # o => pc'[q] = pc[q]
    BY <1>0, MovesOn DEF BlockInv
  <1>2. ShapeInv'
    <2>1. pc' \in [Logs -> PCs]
      BY <1>0 DEF BlockInv, ShapeInv, Goto, PCs
    <2>2. epoch' \in [Logs -> 1 .. 2]
      <3>1. epoch \in [Logs -> 1 .. 2]
        BY DEF BlockInv, ShapeInv
      <3>2. epoch[o] \in 1 .. 2
        BY <3>1
      <3>3. 3 - epoch[o] \in 1 .. 2
        BY <3>2
      <3> QED BY <1>0, <3>1, <3>3, Zenon
    <2>3. \A q \in Logs :
            /\ pc'[q] \in {"link", "relink"} <=> got'[q] # None
            /\ pc'[q] \in {"append", "full", "relink", "last", "push", "popback"}
                 => block_list'[q] # <<>>
      BY <1>0, <1>1 DEF BlockInv, ShapeInv
    <2> QED BY <1>0, <2>1, <2>2, <2>3 DEF BlockInv, ShapeInv, pool
  <1>3. Linked(o) = {}
    BY <1>0 DEF Linked, OwnBlocks, ToSet
  <1>4. \A q \in Logs : epoch'[q] = epoch[q] \/ Linked(q) = {}
    BY <1>0, <1>3 DEF BlockInv, ShapeInv
  <1> QED BY <1>0, <1>1, <1>2, <1>4, NothingMoves

\* pop() moves the last free block to the user of one log.
LEMMA TakeBlockInv ==
  ASSUME BlockInv, NEW o \in Logs, TakeBlock(o) PROVE BlockInv'
  <1> DEFINE b == Last(free_block_list)
  <1>0. /\ free_block_list # <<>>
        /\ \/ pc[o] = "first" /\ Goto(o, "link")
           \/ pc[o] = "full"  /\ Goto(o, "relink")
        /\ got' = [got EXCEPT ![o] = b]
        /\ free_block_list' = Front(free_block_list)
        /\ used_block_list' = used_block_list \cup {b}
        /\ UNCHANGED <<stamp, block_list, epoch>>
    BY DEF TakeBlock, Pop, bvars
  <1>1. /\ pc'[o] \in {"link", "relink"}
        /\ pc'[o] = "relink" => pc[o] = "full"
        /\ \A q \in Logs : q # o => pc'[q] = pc[q]
    <2>1. CASE pc[o] = "first" /\ Goto(o, "link")
      BY <2>1, MovesOn DEF BlockInv
    <2>2. CASE pc[o] = "full" /\ Goto(o, "relink")
      BY <2>2, MovesOn DEF BlockInv
    <2> QED BY <1>0, <2>1, <2>2
  <1>2. /\ Front(free_block_list) \in Seq(Blocks) /\ b \in Blocks
        /\ b \in ToSet(free_block_list)
        /\ ToSet(Front(free_block_list)) = ToSet(free_block_list) \ {b}
        /\ IsInjective(Front(free_block_list))
    BY <1>0, FrontSet DEF BlockInv, ShapeInv, OwnerInv
  <1> HIDE DEF b
  <1>3. None \notin Blocks
    BY BlocksAssumption DEF Blocks
  <1>4. got'[o] = b /\ \A q \in Logs : q # o => got'[q] = got[q]
    BY <1>0 DEF BlockInv, ShapeInv
  <1>5. ShapeInv'
    <2>1. pc' \in [Logs -> PCs] /\ got' \in [Logs -> Blocks \cup {None}]
      <3>1. pc' \in [Logs -> PCs]
        BY <1>0 DEF BlockInv, ShapeInv, Goto, PCs
      <3> QED BY <1>0, <1>2, <3>1 DEF BlockInv, ShapeInv
    <2>2. \A q \in Logs :
            /\ pc'[q] \in {"link", "relink"} <=> got'[q] # None
            /\ pc'[q] \in {"append", "full", "relink", "last", "push", "popback"}
                 => block_list'[q] # <<>>
      BY <1>0, <1>1, <1>2, <1>3, <1>4 DEF BlockInv, ShapeInv
    <2> QED BY <1>0, <1>2, <2>1, <2>2 DEF BlockInv, ShapeInv
  <1>6. \A q \in Logs : Linked(q)' = Linked(q)
    <2> SUFFICES ASSUME NEW q \in Logs PROVE Linked(q)' = Linked(q)
      OBVIOUS
    <2>1. OwnBlocks(q)' = OwnBlocks(q)
      BY <1>0, <1>1 DEF OwnBlocks
    <2> QED BY <2>1 DEF Linked
  <1>7. \A q \in Logs : q # o => Held(q)' = Held(q)
    BY <1>4, <1>6 DEF Held, Linked
  <1>8. got[o] = None
    BY <1>0 DEF BlockInv, ShapeInv
  <1>9. Held(o)' = Held(o) \cup {b}
    BY <1>2, <1>3, <1>4, <1>6, <1>8 DEF Held, Linked
  <1>10. \A q \in Logs : b \notin Held(q)
    BY <1>2 DEF BlockInv, OwnerInv
  <1>11. b \notin Linked(o)
    BY <1>10 DEF Linked, Held
  <1>12. OwnerInv'
    <2>1. \A c \in Blocks : c \in used_block_list' <=> c \notin ToSet(free_block_list')
      BY <1>0, <1>2 DEF BlockInv, OwnerInv
    <2>2. \A c \in Blocks : c \in used_block_list' <=> \E q \in Logs : c \in Held(q)'
      BY <1>0, <1>2, <1>7, <1>9 DEF BlockInv, OwnerInv
    <2>3. \A p, q \in Logs, c \in Blocks : c \in Held(p)' /\ c \in Held(q)' => p = q
      BY <1>7, <1>9, <1>10 DEF BlockInv, OwnerInv
    <2>4. \A q \in Logs : got'[q] \notin Linked(q)'
      BY <1>4, <1>6, <1>11 DEF BlockInv, OwnerInv
    <2>5. IsInjective(free_block_list')
      BY <1>0, <1>2
    <2>6. \A q \in Logs : IsInjective(block_list'[q])
      BY <1>0 DEF BlockInv, OwnerInv
    <2> QED BY <2>1, <2>2, <2>3, <2>4, <2>5, <2>6 DEF OwnerInv
  <1>13. StampedAlike'
    BY <1>0, <1>6 DEF BlockInv, StampedAlike, Linked
  <1> QED BY <1>5, <1>12, <1>13 DEF BlockInv

\* push_back moves the block from the user's hands to its log, stamped.
LEMMA LinkBlockInv ==
  ASSUME BlockInv, NEW o \in Logs, LinkBlock(o) PROVE BlockInv'
  <1> DEFINE b == got[o]
  <1>0. /\ \/ pc[o] = "link"   /\ Goto(o, "append")
           \/ pc[o] = "relink" /\ Goto(o, "last")
        /\ stamp' = [stamp EXCEPT ![b] = epoch[o]]
        /\ block_list' = [block_list EXCEPT ![o] = Append(@, b)]
        /\ got' = [got EXCEPT ![o] = None]
        /\ free_block_list' = free_block_list
        /\ used_block_list' = used_block_list /\ epoch' = epoch
    BY DEF LinkBlock, SetEpoch, pool
  <1>1. /\ pc'[o] \in {"append", "last"} /\ pc[o] \in {"link", "relink"}
        /\ \A q \in Logs : q # o => pc'[q] = pc[q]
    <2>1. CASE pc[o] = "link" /\ Goto(o, "append")
      BY <2>1, MovesOn DEF BlockInv
    <2>2. CASE pc[o] = "relink" /\ Goto(o, "last")
      BY <2>2, MovesOn DEF BlockInv
    <2> QED BY <1>0, <2>1, <2>2
  <1>2. None \notin Blocks
    BY BlocksAssumption DEF Blocks
  <1>3. b \in Blocks /\ b # None /\ block_list[o] \in Seq(Blocks)
    BY <1>1 DEF BlockInv, ShapeInv
  <1>4. b \notin Linked(o) /\ OwnBlocks(o) = block_list[o]
    BY <1>1 DEF BlockInv, OwnerInv, OwnBlocks
  <1>5. /\ Append(block_list[o], b) \in Seq(Blocks)
        /\ Append(block_list[o], b) # <<>>
        /\ ToSet(Append(block_list[o], b)) = Linked(o) \cup {b}
        /\ IsInjective(Append(block_list[o], b))
    BY <1>3, <1>4, AppendSet DEF BlockInv, OwnerInv, Linked
  <1>6. /\ got'[o] = None /\ \A q \in Logs : q # o => got'[q] = got[q]
        /\ block_list'[o] = Append(block_list[o], b)
        /\ \A q \in Logs : q # o => block_list'[q] = block_list[q]
    BY <1>0 DEF BlockInv, ShapeInv
  <1>7. \A c \in Blocks : stamp'[c] = IF c = b THEN epoch[o] ELSE stamp[c]
    BY <1>0, <1>3 DEF BlockInv, ShapeInv
  <1>8. ShapeInv'
    <2>1. pc' \in [Logs -> PCs]
      BY <1>0 DEF BlockInv, ShapeInv, Goto, PCs
    <2>2. got' \in [Logs -> Blocks \cup {None}]
      BY <1>0 DEF BlockInv, ShapeInv
    <2>3. block_list' \in [Logs -> Seq(Blocks)]
      BY <1>0, <1>5 DEF BlockInv, ShapeInv
    <2>4. stamp' \in [Blocks -> 0 .. 2]
      BY <1>0, <1>3 DEF BlockInv, ShapeInv
    <2>5. \A q \in Logs :
            /\ pc'[q] \in {"link", "relink"} <=> got'[q] # None
            /\ pc'[q] \in {"append", "full", "relink", "last", "push", "popback"}
                 => block_list'[q] # <<>>
      <3> SUFFICES ASSUME NEW q \in Logs
                   PROVE /\ pc'[q] \in {"link", "relink"} <=> got'[q] # None
                         /\ pc'[q] \in {"append", "full", "relink", "last",
                                        "push", "popback"}
                              => block_list'[q] # <<>>
        OBVIOUS
      <3>1. CASE q = o
        BY <1>1, <1>5, <1>6, <3>1
      <3>2. CASE q # o
        BY <1>1, <1>6, <3>2 DEF BlockInv, ShapeInv
      <3> QED BY <3>1, <3>2
    <2> QED BY <1>0, <2>1, <2>2, <2>3, <2>4, <2>5 DEF BlockInv, ShapeInv
  <1>9. \A q \in Logs : q # o => Linked(q)' = Linked(q) /\ Held(q)' = Held(q)
    <2> SUFFICES ASSUME NEW q \in Logs, q # o
                 PROVE  Linked(q)' = Linked(q) /\ Held(q)' = Held(q)
      OBVIOUS
    <2>1. block_list'[q] = block_list[q] /\ got'[q] = got[q] /\ pc'[q] = pc[q]
      BY <1>1, <1>6
    <2> QED BY <2>1, SameBlocks
  <1>10. Linked(o)' = Linked(o) \cup {b}
    <2>1. OwnBlocks(o)' = Append(block_list[o], b)
      BY <1>1, <1>6 DEF OwnBlocks
    <2> QED BY <1>5, <2>1 DEF Linked
  <1>11. Held(o)' = Held(o)
    <2>1. Held(o) = Linked(o) \cup {b}
      BY <1>3 DEF Held, Linked
    <2>2. Held(o)' = Linked(o)'
      BY <1>6 DEF Held, Linked
    <2> QED BY <1>10, <2>1, <2>2
  <1>12. Linked(o)' \subseteq Blocks
    BY <1>3, <1>10, HeldBlocks
  <1>13. b \in Held(o) /\ \A q \in Logs : q # o => b \notin Linked(q)
    <2>1. b \in Held(o)
      BY <1>3, HeldBlocks
    <2>2. \A q \in Logs : q # o => b \notin Held(q)
      BY <1>3, <2>1 DEF BlockInv, OwnerInv
    <2> QED BY <2>1, <2>2 DEF Held, Linked
  <1> HIDE DEF b
  <1>14. OwnerInv'
    <2>1. \A q \in Logs : Held(q)' = Held(q)
      BY <1>9, <1>11
    <2>2. \A q \in Logs : got'[q] \notin Linked(q)'
      BY <1>2, <1>6, <1>9, <1>12 DEF BlockInv, OwnerInv
    <2>3. \A q \in Logs : IsInjective(block_list'[q])
      BY <1>5, <1>6 DEF BlockInv, OwnerInv
    <2> QED BY <1>0, <2>1, <2>2, <2>3 DEF BlockInv, OwnerInv
  <1>15. StampedAlike'
    <2> SUFFICES ASSUME NEW q \in Logs, NEW c \in Linked(q)'
                 PROVE  stamp'[c] = epoch'[q]
      BY DEF StampedAlike, Linked
    <2>1. \A r \in Logs : \A d \in Linked(r) : d \in Blocks /\ stamp[d] = epoch[r]
      <3> SUFFICES ASSUME NEW r \in Logs, NEW d \in Linked(r)
                   PROVE d \in Blocks /\ stamp[d] = epoch[r]
        OBVIOUS
      <3> QED BY HeldBlocks DEF BlockInv, StampedAlike, Linked
    <2>2. CASE q = o
      BY <1>0, <1>3, <1>7, <1>10, <2>1, <2>2
    <2>3. CASE q # o
      BY <1>0, <1>7, <1>9, <1>13, <2>1, <2>3
    <2> QED BY <2>2, <2>3
  <1> QED BY <1>8, <1>14, <1>15 DEF BlockInv

\* push(tail) moves the last block of a log to the pool.
LEMMA GiveBackInv ==
  ASSUME BlockInv, NEW o \in Logs, GiveBack(o) PROVE BlockInv'
  <1> DEFINE b == Last(block_list[o])
  <1>0. /\ pc[o] = "push" /\ Goto(o, "popback")
        /\ free_block_list' = Append(free_block_list, b)
        /\ used_block_list' = used_block_list \ {b}
        /\ UNCHANGED <<stamp, block_list, got, epoch>>
    BY DEF GiveBack, bvars
  <1>1. pc'[o] = "popback" /\ \A q \in Logs : q # o => pc'[q] = pc[q]
    BY <1>0, MovesOn DEF BlockInv
  <1>2. /\ block_list[o] \in Seq(Blocks) /\ block_list[o] # <<>>
        /\ IsInjective(block_list[o]) /\ OwnBlocks(o) = block_list[o]
    BY <1>0 DEF BlockInv, ShapeInv, OwnerInv, OwnBlocks
  <1>3. /\ b \in Blocks /\ b \in Linked(o)
        /\ ToSet(Front(block_list[o])) = Linked(o) \ {b}
    BY <1>2, FrontSet DEF Linked
  <1> HIDE DEF b
  <1>4. got[o] = None /\ None \notin Blocks
    BY <1>0, BlocksAssumption DEF BlockInv, ShapeInv, Blocks
  <1>5. Held(o) = Linked(o)
    BY <1>4 DEF Held, Linked
  <1>6. b \in used_block_list /\ b \notin ToSet(free_block_list)
    BY <1>3, <1>5 DEF BlockInv, OwnerInv
  <1>7. /\ Append(free_block_list, b) \in Seq(Blocks)
        /\ ToSet(Append(free_block_list, b)) = ToSet(free_block_list) \cup {b}
        /\ IsInjective(Append(free_block_list, b))
    <2>1. free_block_list \in Seq(Blocks) /\ IsInjective(free_block_list)
      BY DEF BlockInv, ShapeInv, OwnerInv
    <2> QED BY <1>3, <1>6, <2>1, AppendSet
  <1>8. ShapeInv'
    <2>1. pc' \in [Logs -> PCs]
      BY <1>0 DEF BlockInv, ShapeInv, Goto, PCs
    <2>2. \A q \in Logs :
            /\ pc'[q] \in {"link", "relink"} <=> got'[q] # None
            /\ pc'[q] \in {"append", "full", "relink", "last", "push", "popback"}
                 => block_list'[q] # <<>>
      BY <1>0, <1>1, <1>2 DEF BlockInv, ShapeInv
    <2>3. used_block_list' \subseteq Blocks /\ free_block_list' \in Seq(Blocks)
      BY <1>0, <1>7 DEF BlockInv, ShapeInv
    <2> QED BY <1>0, <2>1, <2>2, <2>3 DEF BlockInv, ShapeInv
  <1>9. \A q \in Logs : q # o => Linked(q)' = Linked(q) /\ Held(q)' = Held(q)
    <2> SUFFICES ASSUME NEW q \in Logs, q # o
                 PROVE  Linked(q)' = Linked(q) /\ Held(q)' = Held(q)
      OBVIOUS
    <2>1. block_list'[q] = block_list[q] /\ got'[q] = got[q] /\ pc'[q] = pc[q]
      BY <1>0, <1>1
    <2> QED BY <2>1, SameBlocks
  <1>10. Linked(o)' = Linked(o) \ {b} /\ Held(o)' = Linked(o) \ {b}
    <2>1. OwnBlocks(o)' = Front(block_list[o])
      BY <1>0, <1>1 DEF OwnBlocks
    <2>2. Linked(o)' = Linked(o) \ {b}
      BY <1>3, <2>1 DEF Linked
    <2>3. Held(o)' = Linked(o)'
      BY <1>0, <1>4 DEF Held, Linked
    <2> QED BY <2>2, <2>3
  <1>11. \A q \in Logs : q # o => b \notin Held(q)
    BY <1>3, <1>5 DEF BlockInv, OwnerInv
  <1>12. OwnerInv'
    <2>1. \A c \in Blocks : c \in used_block_list' <=> c \notin ToSet(free_block_list')
      BY <1>0, <1>7 DEF BlockInv, OwnerInv
    <2>2. \A q \in Logs, c \in Blocks : c \in Held(q)' <=> c \in Held(q) /\ c # b
      BY <1>5, <1>9, <1>10, <1>11
    <2>3. \A c \in Blocks : c \in used_block_list' <=> \E q \in Logs : c \in Held(q)'
      BY <1>0, <2>2 DEF BlockInv, OwnerInv
    <2>4. \A p, q \in Logs, c \in Blocks : c \in Held(p)' /\ c \in Held(q)' => p = q
      BY <2>2 DEF BlockInv, OwnerInv
    <2>5. \A q \in Logs : got'[q] \notin Linked(q)'
      BY <1>0, <1>9, <1>10 DEF BlockInv, OwnerInv
    <2>6. IsInjective(free_block_list')
      BY <1>0, <1>7
    <2>7. \A q \in Logs : IsInjective(block_list'[q])
      BY <1>0 DEF BlockInv, OwnerInv
    <2> QED BY <2>1, <2>3, <2>4, <2>5, <2>6, <2>7 DEF OwnerInv
  <1>13. StampedAlike'
    <2>1. \A q \in Logs : Linked(q)' \subseteq Linked(q)
      BY <1>9, <1>10
    <2> QED BY <1>0, <2>1 DEF BlockInv, StampedAlike, Linked
  <1> QED BY <1>8, <1>12, <1>13 DEF BlockInv

\* pop_back removes a block that the log had already given up.
LEMMA UnlinkInv ==
  ASSUME BlockInv, NEW o \in Logs, Unlink(o) PROVE BlockInv'
  <1>0. /\ pc[o] = "popback" /\ Goto(o, "clear")
        /\ block_list' = [block_list EXCEPT ![o] = Front(@)]
        /\ free_block_list' = free_block_list
        /\ used_block_list' = used_block_list
        /\ UNCHANGED <<stamp, got, epoch>>
    BY DEF Unlink, bvars, pool
  <1>1. pc'[o] = "clear" /\ \A q \in Logs : q # o => pc'[q] = pc[q]
    BY <1>0, MovesOn DEF BlockInv
  <1>2. /\ block_list'[o] = Front(block_list[o])
        /\ \A q \in Logs : q # o => block_list'[q] = block_list[q]
    BY <1>0 DEF BlockInv, ShapeInv
  <1>3. Front(block_list[o]) \in Seq(Blocks) /\ IsInjective(Front(block_list[o]))
    <2>1. /\ block_list[o] \in Seq(Blocks) /\ block_list[o] # <<>>
          /\ IsInjective(block_list[o])
      BY <1>0 DEF BlockInv, ShapeInv, OwnerInv
    <2> QED BY <2>1, FrontSet
  <1>4. ShapeInv'
    <2>1. pc' \in [Logs -> PCs]
      BY <1>0 DEF BlockInv, ShapeInv, Goto, PCs
    <2>2. block_list' \in [Logs -> Seq(Blocks)]
      BY <1>0, <1>3 DEF BlockInv, ShapeInv
    <2>3. \A q \in Logs :
            /\ pc'[q] \in {"link", "relink"} <=> got'[q] # None
            /\ pc'[q] \in {"append", "full", "relink", "last", "push", "popback"}
                 => block_list'[q] # <<>>
      BY <1>0, <1>1, <1>2 DEF BlockInv, ShapeInv
    <2> QED BY <1>0, <2>1, <2>2, <2>3 DEF BlockInv, ShapeInv
  <1>5. \A q \in Logs : Linked(q)' = Linked(q) /\ Held(q)' = Held(q)
    <2> SUFFICES ASSUME NEW q \in Logs
                 PROVE  Linked(q)' = Linked(q) /\ Held(q)' = Held(q)
      OBVIOUS
    <2>1. OwnBlocks(q)' = OwnBlocks(q)
      BY <1>0, <1>1, <1>2 DEF OwnBlocks
    <2> QED BY <1>0, <2>1 DEF Linked, Held
  <1>6. OwnerInv'
    <2>1. \A q \in Logs : IsInjective(block_list'[q])
      BY <1>2, <1>3 DEF BlockInv, OwnerInv
    <2> QED BY <1>0, <1>5, <2>1 DEF BlockInv, OwnerInv
  <1>7. StampedAlike'
    BY <1>0, <1>5 DEF BlockInv, StampedAlike, Linked
  <1> QED BY <1>4, <1>6, <1>7 DEF BlockInv

\* The steps after which nothing is different but the assertion.
LEMMA StutterInv ==
  ASSUME BlockInv, UNCHANGED <<pool, bvars, block_list, pc, got, epoch>>
  PROVE  BlockInv'
  <1>1. ShapeInv'
    BY DEF BlockInv, ShapeInv, pool, bvars
  <1> QED BY <1>1, NothingMoves DEF bvars

-----------------------------------------------------------------------------
LEMMA BlockInvHolds == Spec => []BlockInv
  <1>1. Init => BlockInv
    BY InitInv
  <1>2. BlockInv /\ [Next]_vars => BlockInv'
    <2> SUFFICES ASSUME BlockInv, [Next]_vars PROVE BlockInv'
      OBVIOUS
    <2>1. ASSUME NEW o \in Logs, Use(o) PROVE BlockInv'
      BY <2>1, BeginAppendInv, TakeBlockInv, LinkBlockInv, AppendToTailInv,
         AppendToNewInv, BeginClearInv, ClearTailInv, GiveBackInv, UnlinkInv,
         EndClearInv DEF Use
    <2>2. ASSUME NEW o \in Logs, Exhausted(o) PROVE BlockInv'
      BY <2>2, StutterInv DEF Exhausted
    <2>3. ASSUME UNCHANGED vars PROVE BlockInv'
      BY <2>3, StutterInv DEF vars
    <2> QED BY <2>1, <2>2, <2>3 DEF Next, Aborted
  <1> QED BY <1>1, <1>2, PTL DEF Spec

(***************************************************************************)
(* No block of the pool is lost and none has two owners, whichever logs    *)
(* append (push_back_and_clwb) and are cleared (clear) at the same time,   *)
(* and although clear() gives a block back before it unlinks it.           *)
(***************************************************************************)
THEOREM BlocksHaveOneOwner == Spec => []OneOwner
  <1>1. BlockInv => OneOwner
    <2> SUFFICES ASSUME BlockInv PROVE OneOwner
      OBVIOUS
    <2>1. \A o \in Logs : Held(o) \subseteq Blocks
      BY HeldBlocks
    <2>2. used_block_list \subseteq Blocks /\ OwnerInv
      BY DEF BlockInv, ShapeInv
    <2>3. used_block_list = Blocks \ ToSet(free_block_list)
      BY <2>2 DEF OwnerInv
    <2>4. used_block_list = UNION {Held(o) : o \in Logs}
      BY <2>1, <2>2 DEF OwnerInv
    <2>5. \A o, q \in Logs : o # q => Held(o) \cap Held(q) = {}
      BY <2>1, <2>2 DEF OwnerInv
    <2> QED BY <2>2, <2>3, <2>4, <2>5 DEF OneOwner, OwnerInv
  <1> QED BY <1>1, BlockInvHolds, PTL

(***************************************************************************)
(* Every block of a log carries the epoch that uses the log: set_epoch is  *)
(* called before a block is linked, and no other log's set_epoch can reach *)
(* a block that is linked.                                                 *)
(***************************************************************************)
THEOREM BlocksAreStampedAlike == Spec => []StampedAlike
  <1>1. BlockInv => StampedAlike
    BY DEF BlockInv
  <1> QED BY <1>1, BlockInvHolds, PTL

-----------------------------------------------------------------------------
(***************************************************************************)
(* How full the blocks are.  A block outside the logs is empty, a log that *)
(* is appended to has room only in its last block.                         *)
(***************************************************************************)
Packed(o) ==
  LET s == block_list[o] IN
  /\ pc[o] \in {"first", "link"} => s = <<>>
  /\ pc[o] \in {"last", "push"} => size[s[Len(s)]] = 0
  /\ pc[o] \in {"full", "relink"} => size[s[Len(s)]] = BLOCK_NUM
  /\ pc[o] = "idle" /\ s # <<>> => size[s[Len(s)]] > 0
  /\ pc[o] \notin Clearing => \A i \in 1 .. Len(s) - 1 : size[s[i]] = BLOCK_NUM

PackedInv ==
  /\ size \in [Blocks -> 0 .. BLOCK_NUM]
  /\ \A b \in ToSet(free_block_list) : size[b] = 0
  /\ \A o \in Logs : got[o] # None => size[got[o]] = 0
  /\ \A o \in Logs : Packed(o)

\* The last block of a log belongs to no other log and not to the pool.
LEMMA TailBlock ==
  ASSUME BlockInv, NEW o \in Logs, pc[o] # "popback", block_list[o] # <<>>
  PROVE  LET s == block_list[o]
             b == Last(block_list[o])
         IN  /\ s \in Seq(Blocks) /\ Len(s) \in Nat \ {0}
             /\ b = s[Len(s)] /\ b \in Blocks
             /\ \A i \in 1 .. Len(s) - 1 : s[i] \in Blocks /\ s[i] # b
             /\ b \notin ToSet(free_block_list)
             /\ \A q \in Logs : got[q] # b /\ (q # o => b \notin Linked(q))
  <1> DEFINE s == block_list[o]
             b == Last(s)
  <1>1. s \in Seq(Blocks) /\ s # <<>> /\ IsInjective(s) /\ Linked(o) = ToSet(s)
    BY DEF BlockInv, ShapeInv, OwnerInv, Linked, OwnBlocks
  <1> HIDE DEF s
  <1>2. /\ Len(s) \in Nat \ {0} /\ DOMAIN s = 1 .. Len(s)
        /\ b = s[Len(s)] /\ \A i \in 1 .. Len(s) : s[i] \in Blocks
    BY <1>1 DEF Last
  <1>3. \A i \in 1 .. Len(s) - 1 : s[i] \in Blocks /\ s[i] # b
    BY <1>1, <1>2 DEF IsInjective
  <1>4. b \in Linked(o) /\ b \in Blocks
    BY <1>1, <1>2, FrontSet
  <1> HIDE DEF b
  <1>5. b \in Held(o)
    BY <1>4 DEF Held, Linked
  <1>6. b \notin ToSet(free_block_list)
    BY <1>4, <1>5 DEF BlockInv, OwnerInv
  <1>7. ASSUME NEW q \in Logs PROVE got[q] # b /\ (q # o => b \notin Linked(q))
    <2>1. CASE q = o
      BY <1>4, <2>1 DEF BlockInv, OwnerInv
    <2>2. CASE q # o
      <3>1. b \notin Held(q)
        BY <1>4, <1>5, <2>2 DEF BlockInv, OwnerInv
      <3> QED BY <1>4, <2>2, <3>1, HeldBlocks DEF Held, Linked
    <2> QED BY <2>1, <2>2
  <1> QED BY <1>1, <1>2, <1>3, <1>4, <1>6, <1>7 DEF s, b

\* A log is as full as before if its own blocks are.
LEMMA PackedSame ==
  ASSUME BlockInv, NEW q \in Logs, Packed(q),
         block_list'[q] = block_list[q], pc'[q] = pc[q],
         \A b \in Linked(q) : size'[b] = size[b]
  PROVE  Packed(q)'
  <1>1. CASE pc[q] = "popback"
    BY <1>1 DEF Packed, Clearing
  <1>2. CASE pc[q] # "popback"
    <2> DEFINE s == block_list[q]
    <2>1. s \in Seq(Blocks) /\ Linked(q) = ToSet(s)
      BY <1>2 DEF BlockInv, ShapeInv, Linked, OwnBlocks
    <2>2. pc[q] \in {"last", "push", "full", "relink"} => s # <<>>
      BY DEF BlockInv, ShapeInv
    <2> HIDE DEF s
    <2>3. Len(s) \in Nat /\ DOMAIN s = 1 .. Len(s) /\ (s # <<>> => Len(s) > 0)
      BY <2>1
    <2>4. \A i \in 1 .. Len(s) : size'[s[i]] = size[s[i]]
      BY <2>1, <2>3 DEF ToSet
    <2>5. s # <<>> => size'[s[Len(s)]] = size[s[Len(s)]]
      BY <2>3, <2>4
    <2>6. \A i \in 1 .. Len(s) - 1 : size'[s[i]] = size[s[i]]
      BY <2>3, <2>4
    <2> QED BY <2>2, <2>5, <2>6 DEF Packed, s
  <1> QED BY <1>1, <1>2

\* The steps that leave the sizes alone, and the lists of the other logs.
LEMMA SizesStay ==
  ASSUME BlockInv, PackedInv, NEW o \in Logs, size' = size,
         \A q \in Logs : q # o => /\ pc'[q] = pc[q] /\ got'[q] = got[q]
                                  /\ block_list'[q] = block_list[q],
         got'[o] # None => size[got'[o]] = 0,
         \A b \in ToSet(free_block_list') : size[b] = 0,
         Packed(o)'
  PROVE  PackedInv'
  <1>1. \A q \in Logs : Packed(q)'
    <2> SUFFICES ASSUME NEW q \in Logs, q # o PROVE Packed(q)'
      OBVIOUS
    <2>1. Packed(q)
      BY DEF PackedInv
    <2> QED BY <2>1, PackedSame
  <1>2. \A q \in Logs : got'[q] # None => size'[got'[q]] = 0
    BY DEF PackedInv
  <1> QED BY <1>1, <1>2 DEF PackedInv

\* The steps that change the size of the last block of a log.
LEMMA TailSizeChanges ==
  ASSUME BlockInv, PackedInv, NEW o \in Logs, NEW n \in 0 .. BLOCK_NUM, NEW l,
         pc[o] # "popback", block_list[o] # <<>>, Goto(o, l),
         size' = [size EXCEPT ![Last(block_list[o])] = n],
         UNCHANGED <<pool, block_list, got>>,
         \/ l = "idle" /\ n # 0 /\ pc[o] \notin Clearing
         \/ l = "push" /\ n = 0
  PROVE  PackedInv'
  <1> DEFINE s == block_list[o]
             b == Last(s)
  <1>1. pc'[o] = l /\ \A q \in Logs : q # o => pc'[q] = pc[q]
    BY MovesOn DEF BlockInv
  <1>2. /\ s \in Seq(Blocks) /\ Len(s) \in Nat \ {0}
        /\ b = s[Len(s)] /\ b \in Blocks
        /\ \A i \in 1 .. Len(s) - 1 : s[i] \in Blocks /\ s[i] # b
        /\ b \notin ToSet(free_block_list)
        /\ \A q \in Logs : got[q] # b /\ (q # o => b \notin Linked(q))
    BY TailBlock
  <1>3. size' \in [Blocks -> 0 .. BLOCK_NUM]
    BY DEF PackedInv
  <1>4. size'[b] = n /\ \A c \in Blocks : c # b => size'[c] = size[c]
    BY <1>2 DEF PackedInv
  <1>5. block_list' = block_list /\ got' = got /\ free_block_list' = free_block_list
    BY DEF pool
  <1>6. Packed(o)'
    <2>1. Packed(o)
      BY DEF PackedInv
    <2>2. \A i \in 1 .. Len(s) - 1 : size'[s[i]] = size[s[i]]
      BY <1>2, <1>4
    <2>3. size'[s[Len(s)]] = n
      BY <1>2, <1>4
    <2>4. CASE l = "idle" /\ n # 0 /\ pc[o] \notin Clearing
      <3>1. n > 0
        BY <2>4, BlocksAssumption
      <3> QED BY <1>1, <1>5, <2>1, <2>2, <2>3, <2>4, <3>1 DEF Packed, Clearing
    <2>5. CASE l = "push" /\ n = 0
      BY <1>1, <1>5, <2>3, <2>5 DEF Packed, Clearing
    <2> QED BY <2>4, <2>5
  <1> HIDE DEF b, s
  <1>7. ASSUME NEW q \in Logs, q # o PROVE Packed(q)'
    <2>1. Packed(q) /\ pc'[q] = pc[q] /\ block_list'[q] = block_list[q]
      BY <1>1, <1>5, <1>7 DEF PackedInv
    <2>2. \A c \in Linked(q) : size'[c] = size[c]
      <3>1. Linked(q) \subseteq Blocks
        BY HeldBlocks
      <3> QED BY <1>2, <1>4, <1>7, <3>1
    <2> QED BY <2>1, <2>2, PackedSame
  <1>8. \A c \in ToSet(free_block_list') : size'[c] = 0
    <2>1. ToSet(free_block_list) \subseteq Blocks
      BY DEF BlockInv, ShapeInv, ToSet
    <2> QED BY <1>2, <1>4, <1>5, <2>1 DEF PackedInv
  <1>9. \A q \in Logs : got'[q] # None => size'[got'[q]] = 0
    <2>1. \A q \in Logs : got[q] # None => got[q] \in Blocks
      BY DEF BlockInv, ShapeInv
    <2> QED BY <1>2, <1>4, <1>5, <2>1 DEF PackedInv
  <1> QED BY <1>3, <1>6, <1>7, <1>8, <1>9 DEF PackedInv

LEMMA PackedInit ==
  ASSUME Init PROVE PackedInv
  <1>1. size \in [Blocks -> 0 .. BLOCK_NUM] /\ \A b \in Blocks : size[b] = 0
    BY BlocksAssumption DEF Init
  <1>2. ToSet(free_block_list) \subseteq Blocks
    BY DEF Init, ToSet
  <1>3. \A o \in Logs : Packed(o)
    BY DEF Init, Packed
  <1> QED BY <1>1, <1>2, <1>3 DEF PackedInv, Init

LEMMA PackedAppend ==
  ASSUME BlockInv, PackedInv, NEW o \in Logs,
         \/ \E e \in Entries : BeginAppend(o, e)
         \/ AppendToTail(o) \/ AppendToNew(o)
  PROVE  PackedInv'
  <1>0. Packed(o) /\ size \in [Blocks -> 0 .. BLOCK_NUM]
    BY DEF PackedInv
  <1>1. ASSUME NEW e, BeginAppend(o, e) PROVE PackedInv'
    <2>0. /\ pc[o] = "idle"
          /\ Goto(o, IF block_list[o] = <<>> THEN "first" ELSE "append")
          /\ size' = size /\ block_list' = block_list /\ got' = got
          /\ free_block_list' = free_block_list
      BY <1>1 DEF BeginAppend, bvars, pool
    <2>1. /\ pc'[o] = IF block_list[o] = <<>> THEN "first" ELSE "append"
          /\ \A q \in Logs : q # o => pc'[q] = pc[q]
      BY <2>0, MovesOn DEF BlockInv
    <2>2. Packed(o)'
      BY <1>0, <2>0, <2>1 DEF Packed, Clearing
    <2> QED BY <2>0, <2>1, <2>2, SizesStay DEF PackedInv
  <1>2. ASSUME AppendToTail(o) PROVE PackedInv'
    <2> DEFINE b == Last(block_list[o])
    <2>0. /\ pc[o] = "append" /\ BlockAppend(b, arg[o])
          /\ Goto(o, IF Full(b) THEN "full" ELSE "idle")
          /\ UNCHANGED <<pool, block_list, got>>
      BY <1>2 DEF AppendToTail
    <2>1. block_list[o] # <<>>
      BY <2>0 DEF BlockInv, ShapeInv
    <2>2. b \in Blocks /\ b = block_list[o][Len(block_list[o])]
      BY <2>0, <2>1, TailBlock
    <2> HIDE DEF b
    <2>3. CASE Full(b)
      <3>1. /\ size' = size /\ block_list' = block_list /\ got' = got
            /\ free_block_list' = free_block_list
        BY <2>0, <2>3 DEF BlockAppend, pool
      <3>2. pc'[o] = "full" /\ \A q \in Logs : q # o => pc'[q] = pc[q]
        BY <2>0, <2>3, MovesOn DEF BlockInv
      <3>3. size[b] = BLOCK_NUM
        BY <2>3 DEF Full
      <3>4. Packed(o)'
        BY <1>0, <2>0, <2>2, <3>1, <3>2, <3>3 DEF Packed, Clearing
      <3> QED BY <3>1, <3>2, <3>4, SizesStay DEF PackedInv
    <2>4. CASE ~Full(b)
      <3>1. size' = [size EXCEPT ![b] = size[b] + 1] /\ Goto(o, "idle")
        BY <2>0, <2>4 DEF BlockAppend
      <3>2. size[b] + 1 \in 0 .. BLOCK_NUM /\ size[b] + 1 # 0
        BY <1>0, <2>2, <2>4, BlocksAssumption DEF Full
      <3>3. pc[o] \notin Clearing /\ pc[o] # "popback"
        BY <2>0 DEF Clearing
      <3>4. size' = [size EXCEPT ![Last(block_list[o])] = size[b] + 1]
        BY <3>1 DEF b
      <3>5. UNCHANGED <<pool, block_list, got>>
        BY <2>0
      <3> QED BY <2>1, <3>1, <3>2, <3>3, <3>4, <3>5, TailSizeChanges
    <2> QED BY <2>3, <2>4
  <1>3. ASSUME AppendToNew(o) PROVE PackedInv'
    <2> DEFINE b == Last(block_list[o])
    <2>0. /\ pc[o] = "last" /\ BlockAppend(b, arg[o]) /\ Goto(o, "idle")
          /\ UNCHANGED <<pool, block_list, got>>
      BY <1>3 DEF AppendToNew
    <2>1. block_list[o] # <<>>
      BY <2>0 DEF BlockInv, ShapeInv
    <2>2. b \in Blocks /\ b = block_list[o][Len(block_list[o])]
      BY <2>0, <2>1, TailBlock
    <2>3. size[b] = 0
      BY <1>0, <2>0, <2>2 DEF Packed
    <2> HIDE DEF b
    <2>4. ~Full(b)
      BY <2>3, BlocksAssumption DEF Full
    <2>5. size' = [size EXCEPT ![b] = 1]
      BY <2>0, <2>3, <2>4 DEF BlockAppend
    <2>6. 1 \in 0 .. BLOCK_NUM
      BY BlocksAssumption
    <2>7. pc[o] \notin Clearing /\ pc[o] # "popback"
      BY <2>0 DEF Clearing
    <2>8. /\ size' = [size EXCEPT ![Last(block_list[o])] = 1]
          /\ Goto(o, "idle") /\ UNCHANGED <<pool, block_list, got>>
      BY <2>0, <2>5 DEF b
    <2>9. 1 # 0
      OBVIOUS
    <2> QED BY <2>1, <2>6, <2>7, <2>8, <2>9, TailSizeChanges
  <1> QED BY <1>1, <1>2, <1>3

LEMMA PackedBlock ==
  ASSUME BlockInv, PackedInv, NEW o \in Logs, TakeBlock(o) \/ LinkBlock(o)
  PROVE  PackedInv'
  <1>0. Packed(o)
    BY DEF PackedInv
  <1>1. CASE TakeBlock(o)
    <2> DEFINE b == Last(free_block_list)
    <2>0. /\ free_block_list # <<>>
          /\ \/ pc[o] = "first" /\ Goto(o, "link")
             \/ pc[o] = "full"  /\ Goto(o, "relink")
          /\ got' = [got EXCEPT ![o] = b]
          /\ free_block_list' = Front(free_block_list)
          /\ size' = size /\ block_list' = block_list
      BY <1>1 DEF TakeBlock, Pop, bvars
    <2>1. /\ \/ pc[o] = "first" /\ pc'[o] = "link"
             \/ pc[o] = "full" /\ pc'[o] = "relink"
          /\ \A q \in Logs : q # o => pc'[q] = pc[q]
      <3>1. CASE pc[o] = "first" /\ Goto(o, "link")
        BY <3>1, MovesOn DEF BlockInv
      <3>2. CASE pc[o] = "full" /\ Goto(o, "relink")
        BY <3>2, MovesOn DEF BlockInv
      <3> QED BY <2>0, <3>1, <3>2
    <2>2. /\ b \in ToSet(free_block_list)
          /\ ToSet(Front(free_block_list)) = ToSet(free_block_list) \ {b}
      BY <2>0, FrontSet DEF BlockInv, ShapeInv, OwnerInv
    <2> HIDE DEF b
    <2>3. got'[o] = b /\ \A q \in Logs : q # o => got'[q] = got[q]
      BY <2>0 DEF BlockInv, ShapeInv
    <2>4. size[b] = 0 /\ \A c \in ToSet(free_block_list') : size[c] = 0
      BY <2>0, <2>2 DEF PackedInv
    <2>5. Packed(o)'
      BY <1>0, <2>0, <2>1 DEF Packed, Clearing
    <2> QED BY <2>0, <2>1, <2>3, <2>4, <2>5, SizesStay
  <1>2. CASE LinkBlock(o)
    <2> DEFINE b == got[o]
               s == block_list[o]
               t == Append(s, b)
    <2>0. /\ \/ pc[o] = "link"   /\ Goto(o, "append")
             \/ pc[o] = "relink" /\ Goto(o, "last")
          /\ block_list' = [block_list EXCEPT ![o] = t]
          /\ got' = [got EXCEPT ![o] = None]
          /\ free_block_list' = free_block_list /\ size' = size
      BY <1>2 DEF LinkBlock, pool
    <2>1. /\ \/ pc[o] = "link" /\ pc'[o] = "append"
             \/ pc[o] = "relink" /\ pc'[o] = "last"
          /\ \A q \in Logs : q # o => pc'[q] = pc[q]
      <3>1. CASE pc[o] = "link" /\ Goto(o, "append")
        BY <3>1, MovesOn DEF BlockInv
      <3>2. CASE pc[o] = "relink" /\ Goto(o, "last")
        BY <3>2, MovesOn DEF BlockInv
      <3> QED BY <2>0, <3>1, <3>2
    <2>2. s \in Seq(Blocks) /\ b \in Blocks /\ b # None /\ size[b] = 0
      BY <2>1 DEF BlockInv, ShapeInv, PackedInv
    <2>3. /\ got'[o] = None /\ block_list'[o] = t
          /\ \A q \in Logs : q # o => /\ got'[q] = got[q]
                                      /\ block_list'[q] = block_list[q]
      BY <2>0 DEF BlockInv, ShapeInv
    <2>4. /\ Len(s) \in Nat /\ Len(t) = Len(s) + 1 /\ t[Len(t)] = b
          /\ \A i \in 1 .. Len(s) : t[i] = s[i]
      BY <2>2
    <2> HIDE DEF b, t
    <2>5. Packed(o)'
      <3>1. CASE pc[o] = "link" /\ pc'[o] = "append"
        <4>1. s = <<>>
          BY <1>0, <3>1 DEF Packed
        <4>2. Len(s) = 0
          BY <4>1
        <4>3. Len(t) - 1 = 0
          BY <2>4, <4>2
        <4> HIDE DEF s
        <4> QED BY <2>3, <3>1, <4>3 DEF Packed, Clearing
      <3>2. CASE pc[o] = "relink" /\ pc'[o] = "last"
        <4>1. s # <<>>
          BY <3>2 DEF BlockInv, ShapeInv
        <4>2. /\ size[s[Len(s)]] = BLOCK_NUM
              /\ \A i \in 1 .. Len(s) - 1 : size[s[i]] = BLOCK_NUM
          BY <1>0, <3>2 DEF Packed, Clearing
        <4> HIDE DEF s
        <4>3. \A i \in 1 .. Len(s) : size[t[i]] = BLOCK_NUM
          BY <2>4, <4>2
        <4>4. size[t[Len(t)]] = 0 /\ Len(t) - 1 = Len(s)
          BY <2>2, <2>4
        <4> QED BY <2>0, <2>3, <3>2, <4>3, <4>4 DEF Packed, Clearing
      <3> QED BY <2>1, <3>1, <3>2
    <2> QED BY <2>0, <2>1, <2>3, <2>5, SizesStay DEF PackedInv
  <1> QED BY <1>1, <1>2

LEMMA PackedClear ==
  ASSUME BlockInv, PackedInv, NEW o \in Logs,
         \/ BeginClear(o) \/ ClearTail(o) \/ GiveBack(o) \/ Unlink(o)
         \/ EndClear(o)
  PROVE  PackedInv'
  <1>0. Packed(o)
    BY DEF PackedInv
  <1>1. CASE BeginClear(o)
    <2>0. /\ Goto(o, "clear") /\ size' = size /\ got' = got
          /\ free_block_list' = free_block_list /\ block_list' = block_list
      BY <1>1 DEF BeginClear, bvars, pool
    <2>1. pc'[o] = "clear" /\ \A q \in Logs : q # o => pc'[q] = pc[q]
      BY <2>0, MovesOn DEF BlockInv
    <2>2. Packed(o)'
      BY <2>1 DEF Packed, Clearing
    <2> QED BY <2>0, <2>1, <2>2, SizesStay DEF PackedInv
  <1>2. CASE ClearTail(o)
    <2>1. /\ pc[o] = "clear" /\ block_list[o] # <<>> /\ Goto(o, "push")
          /\ size' = [size EXCEPT ![Last(block_list[o])] = 0]
          /\ UNCHANGED <<pool, block_list, got>>
      BY <1>2 DEF ClearTail
    <2>2. 0 \in 0 .. BLOCK_NUM
      BY BlocksAssumption
    <2> QED BY <2>1, <2>2, TailSizeChanges
  <1>3. CASE GiveBack(o)
    <2> DEFINE b == Last(block_list[o])
    <2>0. /\ pc[o] = "push" /\ Goto(o, "popback") /\ size' = size /\ got' = got
          /\ free_block_list' = Append(free_block_list, b)
          /\ block_list' = block_list
      BY <1>3 DEF GiveBack, bvars
    <2>1. pc'[o] = "popback" /\ \A q \in Logs : q # o => pc'[q] = pc[q]
      BY <2>0, MovesOn DEF BlockInv
    <2>2. block_list[o] # <<>>
      BY <2>0 DEF BlockInv, ShapeInv
    <2>3. b \in Blocks /\ b = block_list[o][Len(block_list[o])]
      BY <2>0, <2>2, TailBlock
    <2>4. size[b] = 0
      BY <1>0, <2>0, <2>3 DEF Packed
    <2> HIDE DEF b
    <2>5. ToSet(free_block_list') = ToSet(free_block_list) \cup {b}
      BY <2>0, <2>3, AppendSet DEF BlockInv, ShapeInv
    <2>6. \A c \in ToSet(free_block_list') : size[c] = 0
      BY <2>4, <2>5 DEF PackedInv
    <2>7. Packed(o)'
      BY <2>1 DEF Packed, Clearing
    <2> QED BY <2>0, <2>1, <2>6, <2>7, SizesStay DEF PackedInv
  <1>4. CASE Unlink(o)
    <2>0. /\ Goto(o, "clear") /\ size' = size /\ got' = got
          /\ free_block_list' = free_block_list
          /\ block_list' = [block_list EXCEPT ![o] = Front(@)]
      BY <1>4 DEF Unlink, bvars, pool
    <2>1. pc'[o] = "clear" /\ \A q \in Logs : q # o => pc'[q] = pc[q]
      BY <2>0, MovesOn DEF BlockInv
    <2>2. \A q \in Logs : q # o => block_list'[q] = block_list[q]
      BY <2>0 DEF BlockInv, ShapeInv
    <2>3. Packed(o)'
      BY <2>1 DEF Packed, Clearing
    <2> QED BY <2>0, <2>1, <2>2, <2>3, SizesStay DEF PackedInv
  <1>5. CASE EndClear(o)
    <2>0. /\ Goto(o, "idle") /\ size' = size /\ got' = got
          /\ block_list[o] = <<>>
          /\ free_block_list' = free_block_list /\ block_list' = block_list
      BY <1>5 DEF EndClear, bvars, pool
    <2>1. pc'[o] = "idle" /\ \A q \in Logs : q # o => pc'[q] = pc[q]
      BY <2>0, MovesOn DEF BlockInv
    <2>2. block_list'[o] = <<>> /\ Len(<<>>) = 0
      BY <2>0
    <2>3. Packed(o)'
      BY <2>1, <2>2 DEF Packed, Clearing
    <2> QED BY <2>0, <2>1, <2>3, SizesStay DEF PackedInv
  <1> QED BY <1>1, <1>2, <1>3, <1>4, <1>5

LEMMA PackedStutter ==
  ASSUME PackedInv, UNCHANGED <<pool, bvars, block_list, pc, got>>
  PROVE  PackedInv'
  <1>1. /\ size' = size /\ block_list' = block_list /\ pc' = pc /\ got' = got
        /\ free_block_list' = free_block_list
    BY DEF pool, bvars
  <1>2. \A o \in Logs : Packed(o)'
    BY <1>1 DEF PackedInv, Packed
  <1> QED BY <1>1, <1>2 DEF PackedInv

LEMMA PackedInvHolds == Spec => []PackedInv
  <1>1. Init => PackedInv
    BY PackedInit
  <1>2. BlockInv /\ PackedInv /\ [Next]_vars => PackedInv'
    <2> SUFFICES ASSUME BlockInv, PackedInv, [Next]_vars PROVE PackedInv'
      OBVIOUS
    <2>1. ASSUME NEW o \in Logs, Use(o) PROVE PackedInv'
      BY <2>1, PackedAppend, PackedBlock, PackedClear DEF Use
    <2>2. ASSUME NEW o \in Logs, Exhausted(o) PROVE PackedInv'
      BY <2>2, PackedStutter DEF Exhausted
    <2>3. ASSUME UNCHANGED vars PROVE PackedInv'
      BY <2>3, PackedStutter DEF vars
    <2> QED BY <2>1, <2>2, <2>3 DEF Next, Aborted
  <1> QED BY <1>1, <1>2, BlockInvHolds, PTL DEF Spec

(***************************************************************************)
(* Between operations only the last block of a log has room left and none  *)
(* is empty: push_back_and_clwb takes a block from the pool only when the  *)
(* last one is full, and a block that clear() gave back comes out of the   *)
(* pool empty.                                                             *)
(***************************************************************************)
THEOREM BlocksAreNotWasted == Spec => []NoBlockWasted
  <1>1. BlockInv /\ PackedInv => NoBlockWasted
    <2> SUFFICES ASSUME BlockInv, PackedInv, NEW o \in Logs, pc[o] = "idle",
                        NEW i \in DOMAIN block_list[o]
                 PROVE  IF i < Len(block_list[o])
                          THEN size[block_list[o][i]] = BLOCK_NUM
                          ELSE size[block_list[o][i]] > 0
      BY DEF NoBlockWasted
    <2> DEFINE s == block_list[o]
    <2>1. s \in Seq(Blocks)
      BY DEF BlockInv, ShapeInv
    <2>2. /\ s # <<>> => size[s[Len(s)]] > 0
          /\ \A j \in 1 .. Len(s) - 1 : size[s[j]] = BLOCK_NUM
      BY DEF PackedInv, Packed, Clearing
    <2> HIDE DEF s
    <2>3. s # <<>> /\ Len(s) \in Nat /\ i \in 1 .. Len(s)
      BY <2>1 DEF s
    <2>4. i = Len(s) \/ i \in 1 .. Len(s) - 1
      BY <2>3
    <2> QED BY <2>2, <2>3, <2>4 DEF s
  <1> QED BY <1>1, BlockInvHolds, PackedInvHolds, PTL

-----------------------------------------------------------------------------
(***************************************************************************)
(* The entries of a list of blocks, one block at a time: what FlattenSeq   *)
(* computes by recursion, as one equation.                                 *)
(***************************************************************************)

\* Induction over a set of naturals, from the least one that it leaves out.
LEMMA Induction ==
  ASSUME NEW S, 0 \in S, \A n \in Nat : n \in S => n + 1 \in S
  PROVE  Nat \subseteq S
  <1> DEFINE R == {ss \in Nat \X Nat : ss[1] < ss[2]}
             Rest == Nat \ S
  <1>1. IsWellFoundedOn(R, Nat)
    BY NatLessThanWellFounded, Zenon DEF OpToRel
  <1> SUFFICES ASSUME Rest # {} PROVE FALSE
    OBVIOUS
  <1>2. Rest \subseteq Nat
    OBVIOUS
  <1> HIDE DEF R, Rest
  <1>3. PICK n \in Rest : \A m \in Rest : ~ (<<m, n>> \in R)
    BY <1>1, <1>2, WFMin
  <1>4. n \in Nat /\ n # 0
    BY <1>3 DEF Rest
  <1>5. n - 1 \in Nat /\ n - 1 + 1 = n
    BY <1>4
  <1>6. n - 1 \in Rest
    BY <1>3, <1>5 DEF Rest
  <1>7. <<n - 1, n>> \in R
    BY <1>4, <1>5 DEF R
  <1> QED BY <1>3, <1>6, <1>7

\* f concatenates the first n sequences of s.
Concatenates(f, n, s) ==
  f = [i \in 1 .. n |-> IF i = 1 THEN s[i] ELSE f[i - 1] \o s[i]]

LEMMA Concatenation ==
  ASSUME NEW s, NEW n \in Nat
  PROVE  \E f : Concatenates(f, n, s)
  <1> DEFINE S == {m \in Nat : \E f : Concatenates(f, m, s)}
  <1>1. 0 \in S
    <2> DEFINE f == [i \in 1 .. 0 |-> 0]
    <2>1. f = [i \in 1 .. 0 |-> IF i = 1 THEN s[i] ELSE f[i - 1] \o s[i]]
      OBVIOUS
    <2> HIDE DEF f
    <2> QED BY <2>1 DEF Concatenates
  <1>2. ASSUME NEW m \in Nat, m \in S PROVE m + 1 \in S
    <2>1. PICK f : Concatenates(f, m, s)
      BY <1>2
    <2> DEFINE g == [i \in 1 .. m + 1 |->
                       IF i = 1 THEN s[i] ELSE f[i - 1] \o s[i]]
    <2>2. \A i \in 1 .. m : g[i] = f[i]
      <3>1. \A i \in 1 .. m : f[i] = IF i = 1 THEN s[i] ELSE f[i - 1] \o s[i]
        BY <2>1 DEF Concatenates
      <3>2. \A i \in 1 .. m : i \in 1 .. m + 1
        OBVIOUS
      <3> QED BY <3>1, <3>2
    <2>3. \A i \in 1 .. m + 1 : i # 1 => i - 1 \in 1 .. m
      OBVIOUS
    <2>4. g = [i \in 1 .. m + 1 |-> IF i = 1 THEN s[i] ELSE g[i - 1] \o s[i]]
      BY <2>2, <2>3
    <2> HIDE DEF g
    <2>5. Concatenates(g, m + 1, s)
      BY <2>4 DEF Concatenates
    <2> QED BY <2>5
  <1> HIDE DEF S
  <1>3. n \in S
    BY <1>1, <1>2, Induction
  <1> QED BY <1>3 DEF S

\* It does not depend on what follows.
Agree(s, t, n) == \A i \in 1 .. n : s[i] = t[i]

LEMMA ConcatenationUnique ==
  ASSUME NEW s, NEW t, NEW n \in Nat, NEW m \in Nat, n <= m,
         Agree(s, t, n),
         NEW f, Concatenates(f, n, s), NEW g, Concatenates(g, m, t)
  PROVE  \A i \in 1 .. n : f[i] = g[i]
  <1> DEFINE S == {i \in Nat : i \in 1 .. n => f[i] = g[i]}
  <1>0. /\ \A i \in 1 .. n : f[i] = IF i = 1 THEN s[i] ELSE f[i - 1] \o s[i]
        /\ \A i \in 1 .. m : g[i] = IF i = 1 THEN t[i] ELSE g[i - 1] \o t[i]
    BY DEF Concatenates
  <1>1. 0 \in S
    OBVIOUS
  <1>2. ASSUME NEW i \in Nat, i \in S PROVE i + 1 \in S
    <2> SUFFICES ASSUME i + 1 \in 1 .. n PROVE f[i + 1] = g[i + 1]
      OBVIOUS
    <2>1. i + 1 \in 1 .. n /\ i + 1 \in 1 .. m /\ i + 1 - 1 = i
      OBVIOUS
    <2>2. s[i + 1] = t[i + 1]
      BY DEF Agree
    <2>3. CASE i = 0
      BY <1>0, <2>1, <2>2, <2>3
    <2>4. CASE i # 0
      <3>1. f[i] = g[i]
        BY <1>2, <2>4
      <3> QED BY <1>0, <2>1, <2>2, <2>4, <3>1
    <2> QED BY <2>3, <2>4
  <1> HIDE DEF S
  <1>3. Nat \subseteq S
    BY <1>1, <1>2, Induction
  <1> QED BY <1>3 DEF S

LEMMA Flattened ==
  ASSUME NEW s, Len(s) \in Nat, Len(s) # 0
  PROVE  \E f : Concatenates(f, Len(s), s) /\ FlattenSeq(s) = f[Len(s)]
  <1> DEFINE n == Len(s)
             f == CHOOSE f : f = [i \in 1 .. n |->
                                    IF i = 1 THEN s[i] ELSE f[i - 1] \o s[i]]
  <1>1. FlattenSeq(s) = f[n]
    BY DEF FlattenSeq
  <1>2. \E g : g = [i \in 1 .. n |-> IF i = 1 THEN s[i] ELSE g[i - 1] \o s[i]]
    BY Concatenation DEF Concatenates
  <1>3. f = [i \in 1 .. n |-> IF i = 1 THEN s[i] ELSE f[i - 1] \o s[i]]
    BY <1>2, Zenon
  <1> HIDE DEF f
  <1> QED BY <1>1, <1>3 DEF Concatenates

\* The elements of a flattened list.
LEMMA FlattenType ==
  ASSUME NEW T, NEW s \in Seq(Seq(T))
  PROVE  FlattenSeq(s) \in Seq(T)
  <1>0. Len(s) \in Nat /\ DOMAIN s = 1 .. Len(s) /\ \A i \in 1 .. Len(s) : s[i] \in Seq(T)
    OBVIOUS
  <1>1. CASE Len(s) = 0
    <2>1. FlattenSeq(s) = s /\ s = <<>>
      BY <1>1 DEF FlattenSeq
    <2> QED BY <2>1
  <1>2. CASE Len(s) # 0
    <2>1. PICK f : Concatenates(f, Len(s), s) /\ FlattenSeq(s) = f[Len(s)]
      BY <1>0, <1>2, Flattened
    <2> DEFINE S == {i \in Nat : i \in 1 .. Len(s) => f[i] \in Seq(T)}
    <2>2. \A i \in 1 .. Len(s) : f[i] = IF i = 1 THEN s[i] ELSE f[i - 1] \o s[i]
      BY <2>1 DEF Concatenates
    <2>3. 0 \in S
      OBVIOUS
    <2>4. ASSUME NEW i \in Nat, i \in S PROVE i + 1 \in S
      <3> SUFFICES ASSUME i + 1 \in 1 .. Len(s) PROVE f[i + 1] \in Seq(T)
        OBVIOUS
      <3>1. i + 1 - 1 = i /\ s[i + 1] \in Seq(T)
        BY <1>0
      <3>2. CASE i = 0
        BY <2>2, <3>1, <3>2
      <3>3. CASE i # 0
        <4>1. f[i] \in Seq(T)
          BY <1>0, <2>4, <3>3
        <4>2. f[i + 1] = f[i] \o s[i + 1]
          <5>1. f[i + 1] = IF i + 1 = 1 THEN s[i + 1] ELSE f[i + 1 - 1] \o s[i + 1]
            BY <2>2
          <5>2. i + 1 # 1
            BY <3>3
          <5> QED BY <3>1, <5>1, <5>2
        <4> QED BY <3>1, <4>1, <4>2
      <3> QED BY <3>2, <3>3
    <2> HIDE DEF S
    <2>5. Nat \subseteq S
      BY <2>3, <2>4, Induction
    <2>6. Len(s) \in 1 .. Len(s)
      BY <1>0, <1>2
    <2> QED BY <1>0, <2>1, <2>5, <2>6 DEF S
  <1> QED BY <1>1, <1>2

\* The last sequence of a list comes at the end.
LEMMA FlattenLast ==
  ASSUME NEW T, NEW s \in Seq(Seq(T)), NEW t \in Seq(Seq(T)),
         Len(t) = Len(s) + 1, \A i \in 1 .. Len(s) : t[i] = s[i]
  PROVE  FlattenSeq(t) = FlattenSeq(s) \o t[Len(t)]
  <1>0. Len(s) \in Nat /\ Len(t) \in Nat /\ Len(t) # 0 /\ t[Len(t)] \in Seq(T)
    OBVIOUS
  <1>1. PICK g : Concatenates(g, Len(t), t) /\ FlattenSeq(t) = g[Len(t)]
    BY <1>0, Flattened
  <1>2. \A i \in 1 .. Len(t) : g[i] = IF i = 1 THEN t[i] ELSE g[i - 1] \o t[i]
    BY <1>1 DEF Concatenates
  <1>3. CASE Len(s) = 0
    <2>1. FlattenSeq(s) = s /\ s = <<>>
      BY <1>3 DEF FlattenSeq
    <2>2. FlattenSeq(t) = t[Len(t)]
      BY <1>0, <1>1, <1>2, <1>3
    <2> QED BY <1>0, <2>1, <2>2
  <1>4. CASE Len(s) # 0
    <2>1. PICK f : Concatenates(f, Len(s), s) /\ FlattenSeq(s) = f[Len(s)]
      BY <1>0, <1>4, Flattened
    <2>2. g[Len(s)] = f[Len(s)]
      <3>1. \A i \in 1 .. Len(s) : f[i] = g[i]
        <4>1. \A i \in 1 .. Len(s) : s[i] = t[i]
          OBVIOUS
        <4>2. Len(s) <= Len(t)
          BY <1>0
        <4>3. Agree(s, t, Len(s))
          BY <4>1 DEF Agree
        <4> QED BY <1>0, <1>1, <2>1, <4>2, <4>3, ConcatenationUnique
      <3> QED BY <1>0, <1>4, <3>1
    <2>3. Len(t) \in 1 .. Len(t) /\ Len(t) # 1 /\ Len(t) - 1 = Len(s)
      BY <1>0, <1>4
    <2> QED BY <1>1, <1>2, <2>1, <2>2, <2>3
  <1> QED BY <1>3, <1>4

-----------------------------------------------------------------------------
(***************************************************************************)
(* The entries of the blocks, as functions of the arrays that hold them.   *)
(***************************************************************************)
Data == Entries \cup {None}
EntryArrays == [Blocks -> [1 .. BLOCK_NUM -> Data]]
SizeArrays  == [Blocks -> 0 .. BLOCK_NUM]

Part(e, z, b)  == SubSeq(e[b], 1, z[b])
Parts(e, z, s) == [i \in DOMAIN s |-> Part(e, z, s[i])]

LEMMA ContentsAreParts ==
  ASSUME NEW o
  PROVE  /\ Contents(o) = FlattenSeq(Parts(entries, size, OwnBlocks(o)))
         /\ Contents(o)' = FlattenSeq(Parts(entries', size', OwnBlocks(o)'))
  BY DEF Contents, Parts, Part

LEMMA PartType ==
  ASSUME NEW e \in EntryArrays, NEW z \in SizeArrays, NEW b \in Blocks
  PROVE  Part(e, z, b) \in Seq(Data) /\ Len(Part(e, z, b)) = z[b]
  <1>1. e[b] \in [1 .. BLOCK_NUM -> Data] /\ z[b] \in 0 .. BLOCK_NUM
    BY DEF EntryArrays, SizeArrays
  <1>2. BLOCK_NUM \in Nat
    BY BlocksAssumption
  <1>3. e[b] \in Seq(Data)
    BY <1>1, <1>2
  <1>4. Part(e, z, b) = [i \in 1 .. z[b] |-> e[b][i]]
    BY <1>1, <1>2, <1>3 DEF Part
  <1>5. \A i \in 1 .. z[b] : e[b][i] \in Data
    BY <1>1, <1>2
  <1> QED BY <1>1, <1>4, <1>5

LEMMA PartsType ==
  ASSUME NEW e \in EntryArrays, NEW z \in SizeArrays, NEW s \in Seq(Blocks)
  PROVE  /\ Parts(e, z, s) \in Seq(Seq(Data)) /\ Len(Parts(e, z, s)) = Len(s)
         /\ \A i \in 1 .. Len(s) : Parts(e, z, s)[i] = Part(e, z, s[i])
         /\ FlattenSeq(Parts(e, z, s)) \in Seq(Data)
  <1> DEFINE p == Parts(e, z, s)
  <1>1. DOMAIN s = 1 .. Len(s) /\ Len(s) \in Nat /\ \A i \in 1 .. Len(s) : s[i] \in Blocks
    OBVIOUS
  <1>2. p = [i \in 1 .. Len(s) |-> Part(e, z, s[i])]
    BY <1>1 DEF Parts
  <1>3. \A i \in 1 .. Len(s) : Part(e, z, s[i]) \in Seq(Data)
    BY <1>1, PartType
  <1> HIDE DEF p
  <1>4. p \in Seq(Seq(Data)) /\ Len(p) = Len(s)
    BY <1>1, <1>2, <1>3
  <1>5. FlattenSeq(p) \in Seq(Data)
    BY <1>4, FlattenType
  <1> QED BY <1>2, <1>4, <1>5 DEF p

\* The entries of the last block come last.
LEMMA PartsGrow ==
  ASSUME NEW e \in EntryArrays, NEW z \in SizeArrays,
         NEW s \in Seq(Blocks), NEW t \in Seq(Blocks),
         Len(t) = Len(s) + 1, \A i \in 1 .. Len(s) : t[i] = s[i]
  PROVE  FlattenSeq(Parts(e, z, t))
           = FlattenSeq(Parts(e, z, s)) \o Part(e, z, t[Len(t)])
  <1> DEFINE p == Parts(e, z, s)
             r == Parts(e, z, t)
  <1>1. /\ p \in Seq(Seq(Data)) /\ Len(p) = Len(s)
        /\ \A i \in 1 .. Len(s) : p[i] = Part(e, z, s[i])
    BY PartsType
  <1>2. /\ r \in Seq(Seq(Data)) /\ Len(r) = Len(t)
        /\ \A i \in 1 .. Len(t) : r[i] = Part(e, z, t[i])
    BY PartsType
  <1>3. Len(s) \in Nat /\ Len(t) \in Nat
    OBVIOUS
  <1> HIDE DEF p, r
  <1>4. \A i \in 1 .. Len(p) : r[i] = p[i]
    BY <1>1, <1>2, <1>3
  <1>5. Len(r) = Len(p) + 1 /\ r[Len(r)] = Part(e, z, t[Len(t)])
    BY <1>1, <1>2, <1>3
  <1>6. FlattenSeq(r) = FlattenSeq(p) \o r[Len(r)]
    BY <1>1, <1>2, <1>4, <1>5, FlattenLast
  <1> QED BY <1>5, <1>6 DEF p, r

\* Lists whose blocks hold the same entries.
LEMMA PartsSame ==
  ASSUME NEW e, NEW z, NEW f, NEW w, NEW s,
         \A i \in DOMAIN s : e[s[i]] = f[s[i]] /\ z[s[i]] = w[s[i]]
  PROVE  Parts(e, z, s) = Parts(f, w, s)
  BY DEF Parts, Part

(***************************************************************************)
(* The entry of an append is at hand from its request to its end.          *)
(***************************************************************************)
DataInv ==
  /\ entries \in EntryArrays /\ arg \in [Logs -> Data]
  /\ \A o \in Logs : arg[o] # None <=> pc[o] \in Appending

FullInv == BlockInv /\ PackedInv /\ DataInv

\* What DataInv says of a step in which one user moves from l to m.
LEMMA DataStep ==
  ASSUME BlockInv, DataInv, NEW o \in Logs, NEW m, Goto(o, m),
         entries' \in EntryArrays, arg'[o] \in Data,
         arg'[o] # None <=> m \in Appending,
         arg' = arg \/ \E x : arg' = [arg EXCEPT ![o] = x]
  PROVE  DataInv'
  <1>1. pc'[o] = m /\ \A q \in Logs : q # o => pc'[q] = pc[q]
    BY MovesOn DEF BlockInv
  <1>2. arg' \in [Logs -> Data] /\ \A q \in Logs : q # o => arg'[q] = arg[q]
    BY DEF DataInv
  <1>3. ASSUME NEW q \in Logs PROVE arg'[q] # None <=> pc'[q] \in Appending
    <2>1. CASE q = o
      BY <1>1, <2>1
    <2>2. CASE q # o
      <3>1. pc'[q] = pc[q] /\ arg'[q] = arg[q]
        BY <1>1, <1>2, <2>2
      <3> QED BY <3>1 DEF DataInv
    <2> QED BY <2>1, <2>2
  <1>4. entries' \in EntryArrays'
    BY DEF EntryArrays, Data
  <1> QED BY <1>2, <1>3, <1>4 DEF DataInv, Data

\* Most steps leave the entries and the argument alone.
LEMMA DataQuiet ==
  ASSUME BlockInv, DataInv, NEW o \in Logs, NEW m, Goto(o, m),
         entries' = entries, arg' = arg, pc[o] \in Appending <=> m \in Appending
  PROVE  DataInv'
  <1>1. entries' \in EntryArrays /\ arg'[o] \in Data
    BY DEF DataInv
  <1>2. arg'[o] # None <=> m \in Appending
    BY DEF DataInv
  <1> QED BY <1>1, <1>2, DataStep

\* log_block_t::append in a block that is not full.
LEMMA BlockAppended ==
  ASSUME FullInv, NEW b \in Blocks, NEW x \in Entries, BlockAppend(b, x), ~Full(b)
  PROVE  /\ entries' \in EntryArrays /\ size' \in SizeArrays
         /\ \A c \in Blocks : c # b => entries'[c] = entries[c] /\ size'[c] = size[c]
         /\ Part(entries', size', b) = Append(Part(entries, size, b), x)
  <1> DEFINE n == size[b]
             y == entries[b]
  <1>1. n \in 0 .. BLOCK_NUM /\ n # BLOCK_NUM /\ BLOCK_NUM \in Nat
    BY BlocksAssumption DEF FullInv, PackedInv, Full
  <1>2. n + 1 \in 1 .. BLOCK_NUM /\ n + 1 \in 0 .. BLOCK_NUM /\ n \in Nat
    BY <1>1
  <1>3. y \in [1 .. BLOCK_NUM -> Data]
    BY DEF FullInv, DataInv, EntryArrays
  <1>4. /\ entries \in [Blocks -> [1 .. BLOCK_NUM -> Data]]
        /\ size \in [Blocks -> 0 .. BLOCK_NUM]
    BY DEF FullInv, DataInv, PackedInv, EntryArrays
  <1>5. /\ entries' = [entries EXCEPT ![b][n + 1] = x]
        /\ size' = [size EXCEPT ![b] = n + 1]
    BY DEF BlockAppend
  <1> DEFINE w == [y EXCEPT ![n + 1] = x]
  <1>6. entries' = [entries EXCEPT ![b] = w]
    BY <1>4, <1>5
  <1> HIDE DEF n, y
  <1>7. w \in [1 .. BLOCK_NUM -> Data]
    BY <1>3 DEF Data
  <1>8. w[n + 1] = x /\ \A i \in 1 .. n : w[i] = y[i]
    BY <1>1, <1>2, <1>3
  <1> HIDE DEF w
  <1>9. entries' \in EntryArrays /\ size' \in SizeArrays
    BY <1>2, <1>4, <1>5, <1>6, <1>7 DEF EntryArrays, SizeArrays
  <1>10. \A c \in Blocks : c # b => entries'[c] = entries[c] /\ size'[c] = size[c]
    BY <1>4, <1>5, <1>6
  <1>11. entries'[b] = w /\ size'[b] = n + 1
    BY <1>4, <1>5, <1>6
  <1>12. Part(entries', size', b) = SubSeq(w, 1, n + 1)
    BY <1>11 DEF Part
  <1>13. Part(entries, size, b) = SubSeq(y, 1, n)
    BY DEF Part, n, y
  <1>14. SubSeq(w, 1, n + 1) = Append(SubSeq(y, 1, n), x)
    <2>1. w \in Seq(Data) /\ y \in Seq(Data) /\ Len(w) = BLOCK_NUM /\ Len(y) = BLOCK_NUM
      BY <1>1, <1>3, <1>7
    <2> DEFINE u == SubSeq(w, 1, n + 1)
               v == Append(SubSeq(y, 1, n), x)
    <2>2. u = [i \in 1 .. n + 1 |-> w[i]]
      BY <1>2, <2>1
    <2>3. SubSeq(y, 1, n) = [i \in 1 .. n |-> y[i]]
      BY <1>1, <1>2, <2>1
    <2>4. SubSeq(y, 1, n) \in Seq(Data) /\ Len(SubSeq(y, 1, n)) = n
      BY <1>1, <1>2, <2>1
    <2>5. v \in Seq(Data) /\ Len(v) = n + 1 /\ v[n + 1] = x
          /\ \A i \in 1 .. n : v[i] = y[i]
      BY <1>2, <2>3, <2>4 DEF Data
    <2>6. u \in Seq(Data) /\ Len(u) = n + 1
      BY <1>1, <1>2, <2>1
    <2>7. \A i \in 1 .. n + 1 : u[i] = v[i]
      <3>1. \A i \in 1 .. n + 1 : i = n + 1 \/ i \in 1 .. n
        BY <1>2
      <3>2. \A i \in 1 .. n + 1 : u[i] = w[i]
        BY <2>2
      <3> HIDE DEF u, v
      <3> QED BY <1>8, <2>5, <3>1, <3>2
    <2> HIDE DEF u, v
    <2>8. u = v
      BY <2>5, <2>6, <2>7
    <2> QED BY <2>8 DEF u, v
  <1> QED BY <1>9, <1>10, <1>12, <1>13, <1>14

LEMMA DataInit ==
  ASSUME Init PROVE DataInv
  <1>1. entries = [b \in Blocks |-> [i \in 1 .. BLOCK_NUM |-> None]]
    BY DEF Init
  <1>2. entries \in EntryArrays
    BY <1>1 DEF EntryArrays, Data
  <1>3. arg \in [Logs -> Data] /\ \A o \in Logs : arg[o] = None /\ pc[o] = "idle"
    BY DEF Init, Data
  <1> QED BY <1>2, <1>3 DEF DataInv, Appending

LEMMA TailAppend ==
  ASSUME FullInv, NEW o \in Logs, pc[o] \in {"append", "last"}
  PROVE  /\ block_list[o] # <<>> /\ Last(block_list[o]) \in Blocks
         /\ arg[o] \in Entries /\ arg[o] # None
         /\ pc[o] = "last" => ~Full(Last(block_list[o]))
  <1>1. block_list[o] # <<>>
    BY DEF FullInv, BlockInv, ShapeInv
  <1>2. /\ Last(block_list[o]) \in Blocks
        /\ Last(block_list[o]) = block_list[o][Len(block_list[o])]
    BY <1>1, TailBlock DEF FullInv
  <1>3. arg[o] \in Data /\ arg[o] # None
    BY DEF FullInv, DataInv, Appending
  <1>4. ASSUME pc[o] = "last" PROVE ~Full(Last(block_list[o]))
    <2>1. size[Last(block_list[o])] = 0
      BY <1>2, <1>4 DEF FullInv, PackedInv, Packed
    <2> QED BY <2>1, BlocksAssumption DEF Full
  <1> QED BY <1>1, <1>2, <1>3, <1>4 DEF Data

LEMMA DataAppend ==
  ASSUME FullInv, NEW o \in Logs,
         \/ \E e \in Entries : BeginAppend(o, e)
         \/ AppendToTail(o) \/ AppendToNew(o)
  PROVE  DataInv'
  <1>0. BlockInv /\ DataInv /\ arg \in [Logs -> Data] /\ entries \in EntryArrays
    BY DEF FullInv, DataInv
  <1>1. ASSUME NEW e \in Entries, BeginAppend(o, e) PROVE DataInv'
    <2> DEFINE m == IF block_list[o] = <<>> THEN "first" ELSE "append"
    <2>1. /\ Goto(o, m) /\ entries' = entries /\ arg' = [arg EXCEPT ![o] = e]
      BY <1>1 DEF BeginAppend, bvars
    <2>2. m \in Appending
      BY DEF Appending
    <2> HIDE DEF m
    <2>3. arg'[o] = e /\ e \in Data /\ e # None
      BY <1>0, <2>1, BlocksAssumption DEF Data
    <2> QED BY <1>0, <2>1, <2>2, <2>3, DataStep
  <1>2. ASSUME NEW b \in Blocks, BlockAppend(b, arg[o]), ~Full(b),
               pc[o] \in {"append", "last"}, Goto(o, "idle"),
               arg' = [arg EXCEPT ![o] = None]
        PROVE  DataInv'
    <2>1. arg[o] \in Entries
      BY <1>2, TailAppend
    <2>2. entries' \in EntryArrays
      BY <1>2, <2>1, BlockAppended
    <2>3. arg'[o] = None /\ None \in Data
      BY <1>0, <1>2 DEF Data
    <2>4. "idle" \notin Appending
      BY DEF Appending
    <2> QED BY <1>0, <1>2, <2>2, <2>3, <2>4, DataStep
  <1>3. ASSUME AppendToTail(o) PROVE DataInv'
    <2> DEFINE b == Last(block_list[o])
    <2>1. /\ pc[o] = "append" /\ BlockAppend(b, arg[o])
          /\ Goto(o, IF Full(b) THEN "full" ELSE "idle")
          /\ arg' = IF Full(b) THEN arg ELSE [arg EXCEPT ![o] = None]
      BY <1>3 DEF AppendToTail
    <2>2. b \in Blocks
      BY <2>1, TailAppend
    <2> HIDE DEF b
    <2>3. CASE Full(b)
      <3>1. entries' = entries /\ arg' = arg /\ Goto(o, "full")
        BY <2>1, <2>3 DEF BlockAppend
      <3>2. pc[o] \in Appending <=> "full" \in Appending
        BY <2>1 DEF Appending
      <3> QED BY <1>0, <3>1, <3>2, DataQuiet
    <2>4. CASE ~Full(b)
      BY <1>2, <2>1, <2>2, <2>4
    <2> QED BY <2>3, <2>4
  <1>4. ASSUME AppendToNew(o) PROVE DataInv'
    <2> DEFINE b == Last(block_list[o])
    <2>1. /\ pc[o] = "last" /\ BlockAppend(b, arg[o]) /\ Goto(o, "idle")
          /\ arg' = [arg EXCEPT ![o] = None]
      BY <1>4 DEF AppendToNew
    <2>2. b \in Blocks /\ ~Full(b)
      BY <2>1, TailAppend
    <2> QED BY <1>2, <2>1, <2>2
  <1> QED BY <1>1, <1>3, <1>4

LEMMA DataOther ==
  ASSUME FullInv, NEW o \in Logs,
         \/ TakeBlock(o) \/ LinkBlock(o) \/ BeginClear(o) \/ ClearTail(o)
         \/ GiveBack(o) \/ Unlink(o) \/ EndClear(o)
  PROVE  DataInv'
  <1>0. BlockInv /\ DataInv
    BY DEF FullInv
  <1>1. entries' = entries /\ arg' = arg
    BY DEF TakeBlock, LinkBlock, BeginClear, ClearTail, GiveBack, Unlink, EndClear,
           bvars
  <1>2. \E m : Goto(o, m) /\ (pc[o] \in Appending <=> m \in Appending)
    <2>1. ASSUME NEW f, NEW m, pc[o] = f, Goto(o, m),
                 <<f, m>> \in {<<"first", "link">>, <<"full", "relink">>,
                               <<"link", "append">>, <<"relink", "last">>,
                               <<"idle", "clear">>, <<"clear", "push">>,
                               <<"push", "popback">>, <<"popback", "clear">>,
                               <<"clear", "idle">>}
          PROVE  \E l : Goto(o, l) /\ (pc[o] \in Appending <=> l \in Appending)
      <3>1. pc[o] \in Appending <=> m \in Appending
        BY <2>1 DEF Appending
      <3> QED BY <2>1, <3>1
    <2>2. CASE TakeBlock(o)
      BY <2>1, <2>2 DEF TakeBlock
    <2>3. CASE LinkBlock(o)
      BY <2>1, <2>3 DEF LinkBlock
    <2>4. CASE BeginClear(o)
      BY <2>1, <2>4 DEF BeginClear
    <2>5. CASE ClearTail(o)
      BY <2>1, <2>5 DEF ClearTail
    <2>6. CASE GiveBack(o)
      BY <2>1, <2>6 DEF GiveBack
    <2>7. CASE Unlink(o)
      BY <2>1, <2>7 DEF Unlink
    <2>8. CASE EndClear(o)
      BY <2>1, <2>8 DEF EndClear
    <2> QED BY <2>2, <2>3, <2>4, <2>5, <2>6, <2>7, <2>8
  <1> QED BY <1>0, <1>1, <1>2, DataQuiet

LEMMA DataStutter ==
  ASSUME DataInv, UNCHANGED <<entries, arg, pc>> PROVE DataInv'
  BY DEF DataInv, EntryArrays, Data

LEMMA FullInvHolds == Spec => []FullInv
  <1>1. Init => DataInv
    BY DataInit
  <1>2. FullInv /\ [Next]_vars => DataInv'
    <2> SUFFICES ASSUME FullInv, [Next]_vars PROVE DataInv'
      OBVIOUS
    <2>1. ASSUME NEW o \in Logs, Use(o) PROVE DataInv'
      BY <2>1, DataAppend, DataOther DEF Use
    <2>2. ASSUME NEW o \in Logs, Exhausted(o) PROVE DataInv'
      BY <2>2, DataStutter DEF Exhausted, bvars, FullInv
    <2>3. ASSUME UNCHANGED vars PROVE DataInv'
      BY <2>3, DataStutter DEF vars, bvars, FullInv
    <2> QED BY <2>1, <2>2, <2>3 DEF Next, Aborted
  <1>3. BlockInv /\ PackedInv /\ DataInv <=> FullInv
    BY DEF FullInv
  <1> QED BY <1>1, <1>2, <1>3, BlockInvHolds, PackedInvHolds, PTL DEF Spec

-----------------------------------------------------------------------------
(***************************************************************************)
(* What a step does to the entries of the logs.                            *)
(***************************************************************************)

\* A log whose blocks and their entries stay has the same entries.
LEMMA SameContents ==
  ASSUME BlockInv, NEW q \in Logs, OwnBlocks(q)' = OwnBlocks(q),
         \A b \in Linked(q) : entries'[b] = entries[b] /\ size'[b] = size[b]
  PROVE  Contents(q)' = Contents(q)
  <1> DEFINE s == OwnBlocks(q)
  <1>1. \A i \in DOMAIN s : s[i] \in Linked(q)
    BY DEF Linked, ToSet
  <1>2. Parts(entries', size', s) = Parts(entries, size, s)
    <2>1. \A i \in DOMAIN s : entries[s[i]] = entries'[s[i]] /\ size[s[i]] = size'[s[i]]
      BY <1>1
    <2> HIDE DEF s
    <2> QED BY <2>1, PartsSame
  <1> QED BY <1>2, ContentsAreParts

LEMMA OwnSame ==
  ASSUME NEW q \in Logs, block_list'[q] = block_list[q],
         pc'[q] = "popback" <=> pc[q] = "popback"
  PROVE  OwnBlocks(q)' = OwnBlocks(q)
  BY DEF OwnBlocks

\* A list of blocks without its last one.
LEMMA FrontParts ==
  ASSUME NEW e \in EntryArrays, NEW z \in SizeArrays,
         NEW s \in Seq(Blocks), s # <<>>
  PROVE  /\ Front(s) \in Seq(Blocks)
         /\ FlattenSeq(Parts(e, z, s))
              = FlattenSeq(Parts(e, z, Front(s))) \o Part(e, z, Last(s))
         /\ FlattenSeq(Parts(e, z, Front(s))) \in Seq(Data)
         /\ Part(e, z, Last(s)) \in Seq(Data)
  <1> DEFINE f == Front(s)
             n == Len(s)
  <1>1. n \in Nat /\ n # 0 /\ Last(s) = s[n] /\ s[n] \in Blocks
    BY DEF Last
  <1>2. f = [i \in 1 .. n - 1 |-> s[i]]
    BY <1>1 DEF Front
  <1>3. f \in Seq(Blocks) /\ Len(f) = n - 1
    BY <1>1, <1>2
  <1>4. \A i \in 1 .. Len(f) : s[i] = f[i]
    BY <1>2, <1>3
  <1> HIDE DEF f
  <1>5. n = Len(f) + 1
    BY <1>1, <1>3
  <1>6. FlattenSeq(Parts(e, z, s))
          = FlattenSeq(Parts(e, z, f)) \o Part(e, z, s[Len(s)])
    BY <1>3, <1>4, <1>5, PartsGrow
  <1>7. FlattenSeq(Parts(e, z, f)) \in Seq(Data)
    BY <1>3, PartsType
  <1>8. Part(e, z, s[n]) \in Seq(Data)
    BY <1>1, PartType
  <1> QED BY <1>1, <1>3, <1>6, <1>7, <1>8 DEF f

(***************************************************************************)
(* A step that changes the last block of a log changes the end of its      *)
(* contents, and of no other.                                              *)
(***************************************************************************)
LEMMA TailContents ==
  ASSUME FullInv, NEW o \in Logs, block_list[o] # <<>>, block_list' = block_list,
         NEW m, Goto(o, m), m # "popback", pc[o] # "popback",
         entries' \in EntryArrays, size' \in SizeArrays,
         \A c \in Blocks : c # Last(block_list[o]) =>
           entries'[c] = entries[c] /\ size'[c] = size[c]
  PROVE  LET b == Last(block_list[o])
             p == Part(entries, size, b)
             r == Part(entries', size', b)
         IN  /\ p \in Seq(Data) /\ r \in Seq(Data)
             /\ \E f \in Seq(Data) : /\ Contents(o) = f \o p
                                     /\ Contents(o)' = f \o r
             /\ \A q \in Logs : q # o => Contents(q)' = Contents(q)
  <1> DEFINE s == block_list[o]
             b == Last(s)
             f == FlattenSeq(Parts(entries, size, Front(s)))
  <1>0. BlockInv /\ entries \in EntryArrays /\ size \in SizeArrays
    BY DEF FullInv, DataInv, PackedInv, SizeArrays
  <1>1. pc'[o] = m /\ \A q \in Logs : q # o => pc'[q] = pc[q]
    BY <1>0, MovesOn DEF BlockInv
  <1>2. OwnBlocks(o) = s /\ OwnBlocks(o)' = s
    BY <1>1 DEF OwnBlocks
  <1>3. /\ s \in Seq(Blocks) /\ s # <<>> /\ b \in Blocks /\ Len(s) \in Nat \ {0}
        /\ \A i \in 1 .. Len(s) - 1 : s[i] \in Blocks /\ s[i] # b
        /\ \A q \in Logs : q # o => b \notin Linked(q)
    BY <1>0, TailBlock
  <1>4. /\ Contents(o) = FlattenSeq(Parts(entries, size, s))
        /\ Contents(o)' = FlattenSeq(Parts(entries', size', s))
    BY <1>2, ContentsAreParts
  <1>5. \A c \in Blocks : c # b => entries'[c] = entries[c] /\ size'[c] = size[c]
    OBVIOUS
  <1>6. ASSUME NEW q \in Logs, q # o PROVE Contents(q)' = Contents(q)
    <2>1. OwnBlocks(q)' = OwnBlocks(q)
      BY <1>1, <1>6, OwnSame
    <2>2. Linked(q) \subseteq Blocks /\ b \notin Linked(q)
      BY <1>0, <1>3, <1>6, HeldBlocks
    <2>3. \A c \in Linked(q) : entries'[c] = entries[c] /\ size'[c] = size[c]
      BY <1>5, <2>2
    <2> QED BY <1>0, <2>1, <2>3, SameContents
  <1> HIDE DEF b
  <1>7. \A i \in DOMAIN Front(s) : Front(s)[i] \in Blocks /\ Front(s)[i] # b
    <2> HIDE DEF s
    <2>1. Front(s) = [i \in 1 .. Len(s) - 1 |-> s[i]]
      BY <1>3 DEF Front
    <2> QED BY <1>3, <2>1
  <1>8. Parts(entries', size', Front(s)) = Parts(entries, size, Front(s))
    <2>1. \A i \in DOMAIN Front(s) : /\ entries[Front(s)[i]] = entries'[Front(s)[i]]
                                     /\ size[Front(s)[i]] = size'[Front(s)[i]]
      BY <1>5, <1>7
    <2> QED BY <2>1, PartsSame
  <1>9. /\ f \in Seq(Data) /\ Part(entries, size, b) \in Seq(Data)
        /\ Contents(o) = f \o Part(entries, size, b)
    BY <1>0, <1>3, <1>4, FrontParts DEF b
  <1>10. /\ Part(entries', size', b) \in Seq(Data)
         /\ Contents(o)' = f \o Part(entries', size', b)
    BY <1>3, <1>4, <1>8, FrontParts DEF b
  <1> HIDE DEF f
  <1>11. \E g \in Seq(Data) : /\ Contents(o) = g \o Part(entries, size, b)
                              /\ Contents(o)' = g \o Part(entries', size', b)
    BY <1>9, <1>10
  <1> QED BY <1>6, <1>9, <1>10, <1>11 DEF b

-----------------------------------------------------------------------------
(***************************************************************************)
(* The steps of LogStore, one log at a time.                               *)
(***************************************************************************)
SameLogs    == \A q \in Logs : Contents(q)' = Contents(q)
SameClears  == \A q \in Logs : pc'[q] \in Clearing <=> pc[q] \in Clearing
LogsOf      == [o \in Logs |-> Contents(o)]
ClearingsOf == [o \in Logs |-> pc[o] \in Clearing]

LEMMA LogsStay == ASSUME SameLogs PROVE LogsOf' = LogsOf
  BY DEF SameLogs, LogsOf

LEMMA ClearingsStay == ASSUME SameClears PROVE ClearingsOf' = ClearingsOf
  <1>1. \A q \in Logs : (pc'[q] \in Clearing) = (pc[q] \in Clearing)
    BY DEF SameClears
  <1> QED BY <1>1, Zenon DEF ClearingsOf

LEMMA ClearsStay ==
  ASSUME BlockInv, NEW o \in Logs, NEW m, Goto(o, m),
         m \in Clearing <=> pc[o] \in Clearing
  PROVE  SameClears
  <1>1. pc'[o] = m /\ \A q \in Logs : q # o => pc'[q] = pc[q]
    BY MovesOn DEF BlockInv
  <1> QED BY <1>1 DEF SameClears

LEMMA ClearChanges ==
  ASSUME BlockInv, NEW o \in Logs, NEW m, Goto(o, m)
  PROVE  /\ m \in Clearing => ClearingsOf' = [ClearingsOf EXCEPT ![o] = TRUE]
         /\ m \notin Clearing => ClearingsOf' = [ClearingsOf EXCEPT ![o] = FALSE]
  <1>1. pc'[o] = m /\ \A q \in Logs : q # o => pc'[q] = pc[q]
    BY MovesOn DEF BlockInv
  <1>2. ASSUME m \in Clearing PROVE ClearingsOf' = [ClearingsOf EXCEPT ![o] = TRUE]
    <2>1. \A q \in Logs : (pc'[q] \in Clearing) = IF q = o THEN TRUE ELSE pc[q] \in Clearing
      BY <1>1, <1>2
    <2> QED BY <2>1, Zenon DEF ClearingsOf
  <1>3. ASSUME m \notin Clearing PROVE ClearingsOf' = [ClearingsOf EXCEPT ![o] = FALSE]
    <2>1. ASSUME NEW q \in Logs
          PROVE  (pc'[q] \in Clearing) = IF q = o THEN FALSE ELSE pc[q] \in Clearing
      <3>1. CASE q = o
        <4>1. ~(pc'[q] \in Clearing)
          BY <1>1, <1>3, <3>1
        <4>2. (pc'[q] \in Clearing) = FALSE
          BY <4>1
        <4> QED BY <3>1, <4>2
      <3>2. CASE q # o
        BY <1>1, <3>2
      <3> QED BY <3>1, <3>2
    <2> QED BY <2>1, Zenon DEF ClearingsOf
  <1> QED BY <1>2, <1>3

LEMMA LogChanges ==
  ASSUME NEW o \in Logs, NEW l, Contents(o)' = l,
         \A q \in Logs : q # o => Contents(q)' = Contents(q)
  PROVE  LogsOf' = [LogsOf EXCEPT ![o] = l] /\ LogsOf[o] = Contents(o)
  BY DEF LogsOf

\* A step that changes neither a log, nor an argument, nor a phase.
LEMMA Invisible ==
  ASSUME SameLogs, SameClears, arg' = arg
  PROVE  UNCHANGED Store!vars
  BY LogsStay, ClearingsStay DEF Store!vars, LogsOf, ClearingsOf

\* The entry is in the log when append returns.
LEMMA EntryAppended ==
  ASSUME FullInv, NEW o \in Logs, pc[o] \in {"append", "last"},
         BlockAppend(Last(block_list[o]), arg[o]), ~Full(Last(block_list[o])),
         Goto(o, "idle"), arg' = [arg EXCEPT ![o] = None],
         block_list' = block_list
  PROVE  Store!Append1(o)
  <1> DEFINE b == Last(block_list[o])
             x == arg[o]
             p == Part(entries, size, b)
             r == Part(entries', size', b)
  <1>1. b \in Blocks /\ x \in Entries /\ x # None /\ block_list[o] # <<>>
    BY TailAppend
  <1>2. /\ entries' \in EntryArrays /\ size' \in SizeArrays
        /\ \A c \in Blocks : c # b => entries'[c] = entries[c] /\ size'[c] = size[c]
        /\ r = Append(p, x)
    BY <1>1, BlockAppended
  <1>3. /\ p \in Seq(Data) /\ r \in Seq(Data)
        /\ \E f \in Seq(Data) : Contents(o) = f \o p /\ Contents(o)' = f \o r
        /\ \A q \in Logs : q # o => Contents(q)' = Contents(q)
    BY <1>1, <1>2, TailContents
  <1> HIDE DEF p, r
  <1>4. PICK f \in Seq(Data) : Contents(o) = f \o p /\ Contents(o)' = f \o r
    BY <1>3
  <1>5. x \in Data
    BY <1>1 DEF Data
  <1>6. Contents(o)' = Append(Contents(o), x)
    <2> HIDE DEF x
    <2> QED BY <1>2, <1>3, <1>4, <1>5
  <1>7. LogsOf' = [LogsOf EXCEPT ![o] = Append(@, x)]
    BY <1>3, <1>6, LogChanges
  <1>8. SameClears
    <2>1. "idle" \in Clearing <=> pc[o] \in Clearing
      BY DEF Clearing
    <2> QED BY <2>1, ClearsStay DEF FullInv
  <1>9. ClearingsOf' = ClearingsOf
    BY <1>8, ClearingsStay
  <1> QED BY <1>1, <1>7, <1>9 DEF Store!Append1, LogsOf, ClearingsOf

LEMMA AppendSimulated ==
  ASSUME FullInv, NEW o \in Logs,
         \/ \E e \in Entries : BeginAppend(o, e)
         \/ AppendToTail(o) \/ AppendToNew(o)
  PROVE  Store!Next \/ UNCHANGED Store!vars
  <1>0. BlockInv
    BY DEF FullInv
  <1>1. ASSUME NEW e \in Entries, BeginAppend(o, e) PROVE Store!Request(o, e)
    <2> DEFINE m == IF block_list[o] = <<>> THEN "first" ELSE "append"
    <2>1. /\ pc[o] = "idle" /\ Goto(o, m) /\ arg' = [arg EXCEPT ![o] = e]
          /\ entries' = entries /\ size' = size /\ block_list' = block_list
      BY <1>1 DEF BeginAppend, bvars
    <2>2. m \notin Clearing /\ pc[o] \notin Clearing /\ m # "popback"
      BY <2>1 DEF Clearing
    <2> HIDE DEF m
    <2>3. SameClears
      BY <1>0, <2>1, <2>2, ClearsStay
    <2>4. SameLogs
      <3>1. pc'[o] = m /\ \A q \in Logs : q # o => pc'[q] = pc[q]
        BY <1>0, <2>1, MovesOn DEF BlockInv
      <3>2. \A q \in Logs : OwnBlocks(q)' = OwnBlocks(q)
        BY <2>1, <2>2, <3>1, OwnSame
      <3> QED BY <1>0, <2>1, <3>2, SameContents DEF SameLogs
    <2>5. arg[o] = None
      BY <2>1 DEF FullInv, DataInv, Appending
    <2>6. LogsOf' = LogsOf /\ ClearingsOf' = ClearingsOf
      BY <2>3, <2>4, LogsStay, ClearingsStay
    <2>7. ~ClearingsOf[o]
      BY <2>2 DEF ClearingsOf
    <2> QED BY <2>1, <2>5, <2>6, <2>7
            DEF Store!Request, Store!Idle, LogsOf, ClearingsOf
  <1>2. ASSUME AppendToTail(o) PROVE Store!Append1(o) \/ UNCHANGED Store!vars
    <2> DEFINE b == Last(block_list[o])
    <2>1. /\ pc[o] = "append" /\ BlockAppend(b, arg[o])
          /\ Goto(o, IF Full(b) THEN "full" ELSE "idle")
          /\ arg' = IF Full(b) THEN arg ELSE [arg EXCEPT ![o] = None]
          /\ block_list' = block_list
      BY <1>2 DEF AppendToTail
    <2>2. CASE Full(b)
      <3>1. /\ entries' = entries /\ size' = size /\ arg' = arg /\ Goto(o, "full")
        BY <2>1, <2>2 DEF BlockAppend
      <3>2. SameClears
        <4>1. "full" \in Clearing <=> pc[o] \in Clearing
          BY <2>1 DEF Clearing
        <4> QED BY <1>0, <3>1, <4>1, ClearsStay
      <3>3. SameLogs
        <4>1. pc'[o] = "full" /\ \A q \in Logs : q # o => pc'[q] = pc[q]
          BY <1>0, <3>1, MovesOn DEF BlockInv
        <4>2. \A q \in Logs : OwnBlocks(q)' = OwnBlocks(q)
          BY <2>1, <4>1, OwnSame
        <4> QED BY <1>0, <3>1, <4>2, SameContents DEF SameLogs
      <3> QED BY <3>1, <3>2, <3>3, Invisible
    <2>3. CASE ~Full(b)
      <3>1. Goto(o, "idle") /\ arg' = [arg EXCEPT ![o] = None]
        BY <2>1, <2>3
      <3> QED BY <2>1, <2>3, <3>1, EntryAppended
    <2> QED BY <2>2, <2>3
  <1>3. ASSUME AppendToNew(o) PROVE Store!Append1(o)
    <2>1. /\ pc[o] = "last" /\ BlockAppend(Last(block_list[o]), arg[o])
          /\ Goto(o, "idle") /\ arg' = [arg EXCEPT ![o] = None]
          /\ block_list' = block_list
      BY <1>3 DEF AppendToNew
    <2>2. ~Full(Last(block_list[o]))
      BY <2>1, TailAppend
    <2> QED BY <2>1, <2>2, EntryAppended
  <1> QED BY <1>1, <1>2, <1>3 DEF Store!Next

LEMMA BlocksSimulated ==
  ASSUME FullInv, NEW o \in Logs, TakeBlock(o) \/ LinkBlock(o)
  PROVE  UNCHANGED Store!vars
  <1>0. BlockInv /\ entries \in EntryArrays /\ size \in SizeArrays
    BY DEF FullInv, DataInv, PackedInv, SizeArrays
  <1>1. CASE TakeBlock(o)
    <2>1. /\ \/ pc[o] = "first" /\ Goto(o, "link")
             \/ pc[o] = "full"  /\ Goto(o, "relink")
          /\ entries' = entries /\ size' = size /\ block_list' = block_list
          /\ arg' = arg
      BY <1>1 DEF TakeBlock, bvars
    <2>2. PICK m \in {"link", "relink"} : Goto(o, m)
      BY <2>1
    <2>3. m \notin Clearing /\ pc[o] \notin Clearing /\ m # "popback" /\ pc[o] # "popback"
      BY <2>1 DEF Clearing
    <2>4. SameClears
      BY <1>0, <2>2, <2>3, ClearsStay
    <2>5. SameLogs
      <3>1. pc'[o] = m /\ \A q \in Logs : q # o => pc'[q] = pc[q]
        BY <1>0, <2>2, MovesOn DEF BlockInv
      <3>2. \A q \in Logs : OwnBlocks(q)' = OwnBlocks(q)
        BY <2>1, <2>3, <3>1, OwnSame
      <3> QED BY <1>0, <2>1, <3>2, SameContents DEF SameLogs
    <2> QED BY <2>1, <2>4, <2>5, Invisible
  <1>2. CASE LinkBlock(o)
    <2> DEFINE s == block_list[o]
               b == got[o]
               t == Append(s, b)
    <2>1. /\ \/ pc[o] = "link"   /\ Goto(o, "append")
             \/ pc[o] = "relink" /\ Goto(o, "last")
          /\ block_list' = [block_list EXCEPT ![o] = t]
          /\ entries' = entries /\ size' = size /\ arg' = arg
      BY <1>2 DEF LinkBlock
    <2>2. PICK m \in {"append", "last"} : Goto(o, m)
      BY <2>1
    <2>3. m \notin Clearing /\ pc[o] \notin Clearing /\ m # "popback" /\ pc[o] # "popback"
      BY <2>1 DEF Clearing
    <2>4. SameClears
      BY <1>0, <2>2, <2>3, ClearsStay
    <2>5. pc'[o] = m /\ \A q \in Logs : q # o => pc'[q] = pc[q]
      BY <1>0, <2>2, MovesOn DEF BlockInv
    <2>6. s \in Seq(Blocks) /\ b \in Blocks /\ b # None /\ size[b] = 0
      <3>1. pc[o] \in {"link", "relink"}
        BY <2>1
      <3>2. b # None /\ b \in Blocks /\ s \in Seq(Blocks)
        BY <3>1 DEF FullInv, BlockInv, ShapeInv
      <3> QED BY <3>2 DEF FullInv, PackedInv
    <2>7. block_list'[o] = t /\ \A q \in Logs : q # o => block_list'[q] = block_list[q]
      BY <2>1 DEF FullInv, BlockInv, ShapeInv
    <2>8. /\ t \in Seq(Blocks) /\ Len(t) = Len(s) + 1 /\ t[Len(t)] = b
          /\ \A i \in 1 .. Len(s) : t[i] = s[i]
      BY <2>6
    <2>9. OwnBlocks(o) = s /\ OwnBlocks(o)' = t
      BY <2>3, <2>5, <2>7 DEF OwnBlocks
    <2> HIDE DEF s, b, t
    <2>10. FlattenSeq(Parts(entries, size, t))
             = FlattenSeq(Parts(entries, size, s)) \o Part(entries, size, b)
      BY <1>0, <2>6, <2>8, PartsGrow
    <2>11. Part(entries, size, b) = <<>>
      <3>1. Part(entries, size, b) \in Seq(Data) /\ Len(Part(entries, size, b)) = 0
        BY <1>0, <2>6, PartType
      <3> QED BY <3>1
    <2>12. Contents(o)' = Contents(o)
      <3>1. FlattenSeq(Parts(entries, size, s)) \in Seq(Data)
        BY <1>0, <2>6, PartsType
      <3>2. FlattenSeq(Parts(entries, size, t)) = FlattenSeq(Parts(entries, size, s))
        BY <2>10, <2>11, <3>1
      <3> QED BY <2>1, <2>9, <3>2, ContentsAreParts
    <2>13. \A q \in Logs : q # o => Contents(q)' = Contents(q)
      <3>1. \A q \in Logs : q # o => OwnBlocks(q)' = OwnBlocks(q)
        BY <2>5, <2>7, OwnSame
      <3> QED BY <1>0, <2>1, <3>1, SameContents
    <2> QED BY <2>1, <2>4, <2>12, <2>13, Invisible DEF SameLogs
  <1> QED BY <1>1, <1>2

\* The last block is emptied: its entries are the end of the log.
LEMMA TailCleared ==
  ASSUME FullInv, NEW o \in Logs, ClearTail(o)
  PROVE  Store!Next \/ UNCHANGED Store!vars
  <1> DEFINE b == Last(block_list[o])
             p == Part(entries, size, b)
             r == Part(entries', size', b)
  <1>0. BlockInv /\ entries \in EntryArrays /\ size \in SizeArrays
    BY DEF FullInv, DataInv, PackedInv, SizeArrays
  <1>1. /\ pc[o] = "clear" /\ block_list[o] # <<>> /\ Goto(o, "push")
        /\ size' = [size EXCEPT ![b] = 0]
        /\ entries' = entries /\ block_list' = block_list /\ arg' = arg
    BY DEF ClearTail
  <1>2. b \in Blocks
    BY <1>0, <1>1, TailBlock
  <1>3. /\ entries' \in EntryArrays /\ size' \in SizeArrays /\ size'[b] = 0
        /\ \A c \in Blocks : c # b => entries'[c] = entries[c] /\ size'[c] = size[c]
    BY <1>0, <1>1, <1>2, BlocksAssumption DEF SizeArrays
  <1>4. /\ p \in Seq(Data) /\ r \in Seq(Data)
        /\ \E f \in Seq(Data) : Contents(o) = f \o p /\ Contents(o)' = f \o r
        /\ \A q \in Logs : q # o => Contents(q)' = Contents(q)
    BY <1>1, <1>3, TailContents
  <1>5. r = <<>>
    <2>1. Len(r) = 0
      BY <1>2, <1>3, PartType
    <2> HIDE DEF r
    <2> QED BY <1>4, <2>1
  <1> HIDE DEF p, r
  <1>6. PICK f \in Seq(Data) : Contents(o) = f \o p /\ Contents(o)' = f \o r
    BY <1>4
  <1>7. Contents(o)' = f
    BY <1>5, <1>6
  <1>8. SameClears
    <2>1. "push" \in Clearing <=> pc[o] \in Clearing
      BY <1>1 DEF Clearing
    <2> QED BY <1>0, <1>1, <2>1, ClearsStay
  <1>9. ClearingsOf' = ClearingsOf /\ ClearingsOf[o]
    BY <1>1, <1>8, ClearingsStay DEF ClearingsOf, Clearing
  <1>10. CASE p = <<>>
    <2>1. Contents(o)' = Contents(o)
      BY <1>5, <1>6, <1>10
    <2>2. SameLogs
      BY <1>4, <2>1 DEF SameLogs
    <2> QED BY <1>1, <1>8, <2>2, Invisible
  <1>11. CASE p # <<>>
    <2> DEFINE n == Len(f)
    <2>1. /\ n \in Nat /\ n < Len(Contents(o)) /\ n \in 0 .. Len(Contents(o))
          /\ f = SubSeq(Contents(o), 1, n)
      BY <1>4, <1>6, <1>11
    <2>2. /\ LogsOf' = [LogsOf EXCEPT ![o] = SubSeq(@, 1, n)]
          /\ LogsOf[o] = Contents(o)
      BY <1>4, <1>7, <2>1, LogChanges
    <2> HIDE DEF n
    <2>3. /\ Store!Shorten(o, n)
      BY <1>1, <1>9, <2>1, <2>2 DEF Store!Shorten, LogsOf, ClearingsOf
    <2>4. n \in 0 .. Len([q \in Logs |-> Contents(q)][o])
      BY <2>1
    <2> QED BY <2>3, <2>4 DEF Store!Next
  <1> QED BY <1>10, <1>11

\* A log without blocks.
LEMMA NoParts ==
  ASSUME NEW e, NEW z
  PROVE  FlattenSeq(Parts(e, z, <<>>)) = <<>>
  <1>1. Parts(e, z, <<>>) = <<>>
    BY DEF Parts
  <1> QED BY <1>1 DEF FlattenSeq

LEMMA ClearSimulated ==
  ASSUME FullInv, NEW o \in Logs,
         \/ BeginClear(o) \/ ClearTail(o) \/ GiveBack(o) \/ Unlink(o)
         \/ EndClear(o)
  PROVE  Store!Next \/ UNCHANGED Store!vars
  <1>0. /\ BlockInv /\ entries \in EntryArrays /\ size \in SizeArrays
        /\ block_list[o] \in Seq(Blocks)
    BY DEF FullInv, DataInv, PackedInv, SizeArrays, BlockInv, ShapeInv
  <1>1. ASSUME NEW m, Goto(o, m), block_list' = block_list, m # "popback",
               pc[o] # "popback", entries' = entries, size' = size
        PROVE  SameLogs
    <2>1. pc'[o] = m /\ \A q \in Logs : q # o => pc'[q] = pc[q]
      BY <1>0, <1>1, MovesOn DEF BlockInv
    <2>2. \A q \in Logs : OwnBlocks(q)' = OwnBlocks(q)
      BY <1>1, <2>1, OwnSame
    <2> QED BY <1>0, <1>1, <2>2, SameContents DEF SameLogs
  <1>2. CASE BeginClear(o)
    <2>1. /\ pc[o] = "idle" /\ Goto(o, "clear") /\ block_list' = block_list
          /\ entries' = entries /\ size' = size /\ arg' = arg
      BY <1>2 DEF BeginClear, bvars
    <2>2. "clear" \in Clearing /\ pc[o] \notin Clearing
      BY <2>1 DEF Clearing
    <2>3. LogsOf' = LogsOf /\ ClearingsOf' = [ClearingsOf EXCEPT ![o] = TRUE]
      BY <1>0, <1>1, <2>1, <2>2, LogsStay, ClearChanges
    <2>4. arg[o] = None
      BY <2>1 DEF FullInv, DataInv, Appending
    <2>5. ~ClearingsOf[o]
      BY <2>2 DEF ClearingsOf
    <2>6. Store!StartClear(o)
      BY <2>1, <2>3, <2>4, <2>5
         DEF Store!StartClear, Store!Idle, LogsOf, ClearingsOf
    <2> QED BY <2>6 DEF Store!Next
  <1>3. CASE GiveBack(o)
    <2> DEFINE s == block_list[o]
               b == Last(s)
    <2>1. /\ pc[o] = "push" /\ Goto(o, "popback") /\ block_list' = block_list
          /\ entries' = entries /\ size' = size /\ arg' = arg
      BY <1>3 DEF GiveBack, bvars
    <2>2. SameClears
      <3>1. "popback" \in Clearing <=> pc[o] \in Clearing
        BY <2>1 DEF Clearing
      <3> QED BY <1>0, <2>1, <3>1, ClearsStay
    <2>3. pc'[o] = "popback" /\ \A q \in Logs : q # o => pc'[q] = pc[q]
      BY <1>0, <2>1, MovesOn DEF BlockInv
    <2>4. OwnBlocks(o) = s /\ OwnBlocks(o)' = Front(s)
      BY <2>1, <2>3 DEF OwnBlocks
    <2>5. s # <<>>
      BY <2>1 DEF FullInv, BlockInv, ShapeInv
    <2>6. b \in Blocks /\ b = s[Len(s)]
      BY <1>0, <2>1, <2>5, TailBlock
    <2>7. size[b] = 0
      BY <2>1, <2>6 DEF FullInv, PackedInv, Packed
    <2> HIDE DEF b
    <2>8. Part(entries, size, b) \in Seq(Data) /\ Len(Part(entries, size, b)) = 0
      BY <1>0, <2>6, <2>7, PartType
    <2>9. /\ FlattenSeq(Parts(entries, size, s))
               = FlattenSeq(Parts(entries, size, Front(s))) \o Part(entries, size, b)
          /\ FlattenSeq(Parts(entries, size, Front(s))) \in Seq(Data)
      BY <1>0, <2>5, FrontParts DEF b
    <2>10. FlattenSeq(Parts(entries, size, s)) = FlattenSeq(Parts(entries, size, Front(s)))
      BY <2>8, <2>9
    <2>11. Contents(o)' = Contents(o)
      BY <2>1, <2>4, <2>10, ContentsAreParts
    <2>12. \A q \in Logs : q # o => Contents(q)' = Contents(q)
      <3>1. \A q \in Logs : q # o => OwnBlocks(q)' = OwnBlocks(q)
        BY <2>1, <2>3, OwnSame
      <3> QED BY <1>0, <2>1, <3>1, SameContents
    <2> QED BY <2>1, <2>2, <2>11, <2>12, Invisible DEF SameLogs
  <1>4. CASE Unlink(o)
    <2>1. /\ pc[o] = "popback" /\ Goto(o, "clear")
          /\ block_list' = [block_list EXCEPT ![o] = Front(@)]
          /\ entries' = entries /\ size' = size /\ arg' = arg
      BY <1>4 DEF Unlink, bvars
    <2>2. SameClears
      <3>1. "clear" \in Clearing <=> pc[o] \in Clearing
        BY <2>1 DEF Clearing
      <3> QED BY <1>0, <2>1, <3>1, ClearsStay
    <2>3. pc'[o] = "clear" /\ \A q \in Logs : q # o => pc'[q] = pc[q]
      BY <1>0, <2>1, MovesOn DEF BlockInv
    <2>4. /\ block_list'[o] = Front(block_list[o])
          /\ \A q \in Logs : q # o => block_list'[q] = block_list[q]
      BY <2>1 DEF FullInv, BlockInv, ShapeInv
    <2>5. OwnBlocks(o)' = OwnBlocks(o)
      BY <2>1, <2>3, <2>4 DEF OwnBlocks
    <2>6. \A q \in Logs : q # o => OwnBlocks(q)' = OwnBlocks(q)
      BY <2>3, <2>4, OwnSame
    <2>7. SameLogs
      BY <1>0, <2>1, <2>5, <2>6, SameContents DEF SameLogs
    <2> QED BY <2>1, <2>2, <2>7, Invisible
  <1>5. CASE EndClear(o)
    <2>1. /\ pc[o] = "clear" /\ Goto(o, "idle") /\ block_list' = block_list
          /\ entries' = entries /\ size' = size /\ arg' = arg
          /\ block_list[o] = <<>>
      BY <1>5 DEF EndClear, bvars
    <2>2. "idle" \notin Clearing /\ pc[o] \in Clearing
      BY <2>1 DEF Clearing
    <2>3. LogsOf' = LogsOf /\ ClearingsOf' = [ClearingsOf EXCEPT ![o] = FALSE]
      BY <1>0, <1>1, <2>1, <2>2, LogsStay, ClearChanges
    <2>4. ClearingsOf[o]
      BY <2>2 DEF ClearingsOf
    <2>5. Contents(o) = <<>>
      <3>1. OwnBlocks(o) = <<>>
        BY <2>1 DEF OwnBlocks
      <3> QED BY <3>1, NoParts, ContentsAreParts
    <2>6. LogsOf[o] = <<>>
      BY <2>5 DEF LogsOf
    <2>7. Store!EndClear(o)
      BY <2>1, <2>3, <2>4, <2>6 DEF Store!EndClear, LogsOf, ClearingsOf
    <2> QED BY <2>7 DEF Store!Next
  <1>6. CASE ClearTail(o)
    BY <1>6, TailCleared
  <1> QED BY <1>2, <1>3, <1>4, <1>5, <1>6

(***************************************************************************)
(* The blocks implement independent logs: whichever threads append to and  *)
(* clear logs of the one pool, each log reads as the entries that its own  *)
(* user has appended since it was last cleared, in their order.            *)
(***************************************************************************)
THEOREM BlocksImplementLogs == Spec => ImplementsLogs
  <1>1. Init => Store!Init
    <2> SUFFICES ASSUME Init PROVE Store!Init
      OBVIOUS
    <2>1. \A o \in Logs : Contents(o) = <<>>
      <3> SUFFICES ASSUME NEW o \in Logs PROVE Contents(o) = <<>>
        OBVIOUS
      <3>1. OwnBlocks(o) = <<>>
        BY DEF Init, OwnBlocks
      <3> QED BY <3>1, NoParts, ContentsAreParts
    <2>2. \A o \in Logs : (pc[o] \in Clearing) = FALSE
      BY DEF Init, Clearing
    <2>3. [o \in Logs |-> Contents(o)] = [o \in Logs |-> <<>>]
      BY <2>1
    <2>4. [o \in Logs |-> pc[o] \in Clearing] = [o \in Logs |-> FALSE]
      BY <2>2, Zenon
    <2>5. arg = [o \in Logs |-> None]
      BY DEF Init
    <2> QED BY <2>3, <2>4, <2>5 DEF Store!Init
  <1>2. FullInv /\ [Next]_vars => [Store!Next]_(Store!vars)
    <2> SUFFICES ASSUME FullInv, [Next]_vars
                 PROVE  Store!Next \/ UNCHANGED Store!vars
      OBVIOUS
    <2>1. ASSUME NEW o \in Logs, Use(o) PROVE Store!Next \/ UNCHANGED Store!vars
      BY <2>1, AppendSimulated, BlocksSimulated, ClearSimulated DEF Use
    <2>2. ASSUME UNCHANGED <<bvars, block_list, pc, arg>>
          PROVE  UNCHANGED Store!vars
      <3>1. /\ entries' = entries /\ size' = size /\ block_list' = block_list
            /\ pc' = pc /\ arg' = arg
        BY <2>2 DEF bvars
      <3>2. \A q \in Logs : Contents(q)' = Contents(q)
        BY <3>1 DEF Contents, OwnBlocks
      <3>3. SameLogs /\ SameClears
        BY <3>1, <3>2 DEF SameLogs, SameClears
      <3> QED BY <3>1, <3>3, Invisible
    <2>3. ASSUME NEW o \in Logs, Exhausted(o) PROVE UNCHANGED Store!vars
      BY <2>2, <2>3 DEF Exhausted
    <2>4. ASSUME UNCHANGED vars PROVE UNCHANGED Store!vars
      BY <2>2, <2>4 DEF vars
    <2> QED BY <2>1, <2>3, <2>4 DEF Next, Aborted
  <1> QED BY <1>1, <1>2, FullInvHolds, PTL DEF Spec, ImplementsLogs, Store!Spec
=============================================================================
