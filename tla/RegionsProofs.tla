--------------------------- MODULE RegionsProofs ---------------------------
(***************************************************************************)
(* Proofs about Regions and ObjectSizes, where sizes are rounded to whole  *)
(* lines, for every size of cache line and of the heap: no bit of an epoch *)
(* is left behind, every byte of a region that begins on a line or stays   *)
(* within one is saved, and so is the size of every object.                *)
(***************************************************************************)
EXTENDS Regions, ObjectSizes, WellFoundedInduction, TLAPS

\* The regions for which counting lines by the size alone is right.
Aligned ==
  \A r \in Clients : \/ r[1] % CACHE_LINE_SIZE = 0
                     \/ get_index(r[1]) = get_index(r[1] + r[2] - 1)

-----------------------------------------------------------------------------
(***************************************************************************)
(* Quotients and remainders by the size of a line.                         *)
(***************************************************************************)
LEMMA Quotient ==
  ASSUME NEW a \in Nat, NEW c \in Nat \ {0}
  PROVE  /\ a \div c \in Nat /\ a % c \in 0 .. c - 1
         /\ a = c * (a \div c) + (a % c)
  BY SMTT(30)

LEMMA QuotientIs ==
  ASSUME NEW c \in Nat \ {0}, NEW q \in Nat, NEW r \in 0 .. c - 1
  PROVE  (c * q + r) \div c = q
  BY SMTT(30)

LEMMA QuotientMonotone ==
  ASSUME NEW c \in Nat \ {0}, NEW a \in Nat, NEW b \in Nat, a <= b
  PROVE  a \div c <= b \div c
  BY SMTT(30)

LEMMA QuotientSum ==
  ASSUME NEW c \in Nat \ {0}, NEW q \in Nat, NEW d \in Nat
  PROVE  (c * q + d) \div c = q + d \div c
  BY SMTT(30)

-----------------------------------------------------------------------------
(***************************************************************************)
(* Addresses and the lines that mark() computes.                           *)
(***************************************************************************)

\* mark() stores the address of a line in the list, whose index is the same.
LEMMA LineOfAddr ==
  ASSUME NEW a \in Nat
  PROVE  get_index(a) \in Nat /\ get_index(LineAddr(a)) = get_index(a)
  <1> DEFINE c == CACHE_LINE_SIZE
  <1>1. c \in Nat \ {0}
    BY LineAssumption
  <1> HIDE DEF c
  <1>2. /\ a \div c \in Nat /\ a % c \in 0 .. c - 1
        /\ a = c * (a \div c) + (a % c)
    BY <1>1, Quotient
  <1> DEFINE q == a \div c
             r == a % c
  <1>3. c * q \in Nat
    BY <1>1, <1>2, SMTT(30)
  <1> HIDE DEF q, r
  <1>4. q \in Nat /\ r \in Nat /\ a = c * q + r
    BY <1>1, <1>2 DEF q, r
  <1>5. a - r = c * q + 0
    BY <1>3, <1>4
  <1>6. (c * q + 0) \div c = q
    BY <1>1, <1>4, QuotientIs
  <1> QED BY <1>4, <1>5, <1>6 DEF get_index, LineAddr, c, q, r

\* The lines of a region of s bytes: one, and one for each line's worth more.
LEMMA NumBits ==
  ASSUME NEW s \in Nat \ {0}
  PROVE  num_bits(s) = 1 + (s - 1) \div CACHE_LINE_SIZE
  <1> DEFINE c == CACHE_LINE_SIZE
             d == s - 1
  <1>1. c \in Nat \ {0} /\ d \in Nat
    BY LineAssumption
  <1>2. s + c - 1 = c * 1 + d
    BY <1>1
  <1> HIDE DEF c, d
  <1>3. (c * 1 + d) \div c = 1 + d \div c
    BY <1>1, QuotientSum
  <1> QED BY <1>2, <1>3 DEF num_bits, c, d

\* mark() marks the line of every byte of an aligned region.
LEMMA MarkedCovers ==
  ASSUME NEW a \in Nat, NEW s \in Nat \ {0}, NEW b \in Bytes(a, s),
         \/ a % CACHE_LINE_SIZE = 0
         \/ get_index(a) = get_index(a + s - 1)
  PROVE  b \in Nat /\ get_index(b) \in Marked(a, s)
  <1> DEFINE c == CACHE_LINE_SIZE
             q == get_index(a)
             z == a + s - 1
  <1>1. c \in Nat \ {0} /\ b \in Nat /\ a <= b /\ b <= z /\ z \in Nat
    BY LineAssumption, HeapAssumption DEF Bytes
  <1>2. q \in Nat /\ get_index(b) \in Nat /\ get_index(z) \in Nat
    BY <1>1, LineOfAddr
  <1>3. num_bits(s) = 1 + (s - 1) \div c
    BY NumBits
  <1>4. (s - 1) \div c \in Nat
    <2>1. s - 1 \in Nat
      OBVIOUS
    <2> QED BY <1>1, <2>1, Quotient
  <1>5. Marked(a, s) = q .. (q + (s - 1) \div c)
    <2>1. q + num_bits(s) - 1 = q + (s - 1) \div c
      BY <1>2, <1>3, <1>4
    <2> QED BY <2>1 DEF Marked
  <1>6. q <= get_index(b) /\ get_index(b) <= get_index(z)
    <2> HIDE DEF c, z
    <2>1. a \div c <= b \div c /\ b \div c <= z \div c
      BY <1>1, QuotientMonotone
    <2> QED BY <2>1 DEF get_index, c
  <1>7. CASE get_index(a) = get_index(a + s - 1)
    <2>1. get_index(b) = q
      BY <1>2, <1>6, <1>7
    <2> QED BY <1>1, <1>2, <1>4, <1>5, <2>1
  <1>8. CASE a % c = 0
    <2>1. a = c * q
      <3>1. a \div c \in Nat /\ a = c * (a \div c) + (a % c)
        BY <1>1, Quotient
      <3>2. c * (a \div c) \in Nat
        BY <1>1, <3>1, SMTT(30)
      <3> QED BY <1>8, <3>1, <3>2 DEF get_index
    <2> DEFINE d == s - 1
    <2>2. d \in Nat /\ z = c * q + d
      BY <1>1, <2>1
    <2> HIDE DEF c, q, z, d
    <2>3. (c * q + d) \div c = q + d \div c
      BY <1>1, <1>2, <2>2, QuotientSum
    <2>4. get_index(z) = q + d \div c
      BY <2>2, <2>3 DEF get_index, c
    <2>5. d \div c \in Nat
      BY <1>4 DEF d
    <2>6. get_index(b) \in q .. (q + d \div c)
      BY <1>2, <1>6, <2>4, <2>5
    <2> QED BY <1>1, <1>5, <2>6 DEF d
  <1> QED BY <1>7, <1>8

-----------------------------------------------------------------------------
(***************************************************************************)
(* Bytes that are not saved are in lines that are marked, and lines that   *)
(* are marked are in the list.                                             *)
(***************************************************************************)
RegionInv ==
  /\ NoBitLeft
  /\ Aligned => \A b \in unsaved : get_index(b) \in bitmap

\* A line is in the list if some entry has it.
LEMMA SavedIs ==
  ASSUME NEW l
  PROVE  l \in Saved <=>
           /\ l \in bitmap
           /\ \E e \in addrlist : l \in get_index(e[1]) .. (get_index(e[1]) + e[2] - 1)
  BY DEF Saved

LEMMA WriteInv ==
  ASSUME RegionInv, NEW r \in Clients, Write(r[1], r[2]) PROVE RegionInv'
  <1> DEFINE a == r[1]
             s == r[2]
             M == Marked(a, s)
             InList(l) == \E e \in addrlist :
                            l \in get_index(e[1]) .. (get_index(e[1]) + e[2] - 1)
  <1>1. a \in Nat /\ s \in Nat \ {0}
    BY HeapAssumption
  <1>2. /\ bitmap' = bitmap \cup M
        /\ unsaved' = unsaved \cup Bytes(a, s)
        /\ addrlist' = IF M \subseteq bitmap THEN addrlist
                       ELSE addrlist \cup {<<LineAddr(a), num_bits(s)>>}
    BY DEF Write, IsAppendList
  <1>3. ASSUME NEW l \in bitmap' PROVE InList(l)'
    <2>1. CASE l \in bitmap
      <3>1. InList(l)
        BY <2>1, SavedIs DEF RegionInv, NoBitLeft
      <3>2. addrlist \subseteq addrlist'
        BY <1>2
      <3> QED BY <3>1, <3>2
    <2>2. CASE l \notin bitmap
      <3> DEFINE e == <<LineAddr(a), num_bits(s)>>
      <3>1. l \in M /\ e \in addrlist'
        BY <1>2, <1>3, <2>2
      <3>2. get_index(e[1]) .. (get_index(e[1]) + e[2] - 1) = M
        BY <1>1, LineOfAddr DEF Marked
      <3> QED BY <3>1, <3>2
    <2> QED BY <2>1, <2>2
  <1>4. NoBitLeft'
    BY <1>3 DEF NoBitLeft, Saved
  <1>5. ASSUME Aligned, NEW b \in unsaved' PROVE get_index(b) \in bitmap'
    <2>1. CASE b \in unsaved
      BY <1>2, <1>5, <2>1 DEF RegionInv
    <2>2. CASE b \in Bytes(a, s)
      <3>1. a % CACHE_LINE_SIZE = 0 \/ get_index(a) = get_index(a + s - 1)
        BY <1>5 DEF Aligned
      <3>2. get_index(b) \in M
        BY <1>1, <2>2, <3>1, MarkedCovers
      <3> QED BY <1>2, <3>2
    <2> QED BY <1>2, <1>5, <2>1, <2>2
  <1> HIDE DEF a, s, M, InList
  <1>6. Aligned => \A b \in unsaved' : get_index(b) \in bitmap'
    BY <1>5
  <1>7. Aligned' <=> Aligned
    BY DEF Aligned, get_index
  <1> QED BY <1>4, <1>6, <1>7 DEF RegionInv, get_index

LEMMA CheckpointInv ==
  ASSUME RegionInv, Checkpoint PROVE RegionInv'
  <1>1. bitmap' = {}
    BY DEF Checkpoint, RegionInv, NoBitLeft
  <1>2. Aligned => unsaved' = {}
    BY DEF Checkpoint, RegionInv, NoBitLeft
  <1>3. Aligned' <=> Aligned
    BY DEF Aligned, get_index
  <1> QED BY <1>1, <1>2, <1>3 DEF RegionInv, NoBitLeft

LEMMA RegionInvHolds == Spec => []RegionInv
  <1>1. Init => RegionInv
    BY DEF Init, RegionInv, NoBitLeft
  <1>2. RegionInv /\ [Next]_vars => RegionInv'
    <2> SUFFICES ASSUME RegionInv, [Next]_vars PROVE RegionInv'
      OBVIOUS
    <2>1. CASE UNCHANGED vars
      BY <2>1 DEF vars, RegionInv, NoBitLeft, Saved, Aligned, get_index
    <2>2. CASE Next
      BY <2>2, WriteInv, CheckpointInv DEF Next
    <2> QED BY <2>1, <2>2
  <1> QED BY <1>1, <1>2, PTL DEF Spec

(***************************************************************************)
(* log_persistence_unit finds every marked line in the address list, and   *)
(* so clears every bit, although mark() appends a region only if some line *)
(* of it was not marked before.                                            *)
(***************************************************************************)
THEOREM NoBitIsLeft == Spec => []NoBitLeft
  <1>1. RegionInv => NoBitLeft
    BY DEF RegionInv
  <1> QED BY <1>1, RegionInvHolds, PTL

(***************************************************************************)
(* If clients write regions that begin on a line or stay within one, then  *)
(* the next checkpoint saves every byte that they write, for every size of *)
(* cache line and however the regions overlap.                             *)
(***************************************************************************)
THEOREM AlignedWritesAreSaved == Aligned => (Spec => []WritesAreSaved)
  <1> SUFFICES ASSUME Aligned PROVE Spec => []WritesAreSaved
    OBVIOUS
  <1>1. RegionInv => WritesAreSaved
    BY DEF RegionInv, NoBitLeft, WritesAreSaved
  <1> QED BY <1>1, RegionInvHolds, PTL

-----------------------------------------------------------------------------
(***************************************************************************)
(* The sizes of objects, which are whole lines too.                        *)
(***************************************************************************)
Place(at, n) == n \in Nat \ {0} /\ at \in Index /\ at + n <= Lines

\* A byte map has the size of a place.
Saves(map, at, n) ==
  \A k \in 0 .. LastByte(n) : map[at + k] = SizeByte(n, k)

\* Full bytes, then the rest.
LEMMA SizeBytes ==
  ASSUME NEW n \in Nat \ {0}
  PROVE  /\ LastByte(n) \in Nat /\ LastByte(n) <= n - 1
         /\ n \div CACHE_LINE_SIZE \in Nat /\ n % CACHE_LINE_SIZE \in Nat
         /\ \A k \in 0 .. LastByte(n) :
              \/ k < n \div CACHE_LINE_SIZE /\ SizeByte(n, k) = CACHE_LINE_SIZE
              \/ /\ k = n \div CACHE_LINE_SIZE /\ n % CACHE_LINE_SIZE > 0
                 /\ SizeByte(n, k) = n % CACHE_LINE_SIZE
         /\ \A k \in Nat :
              \/ k < n \div CACHE_LINE_SIZE
              \/ k = n \div CACHE_LINE_SIZE /\ n % CACHE_LINE_SIZE > 0
              => k \in 0 .. LastByte(n)
  <1> DEFINE c == CACHE_LINE_SIZE
             q == n \div c
             r == n % c
             l == LastByte(n)
  <1>1. c \in Nat \ {0}
    BY LineAssumption
  <1>2. q \in Nat /\ r \in 0 .. c - 1 /\ n = c * q + r
    BY <1>1, Quotient
  <1>3. l = (n - 1) \div c /\ \A k : SizeByte(n, k) = IF n - k * c >= c THEN c ELSE n - k * c
    BY DEF LastByte, SizeByte
  <1> HIDE DEF c, q, r, l
  <1>4. CASE r > 0
    <2>1. r - 1 \in 0 .. c - 1 /\ n - 1 = c * q + (r - 1)
      BY <1>1, <1>2, <1>4
    <2>2. l = q
      BY <1>1, <1>2, <1>3, <2>1, QuotientIs
    <2>3. q <= n - 1
      BY <1>1, <1>2, <2>1, SMTT(30)
    <2>4. ASSUME NEW k \in 0 .. l, k < q PROVE SizeByte(n, k) = c
      <3>1. n - k * c >= c
        BY <1>1, <1>2, <2>4, SMTT(30)
      <3> QED BY <1>3, <3>1
    <2>5. SizeByte(n, q) = r
      <3>1. n - q * c = r /\ ~(r >= c)
        BY <1>1, <1>2, SMTT(30)
      <3> QED BY <1>3, <3>1
    <2>6. \A k \in 0 .. l : k < q \/ k = q
      BY <1>2, <2>2
    <2> QED BY <1>2, <1>4, <2>2, <2>3, <2>4, <2>5, <2>6 DEF c, q, r, l
  <1>5. CASE r = 0
    <2>1. q # 0
      BY <1>1, <1>2, <1>5
    <2>2. q - 1 \in Nat /\ c - 1 \in 0 .. c - 1
      BY <1>1, <1>2, <2>1
    <2>3. n - 1 = c * (q - 1) + (c - 1)
      BY <1>1, <1>2, <1>5, <2>2, SMTT(30)
    <2>4. l = q - 1
      BY <1>1, <1>3, <2>2, <2>3, QuotientIs
    <2>5. q - 1 <= n - 1
      BY <1>1, <1>2, <1>5, <2>2, SMTT(30)
    <2>6. ASSUME NEW k \in 0 .. l PROVE SizeByte(n, k) = c /\ k < q
      <3>1. k < q
        BY <1>2, <2>2, <2>4
      <3>2. n - k * c >= c
        BY <1>1, <1>2, <2>6, <3>1, SMTT(30)
      <3> QED BY <1>3, <3>1, <3>2
    <2> QED BY <1>2, <1>5, <2>2, <2>4, <2>5, <2>6 DEF c, q, r, l
  <1>6. r > 0 \/ r = 0
    BY <1>2
  <1> QED BY <1>4, <1>5, <1>6

\* set_obj_size writes the bytes of a place, and no other.
LEMMA SetSize ==
  ASSUME NEW map, NEW at \in Index, NEW n \in Nat \ {0}, at + n <= Lines
  PROVE  /\ Saves(set_obj_size(map, at, n), at, n)
         /\ \A i \in Index : i \notin PlaceBytes(at, n) =>
              set_obj_size(map, at, n)[i] = map[i]
  <1> DEFINE c == CACHE_LINE_SIZE
             q == n \div c
             r == n % c
             l == LastByte(n)
             s == set_obj_size(map, at, n)
  <1>1. /\ l \in Nat /\ l <= n - 1 /\ q \in Nat /\ r \in Nat
        /\ \A k \in 0 .. l : \/ k < q /\ SizeByte(n, k) = c
                             \/ k = q /\ r > 0 /\ SizeByte(n, k) = r
        /\ \A k \in Nat : k < q \/ (k = q /\ r > 0) => k \in 0 .. l
    BY SizeBytes
  <1>2. \A i \in Index : s[i] = IF i \in at .. (at + q - 1) THEN c
                                ELSE IF i = at + q /\ r > 0 THEN r ELSE map[i]
    BY DEF set_obj_size, Index
  <1>3. Lines \in Nat /\ at \in Nat
    BY PlacesAssumption DEF Index
  <1> HIDE DEF c, q, r, l, s
  <1>4. ASSUME NEW k \in 0 .. l PROVE s[at + k] = SizeByte(n, k)
    <2>1. at + k \in Index /\ k \in Nat
      BY <1>1, <1>3 DEF Index
    <2>2. CASE k < q /\ SizeByte(n, k) = c
      <3>1. at + k \in at .. (at + q - 1)
        BY <1>1, <1>3, <2>1, <2>2
      <3> QED BY <1>2, <2>1, <2>2, <3>1
    <2>3. CASE k = q /\ r > 0 /\ SizeByte(n, k) = r
      <3>1. at + k \notin at .. (at + q - 1)
        BY <1>1, <1>3, <2>1, <2>3
      <3> QED BY <1>2, <2>1, <2>3, <3>1
    <2> QED BY <1>1, <2>2, <2>3
  <1>5. ASSUME NEW i \in Index, i \notin PlaceBytes(at, n) PROVE s[i] = map[i]
    <2>1. i \in Nat
      BY <1>3 DEF Index
    <2>2. i \notin at .. at + l
      BY <1>5 DEF PlaceBytes, l
    <2>3. i \notin at .. (at + q - 1) /\ ~(i = at + q /\ r > 0)
      <3>1. ASSUME i \in at .. (at + q - 1) \/ (i = at + q /\ r > 0) PROVE FALSE
        <4>1. i - at \in Nat /\ (i - at < q \/ (i - at = q /\ r > 0))
          BY <1>1, <1>3, <2>1, <3>1
        <4>2. i - at \in 0 .. l
          BY <1>1, <4>1
        <4> QED BY <1>1, <1>3, <2>1, <2>2, <4>2
      <3> QED BY <3>1
    <2> QED BY <1>2, <2>3
  <1> QED BY <1>4, <1>5 DEF Saves, s, l

-----------------------------------------------------------------------------
\* Induction over a set of naturals, from the least one that it leaves out.
LEMMA Induction ==
  ASSUME NEW S, 0 \in S, \A n \in Nat : n \in S => n + 1 \in S
  PROVE  Nat \subseteq S
  <1> DEFINE R == {ss \in Nat \X Nat : ss[1] < ss[2]}
             Rest == Nat \ S
  <1>1. IsWellFoundedOn(R, Nat)
    BY NatLessThanWellFounded, Zenon DEF OpToRel
  <1> SUFFICES ASSUME Rest # {} PROVE FALSE
    OBVIOUS
  <1>2. Rest \subseteq Nat
    OBVIOUS
  <1> HIDE DEF R, Rest
  <1>3. PICK n \in Rest : \A m \in Rest : ~ (<<m, n>> \in R)
    BY <1>1, <1>2, WFMin
  <1>4. n \in Nat /\ n # 0
    BY <1>3 DEF Rest
  <1>5. n - 1 \in Nat /\ n - 1 + 1 = n
    BY <1>4
  <1>6. n - 1 \in Rest
    BY <1>3, <1>5 DEF Rest
  <1>7. <<n - 1, n>> \in R
    BY <1>4, <1>5 DEF R
  <1> QED BY <1>3, <1>6, <1>7

(***************************************************************************)
(* f[k] is the NVM byte map after the first k entries of the log.          *)
(***************************************************************************)
Applies(f, n) ==
  f = [k \in 0 .. n |->
         IF k = 0 THEN bytes
                  ELSE set_obj_size(f[k - 1], log[k].at, log[k].lines)]

LEMMA ApplicationExists ==
  ASSUME NEW n \in Nat
  PROVE  \E f : Applies(f, n)
  <1> DEFINE T(g, k) == set_obj_size(g, log[k].at, log[k].lines)
             S == {m \in Nat : \E f : Applies(f, m)}
  <1>1. 0 \in S
    <2> DEFINE f == [k \in 0 .. 0 |-> bytes]
    <2>1. \A k \in 0 .. 0 : k = 0
      OBVIOUS
    <2>2. f = [k \in 0 .. 0 |-> IF k = 0 THEN bytes ELSE T(f[k - 1], k)]
      BY <2>1
    <2> HIDE DEF f
    <2>3. Applies(f, 0)
      BY <2>2 DEF Applies
    <2> QED BY <2>3
  <1>2. ASSUME NEW m \in Nat, m \in S PROVE m + 1 \in S
    <2>1. PICK f : Applies(f, m)
      BY <1>2
    <2> DEFINE g == [k \in 0 .. m + 1 |-> IF k = 0 THEN bytes ELSE T(f[k - 1], k)]
    <2>2. \A k \in 0 .. m : g[k] = f[k]
      <3>1. \A k \in 0 .. m : f[k] = IF k = 0 THEN bytes ELSE T(f[k - 1], k)
        BY <2>1 DEF Applies
      <3>2. \A k \in 0 .. m : k \in 0 .. m + 1
        OBVIOUS
      <3> HIDE DEF T
      <3> QED BY <3>1, <3>2
    <2>3. \A k \in 0 .. m + 1 : k # 0 => k - 1 \in 0 .. m
      OBVIOUS
    <2> HIDE DEF T
    <2>4. g = [k \in 0 .. m + 1 |-> IF k = 0 THEN bytes ELSE T(g[k - 1], k)]
      BY <2>2, <2>3
    <2> HIDE DEF g
    <2>5. Applies(g, m + 1)
      BY <2>4 DEF Applies, T
    <2> QED BY <2>5
  <1> HIDE DEF S
  <1>3. Nat \subseteq S
    BY <1>1, <1>2, Induction
  <1> QED BY <1>3 DEF S

LEMMA AppliedIs ==
  ASSUME Len(log) \in Nat
  PROVE  \E f : Applies(f, Len(log)) /\ Applied = f[Len(log)]
  <1> DEFINE f == CHOOSE f : f = [k \in 0 .. Len(log) |->
         IF k = 0 THEN bytes
                  ELSE set_obj_size(f[k - 1], log[k].at, log[k].lines)]
  <1>1. Applied = f[Len(log)]
    BY DEF Applied
  <1>2. \E g : g = [k \in 0 .. Len(log) |->
         IF k = 0 THEN bytes
                  ELSE set_obj_size(g[k - 1], log[k].at, log[k].lines)]
    BY ApplicationExists DEF Applies
  <1>3. f = [k \in 0 .. Len(log) |->
         IF k = 0 THEN bytes
                  ELSE set_obj_size(f[k - 1], log[k].at, log[k].lines)]
    BY <1>2, Zenon
  <1> HIDE DEF f
  <1> QED BY <1>1, <1>3 DEF Applies

\* No entry touches these bytes.
Untouched(at, n) == \A k \in DOMAIN log : ~Touches(log[k], at, n)

\* The bytes of a place are within it.
LEMMA BytesInPlace ==
  ASSUME NEW at, NEW n, Place(at, n)
  PROVE  /\ at \in PlaceBytes(at, n) /\ PlaceBytes(at, n) \subseteq at .. (at + n - 1)
         /\ \A j \in 0 .. LastByte(n) : at + j \in Index /\ at + j \in PlaceBytes(at, n)
  <1>1. n \in Nat \ {0} /\ at \in Nat /\ at + n <= Lines /\ Lines \in Nat
    BY PlacesAssumption DEF Place, Index
  <1>2. LastByte(n) \in Nat /\ LastByte(n) <= n - 1
    BY <1>1, SizeBytes
  <1> QED BY <1>1, <1>2 DEF PlaceBytes, Index

(***************************************************************************)
(* A place whose last entry is of its size, or which is saved and has no   *)
(* entry, has its size once the log is applied.                            *)
(***************************************************************************)
LEMMA AppliedSaves ==
  ASSUME log \in Seq([at : Index, lines : Nat]),
         \A k \in DOMAIN log : Place(log[k].at, log[k].lines),
         NEW at, NEW n, Place(at, n),
         \/ Covers(at, n)
         \/ Saves(bytes, at, n) /\ Untouched(at, n)
  PROVE  Saves(Applied, at, n)
  <1>1. Len(log) \in Nat /\ DOMAIN log = 1 .. Len(log)
    OBVIOUS
  <1>2. PICK f : Applies(f, Len(log)) /\ Applied = f[Len(log)]
    BY <1>1, AppliedIs
  <1>3. f[0] = bytes
    BY <1>1, <1>2 DEF Applies
  <1>4. \A k \in 1 .. Len(log) :
          f[k] = set_obj_size(f[k - 1], log[k].at, log[k].lines)
    <2> DEFINE T(g, k) == set_obj_size(g, log[k].at, log[k].lines)
    <2>1. f = [k \in 0 .. Len(log) |-> IF k = 0 THEN bytes ELSE T(f[k - 1], k)]
      BY <1>2 DEF Applies
    <2> HIDE DEF T
    <2>2. \A k \in 0 .. Len(log) : f[k] = IF k = 0 THEN bytes ELSE T(f[k - 1], k)
      BY <2>1
    <2>3. \A k \in 1 .. Len(log) : k \in 0 .. Len(log) /\ k # 0
      BY <1>1
    <2>4. \A k \in 1 .. Len(log) : f[k] = T(f[k - 1], k)
      BY <2>2, <2>3
    <2> QED BY <2>4 DEF T
  <1> DEFINE Last(j) == /\ log[j].at = at /\ log[j].lines = n
                        /\ \A i \in 1 .. Len(log) : i > j => ~Touches(log[i], at, n)
             Due(k) == \/ Saves(bytes, at, n) /\ Untouched(at, n)
                       \/ \E j \in 1 .. k : Last(j)
             S == {k \in Nat : k <= Len(log) /\ Due(k) => Saves(f[k], at, n)}
  <1>5. 0 \in S
    <2>1. Due(0) => Saves(f[0], at, n)
      BY <1>3
    <2> QED BY <2>1
  <1>6. ASSUME NEW k \in Nat, k \in S PROVE k + 1 \in S
    <2> SUFFICES ASSUME k + 1 <= Len(log), Due(k + 1)
                 PROVE  Saves(f[k + 1], at, n)
      OBVIOUS
    <2> DEFINE a == log[k + 1].at
               m == log[k + 1].lines
    <2>1. k + 1 \in 1 .. Len(log) /\ k + 1 - 1 = k /\ k <= Len(log)
      BY <1>1
    <2>2. f[k + 1] = set_obj_size(f[k], a, m)
      BY <1>4, <2>1
    <2>3. Place(a, m)
      BY <1>1, <2>1
    <2>4. CASE Last(k + 1)
      <3>1. Saves(set_obj_size(f[k], at, n), at, n)
        BY SetSize DEF Place
      <3> QED BY <2>2, <2>4, <3>1
    <2>5. CASE ~Last(k + 1)
      <3>1. Due(k) /\ ~Touches(log[k + 1], at, n)
        <4>1. CASE Saves(bytes, at, n) /\ Untouched(at, n)
          BY <1>1, <2>1, <4>1 DEF Untouched
        <4>2. CASE \E j \in 1 .. k + 1 : Last(j)
          <5>1. PICK j \in 1 .. k + 1 : Last(j)
            BY <4>2
          <5>2. j # k + 1
            BY <2>5, <5>1
          <5>3. j \in 1 .. k /\ k + 1 > j
            BY <5>2
          <5> QED BY <2>1, <5>1, <5>3
        <4> QED BY <4>1, <4>2
      <3>2. Saves(f[k], at, n)
        BY <1>6, <2>1, <3>1
      <3>3. PlaceBytes(a, m) \cap PlaceBytes(at, n) = {}
        BY <3>1 DEF Touches
      <3> HIDE DEF a, m
      <3>4. \A i \in Index : i \notin PlaceBytes(a, m) => f[k + 1][i] = f[k][i]
        BY <2>2, <2>3, SetSize DEF Place
      <3>5. \A j \in 0 .. LastByte(n) : f[k + 1][at + j] = f[k][at + j]
        BY <3>3, <3>4, BytesInPlace
      <3> QED BY <3>2, <3>5 DEF Saves
    <2> QED BY <2>4, <2>5
  <1> HIDE DEF S
  <1>7. Len(log) \in S
    BY <1>1, <1>5, <1>6, Induction
  <1>8. Due(Len(log))
    <2>1. Covers(at, n) => \E j \in 1 .. Len(log) : Last(j)
      BY <1>1 DEF Covers
    <2> QED BY <2>1
  <1> HIDE DEF Due
  <1>9. Saves(f[Len(log)], at, n)
    BY <1>1, <1>7, <1>8 DEF S
  <1> QED BY <1>2, <1>9

(***************************************************************************)
(* Objects do not overlap, and the last entry that touches the bytes of an *)
(* object, if there is one, is of its place and size.  Otherwise they have *)
(* been saved.  Resized objects are the exception.                         *)
(***************************************************************************)
Known(o) == \/ Covers(o.at, o.lines)
            \/ Saves(bytes, o.at, o.lines) /\ Untouched(o.at, o.lines)

SizesInv ==
  /\ log \in Seq([at : Index, lines : Nat])
  /\ \A k \in DOMAIN log : Place(log[k].at, log[k].lines)
  /\ \A o \in objs : /\ Place(o.at, o.lines)
                     /\ [at |-> o.at, lines |-> o.lines] \in taken
  /\ \A o, p \in objs : o = p \/ Extent(o) \cap Extent(p) = {}
  /\ \A o \in objs \ resized : Known(o)

\* Places that do not overlap do not touch each other's bytes.
LEMMA ApartIsUntouched ==
  ASSUME NEW at, NEW n, NEW a, NEW m, Place(at, n), Place(a, m),
         (at .. (at + n - 1)) \cap (a .. (a + m - 1)) = {}
  PROVE  ~Touches([at |-> at, lines |-> n], a, m)
  BY BytesInPlace DEF Touches

\* A logged operation adds an entry of the place, or leaves the log as it is.
LEMMA Logging ==
  ASSUME SizesInv, NEW at, NEW n, Place(at, n), LogOperation(at, n)
  PROVE  /\ log' \in Seq([at : Index, lines : Nat])
         /\ \A k \in DOMAIN log' : Place(log'[k].at, log'[k].lines)
         /\ \/ ByteMap[at] = 1 /\ log' = log
            \/ Covers(at, n)'
         /\ \A a, m : ~Touches([at |-> at, lines |-> n], a, m) =>
              /\ Covers(a, m) => Covers(a, m)'
              /\ Untouched(a, m) => Untouched(a, m)'
  <1> DEFINE e == [at |-> at, lines |-> n]
             E == [at : Index, lines : Nat]
  <1>1. log' = IF ByteMap[at] = 1 THEN log ELSE Append(log, e)
    BY DEF LogOperation
  <1>2. /\ log \in Seq(E) /\ \A k \in DOMAIN log : Place(log[k].at, log[k].lines)
    BY DEF SizesInv
  <1>3. e \in E /\ e.at = at /\ e.lines = n
    BY DEF Place
  <1>4. CASE ByteMap[at] = 1
    <2>1. log' = log
      BY <1>1, <1>4
    <2> QED BY <1>2, <1>4, <2>1 DEF Covers, Untouched
  <1>5. CASE ByteMap[at] # 1
    <2> DEFINE t == Append(log, e)
    <2>1. log' = t
      BY <1>1, <1>5
    <2> HIDE DEF e, E
    <2>2. /\ t \in Seq(E) /\ DOMAIN log = 1 .. Len(log) /\ Len(log) \in Nat
          /\ DOMAIN t = 1 .. Len(log) + 1 /\ t[Len(log) + 1] = e
          /\ \A k \in 1 .. Len(log) : t[k] = log[k]
      BY <1>2, <1>3
    <2> HIDE DEF t
    <2>3. \A k \in DOMAIN t : k = Len(log) + 1 \/ (k \in DOMAIN log /\ t[k] = log[k])
      BY <2>2
    <2>4. /\ \A k \in DOMAIN log : k \in DOMAIN t /\ t[k] = log[k]
          /\ Len(log) + 1 \in DOMAIN t
      BY <2>2
    <2>5. \A k \in DOMAIN t : Place(t[k].at, t[k].lines)
      BY <1>2, <1>3, <2>2, <2>3
    <2>6. Covers(at, n)'
      <3>1. \A j \in DOMAIN t : ~(j > Len(log) + 1)
        BY <2>2
      <3> QED BY <2>1, <2>2, <2>4, <3>1 DEF Covers, e
    <2>7. ASSUME NEW a, NEW m, ~Touches(e, a, m)
          PROVE  /\ Covers(a, m) => Covers(a, m)'
                 /\ Untouched(a, m) => Untouched(a, m)'
      <3>1. ASSUME NEW k \in DOMAIN log,
                   \A j \in DOMAIN log : j > k => ~Touches(log[j], a, m)
            PROVE  \A j \in DOMAIN t : j > k => ~Touches(t[j], a, m)
        BY <2>2, <2>3, <2>7, <3>1
      <3>2. Covers(a, m) => Covers(a, m)'
        BY <2>1, <2>4, <3>1 DEF Covers
      <3>3. Untouched(a, m) => \A j \in DOMAIN t : ~Touches(t[j], a, m)
        BY <2>2, <2>3, <2>7 DEF Untouched
      <3> QED BY <2>1, <3>2, <3>3 DEF Untouched
    <2> QED BY <2>1, <2>2, <2>5, <2>6, <2>7 DEF e, E
  <1> QED BY <1>4, <1>5

LEMMA SizesInit == ObjInit => SizesInv
  <1> SUFFICES ASSUME ObjInit PROVE SizesInv
    OBVIOUS
  <1>1. objs = {} /\ log = <<>>
    BY DEF ObjInit
  <1>2. log \in Seq([at : Index, lines : Nat]) /\ DOMAIN log = {}
    BY <1>1
  <1> QED BY <1>1, <1>2 DEF SizesInv

\* An object whose bytes a logged operation does not touch is as known as before.
LEMMA KnownStays ==
  ASSUME SizesInv, NEW at, NEW n, Place(at, n), LogOperation(at, n), bytes' = bytes,
         NEW p \in objs, p \notin resized,
         (at .. (at + n - 1)) \cap Extent(p) = {}
  PROVE  Known(p)'
  <1>1. Known(p) /\ Place(p.at, p.lines)
    BY DEF SizesInv
  <1>2. ~Touches([at |-> at, lines |-> n], p.at, p.lines)
    BY <1>1, ApartIsUntouched DEF Extent
  <1>3. /\ Covers(p.at, p.lines) => Covers(p.at, p.lines)'
        /\ Untouched(p.at, p.lines) => Untouched(p.at, p.lines)'
    BY <1>2, Logging
  <1>4. Saves(bytes, p.at, p.lines) => Saves(bytes, p.at, p.lines)'
    BY DEF Saves, SizeByte, LastByte
  <1> QED BY <1>1, <1>3, <1>4 DEF Known

LEMMA PnewSizes ==
  ASSUME SizesInv, NEW size \in Types, NEW at \in Index, Pnew(size, at)
  PROVE  SizesInv'
  <1> DEFINE n == RoundedLines(size)
             o == [at |-> at, lines |-> n, size |-> size]
             x == [at |-> at, lines |-> n]
  <1>1. /\ Fits(at, n) /\ objs' = objs \cup {o} /\ taken' = taken \cup {x}
        /\ LogOperation(at, n) /\ bytes' = bytes
        /\ resized' = IF ByteMap[at] = 1 /\ ~Covers(at, n) THEN resized \cup {o} ELSE resized
    BY DEF Pnew
  <1>2. n \in Nat \ {0}
    <2>1. /\ size \in Nat \ {0} /\ CACHE_LINE_SIZE \in Nat \ {0}
      BY LineAssumption, PlacesAssumption
    <2> DEFINE c == CACHE_LINE_SIZE
               q == size \div c
               r == size % c
    <2>2. q \in Nat /\ r \in 0 .. c - 1 /\ size = c * q + r
      BY <2>1, Quotient
    <2>3. n = IF r # 0 THEN q + 1 ELSE q
      BY DEF RoundedLines
    <2> HIDE DEF n, c, q, r
    <2>4. r = 0 => q # 0
      BY <2>1, <2>2, SMTT(30) DEF c
    <2> QED BY <2>2, <2>3, <2>4
  <1>3. Place(at, n)
    BY <1>1, <1>2 DEF Fits, Place
  <1>4. o.at = at /\ o.lines = n /\ Extent(o) = at .. (at + n - 1)
    BY DEF Extent
  <1> HIDE DEF n, o
  <1>5. ASSUME NEW p \in objs
        PROVE  (at .. (at + n - 1)) \cap Extent(p) = {}
    <2> DEFINE y == [at |-> p.at, lines |-> p.lines]
    <2>1. y \in taken /\ y.at = p.at /\ y.lines = p.lines
      BY DEF SizesInv
    <2> HIDE DEF y
    <2>2. Extent(y) \cap (at .. (at + n - 1)) = {}
      BY <1>1, <2>1 DEF Fits
    <2> QED BY <2>1, <2>2 DEF Extent
  <1>6. /\ log' \in Seq([at : Index, lines : Nat])
        /\ \A k \in DOMAIN log' : Place(log'[k].at, log'[k].lines)
        /\ (ByteMap[at] = 1 /\ log' = log) \/ Covers(at, n)'
    BY <1>1, <1>3, Logging
  <1>7. \A p \in objs' : /\ Place(p.at, p.lines)
                         /\ [at |-> p.at, lines |-> p.lines] \in taken'
    BY <1>1, <1>3, <1>4 DEF SizesInv
  <1>8. \A p, q \in objs' : p = q \/ Extent(p) \cap Extent(q) = {}
    BY <1>1, <1>4, <1>5 DEF SizesInv
  <1>9. ASSUME NEW p \in objs', p \notin resized' PROVE Known(p)'
    <2>1. CASE p \in objs
      <3>1. p \notin resized
        BY <1>1, <1>9
      <3> QED BY <1>1, <1>3, <1>5, <2>1, <3>1, KnownStays
    <2>2. CASE p = o
      <3>1. ~(ByteMap[at] = 1 /\ ~Covers(at, n))
        BY <1>1, <1>9, <2>2
      <3>2. log' = log => (Covers(at, n) => Covers(at, n)')
        BY DEF Covers
      <3>3. Covers(at, n)'
        BY <1>6, <3>1, <3>2
      <3>4. p.at = at /\ p.lines = n
        BY <1>4, <2>2
      <3>5. Covers(p.at, p.lines)'
        BY <3>3, <3>4 DEF Covers
      <3> QED BY <3>5 DEF Known
    <2> QED BY <1>1, <1>9, <2>1, <2>2
  <1>10. \A p \in objs' : Place(p.at, p.lines)'
    BY <1>7 DEF Place, Index
  <1> QED BY <1>6, <1>7, <1>8, <1>9, <1>10 DEF SizesInv, Place, Index, Extent

LEMMA PdeleteSizes ==
  ASSUME SizesInv, NEW o, Pdelete(o)
  PROVE  SizesInv'
  <1> DEFINE x == [at |-> o.at, lines |-> o.lines]
  <1>1. /\ o \in objs /\ objs' = objs \ {o} /\ bytes' = bytes
        /\ resized' = resized \ {o}
    BY DEF Pdelete
  <1>2. /\ \A p, q \in objs' : p = q \/ Extent(p) \cap Extent(q) = {}
        /\ \A p \in objs' : Place(p.at, p.lines)
    BY <1>1 DEF SizesInv
  <1>3. \A p \in objs' \ resized' : p \in objs /\ p \notin resized /\ p # o
    BY <1>1
  <1>4. CASE o.size % CACHE_LINE_SIZE # 0
    <2>1. LogOperation(o.at, o.lines) /\ Place(o.at, o.lines) /\ taken' = taken \ {x}
      BY <1>1, <1>4 DEF Pdelete, SizesInv
    <2>2. /\ log' \in Seq([at : Index, lines : Nat])
          /\ \A k \in DOMAIN log' : Place(log'[k].at, log'[k].lines)
      BY <2>1, Logging
    <2>3. \A p \in objs' : Extent(o) \cap Extent(p) = {}
      BY <1>1 DEF SizesInv
    <2>4. ASSUME NEW p \in objs' PROVE [at |-> p.at, lines |-> p.lines] \in taken'
      <3>1. [at |-> p.at, lines |-> p.lines] \in taken
        BY <1>1 DEF SizesInv
      <3>2. p.at # o.at
        <4>1. ASSUME p.at = o.at PROVE p.at \in Extent(o) /\ p.at \in Extent(p)
          <5>1. Place(p.at, p.lines) /\ Place(o.at, o.lines)
            BY <1>2, <2>1
          <5> QED BY <4>1, <5>1, BytesInPlace DEF Extent
        <4> QED BY <2>3, <4>1
      <3> QED BY <2>1, <3>1, <3>2
    <2>5. \A p \in objs' \ resized' : Known(p)'
      <3>1. ASSUME NEW p \in objs' \ resized'
            PROVE  (o.at .. (o.at + o.lines - 1)) \cap Extent(p) = {}
        BY <2>3, <3>1 DEF Extent
      <3> QED BY <1>1, <1>3, <2>1, <3>1, KnownStays
    <2> QED BY <1>2, <2>2, <2>4, <2>5 DEF SizesInv, Place, Index, Extent
  <1>5. CASE ~(o.size % CACHE_LINE_SIZE # 0)
    <2>1. taken' = taken /\ log' = log
      BY <1>5 DEF Pdelete
    <2>2. /\ log' \in Seq([at : Index, lines : Nat])
          /\ \A k \in DOMAIN log' : Place(log'[k].at, log'[k].lines)
          /\ \A p \in objs' : [at |-> p.at, lines |-> p.lines] \in taken'
      BY <1>1, <2>1 DEF SizesInv
    <2>3. \A p \in objs' \ resized' : Known(p)
      BY <1>3 DEF SizesInv
    <2>4. \A p \in objs' \ resized' : Known(p)'
      BY <1>1, <2>1, <2>3
         DEF Known, Covers, Untouched, Touches, PlaceBytes, Saves, SizeByte, LastByte
    <2> QED BY <1>2, <2>2, <2>4 DEF SizesInv, Place, Index, Extent
  <1> QED BY <1>4, <1>5

LEMMA CheckpointSizes ==
  ASSUME SizesInv, SaveSizes
  PROVE  SizesInv'
  <1>1. /\ bytes' = Applied /\ log' = <<>> /\ objs' = objs /\ taken' = taken
        /\ resized' = resized
    BY DEF SaveSizes
  <1>2. log' \in Seq([at : Index, lines : Nat]) /\ DOMAIN log' = {}
    BY <1>1
  <1>3. ASSUME NEW o \in objs' \ resized' PROVE Known(o)'
    <2>1. /\ log \in Seq([at : Index, lines : Nat])
          /\ \A k \in DOMAIN log : Place(log[k].at, log[k].lines)
          /\ Known(o) /\ Place(o.at, o.lines)
      BY <1>1, <1>3 DEF SizesInv
    <2>2. Saves(Applied, o.at, o.lines)
      BY <2>1, AppliedSaves DEF Known
    <2>3. Saves(bytes, o.at, o.lines)'
      BY <1>1, <2>2 DEF Saves, SizeByte, LastByte
    <2>4. Untouched(o.at, o.lines)'
      BY <1>2 DEF Untouched
    <2> QED BY <2>3, <2>4 DEF Known
  <1> QED BY <1>1, <1>2, <1>3 DEF SizesInv, Place, Index, Extent

(***************************************************************************)
(* After a checkpoint the NVM byte map has the size of every object, of    *)
(* whatever sizes and wherever the allocator puts objects, but for one     *)
(* that took the place of an object freed in the same epoch with another   *)
(* entry in the log.                                                       *)
(***************************************************************************)
THEOREM ObjectSizesAreSaved == ObjSpec => []SizesSaved
  <1>1. ObjInit => SizesInv
    BY SizesInit
  <1>2. SizesInv /\ [ObjNext]_objVars => SizesInv'
    <2> SUFFICES ASSUME SizesInv, [ObjNext]_objVars PROVE SizesInv'
      OBVIOUS
    <2>1. ASSUME NEW size \in Types, NEW at \in Index, Pnew(size, at)
          PROVE  SizesInv'
      BY <2>1, PnewSizes
    <2>2. ASSUME NEW o \in objs, Pdelete(o) PROVE SizesInv'
      BY <2>2, PdeleteSizes
    <2>3. CASE SaveSizes
      BY <2>3, CheckpointSizes
    <2>4. CASE UNCHANGED objVars
      <3>1. /\ log' = log /\ bytes' = bytes /\ objs' = objs /\ taken' = taken
            /\ resized' = resized
        BY <2>4 DEF objVars
      <3>2. \A o \in objs \ resized : Known(o)'
        BY <3>1 DEF SizesInv, Known, Covers, Untouched, Touches, PlaceBytes, Saves,
                    SizeByte, LastByte
      <3> QED BY <3>1, <3>2 DEF SizesInv, Place, Index, Extent
    <2> QED BY <2>1, <2>2, <2>3, <2>4 DEF ObjNext, Index
  <1>3. SizesInv => SizesSaved
    <2> SUFFICES ASSUME SizesInv, log = <<>>, NEW o \in objs \ resized PROVE HasSize(o)
      BY DEF SizesSaved
    <2>1. Saves(bytes, o.at, o.lines)
      <3>1. ~Covers(o.at, o.lines)
        BY DEF Covers
      <3> QED BY <3>1 DEF SizesInv, Known
    <2> QED BY <2>1 DEF Saves, HasSize
  <1> QED BY <1>1, <1>2, <1>3, PTL DEF ObjSpec
=============================================================================
