---------------------------- MODULE ObjectSizes ----------------------------
(***************************************************************************)
(* The sizes of objects on their way from PNEW and PDELETE through the     *)
(* allocator log to the NVM byte map, from which recovery::apply_metadata  *)
(* takes them.  One thread and one epoch at a time; module AllocatorLog    *)
(* has the interleavings, with objects of one size.                        *)
(*                                                                         *)
(* Places are indexes of cache lines.  An object is a place and a number   *)
(* of lines; a byte of the NVM map holds at most CACHE_LINE_SIZE lines, so *)
(* a large object takes several bytes, at its first indexes.               *)
(*                                                                         *)
(* Init, Next, Spec and the checkpoint have names of their own here, for   *)
(* module RegionsProofs extends this module and Regions.                   *)
(***************************************************************************)
EXTENDS CacheLine, Sequences

CONSTANTS
  Lines,    \* the number of lines of the heap
  Types,    \* sizeof(T) of the classes that clients allocate
  Places,   \* Places[n]: where the internal allocator puts objects of n lines
  MaxLog    \* bound: entries of the allocator log

ASSUME PlacesAssumption ==
  /\ Lines \in Nat /\ Types \subseteq Nat \ {0}
  /\ \A size \in Types : RoundedLines(size) \in DOMAIN Places

VARIABLES
  objs,     \* what clients have: [at, lines, size] records
  taken,    \* what the internal allocator has handed out: [at, lines] records
  ByteMap,  \* the DRAM byte map of the epoch: 0, 1 or -1
  log,      \* the allocator log of the epoch
  bytes,    \* the NVM byte map
  resized   \* history: objects whose allocation the log does not show

objVars == <<objs, taken, ByteMap, log, bytes, resized>>

Index == 0 .. Lines - 1

ObjInit ==
  /\ objs = {} /\ taken = {} /\ log = <<>> /\ resized = {}
  /\ ByteMap = [i \in Index |-> 0] /\ bytes = [i \in Index |-> 0]

-----------------------------------------------------------------------------
Extent(o) == o.at .. (o.at + o.lines - 1)
Fits(at, n) == /\ at + n <= Lines
               /\ \A o \in taken : Extent(o) \cap (at .. (at + n - 1)) = {}

\* malloc_with_create_log, free_with_create_log: an operation on a set byte
\* reverses it, any other sets it and is logged.
LogOperation(at, n) ==
  /\ ByteMap' = [ByteMap EXCEPT ![at] = IF @ = 1 THEN -1 ELSE 1]
  /\ log' = IF ByteMap[at] = 1 THEN log ELSE Append(log, [at |-> at, lines |-> n])

\* The bytes that hold the size of an object.
LastByte(n) == (n - 1) \div CACHE_LINE_SIZE
PlaceBytes(at, n) == at .. at + LastByte(n)
Touches(e, at, n) == PlaceBytes(e.at, e.lines) \cap PlaceBytes(at, n) # {}

\* The last entry that touches these bytes is one of this place and size.
Covers(at, n) ==
  \E k \in DOMAIN log : /\ log[k] = [at |-> at, lines |-> n]
                         /\ \A j \in DOMAIN log : j > k => ~Touches(log[j], at, n)

\* PNEW: escort_malloc of whole lines, wherever the internal allocator has room
Pnew(size, at) ==
  LET n == RoundedLines(size)
      o == [at |-> at, lines |-> n, size |-> size]
  IN
  /\ Len(log) < MaxLog
  /\ at \in Places[n] /\ Fits(at, n)
  /\ objs' = objs \cup {o}
  /\ taken' = taken \cup {[at |-> at, lines |-> n]}
  /\ LogOperation(at, n)
  /\ resized' = IF ByteMap[at] = 1 /\ ~Covers(at, n) THEN resized \cup {o} ELSE resized
  /\ UNCHANGED bytes

\* PDELETE: escort_free is inside the test for a size that needs rounding.
Pdelete(o) ==
  /\ Len(log) < MaxLog
  /\ o \in objs /\ objs' = objs \ {o} /\ resized' = resized \ {o}
  /\ IF o.size % CACHE_LINE_SIZE # 0
     THEN /\ taken' = taken \ {[at |-> o.at, lines |-> o.lines]}
          /\ LogOperation(o.at, o.lines)
     ELSE UNCHANGED <<taken, ByteMap, log>>
  /\ UNCHANGED bytes

\* bytemap_nvm_t::set_obj_size: full bytes, then the rest
set_obj_size(map, at, n) ==
  LET full == n \div CACHE_LINE_SIZE
      rest == n % CACHE_LINE_SIZE
  IN  [i \in Index |-> IF i \in at .. (at + full - 1) THEN CACHE_LINE_SIZE
                       ELSE IF i = at + full /\ rest > 0 THEN rest
                       ELSE map[i]]

\* cpallocator_t::checkpointing applies every entry of the log in order.
\* Mutant: the last one first.
Applied_last ==
  LET map[k \in 0 .. Len(log)] ==
        IF k = 0 THEN bytes
                 ELSE LET e == log[Len(log) + 1 - k]
                      IN  set_obj_size(map[k - 1], e.at, e.lines)
  IN  map[Len(log)]
Applied ==
  LET map[k \in 0 .. Len(log)] ==
        IF k = 0 THEN bytes
                 ELSE set_obj_size(map[k - 1], log[k].at, log[k].lines)
  IN  map[Len(log)]

\* check_valid clears the bytes of logged places before, and the log is cleared
\* at the end.
SaveSizes ==
  /\ log # <<>>
  /\ bytes' = Applied
  /\ ByteMap' = [i \in Index |-> IF \E k \in DOMAIN log : log[k].at = i
                                 THEN 0 ELSE ByteMap[i]]
  /\ log' = <<>>
  /\ UNCHANGED <<objs, taken, resized>>

ObjNext ==
  \/ \E size \in Types, at \in Index : Pnew(size, at)
  \/ \E o \in objs : Pdelete(o)
  \/ SaveSizes

ObjSpec == ObjInit /\ [][ObjNext]_objVars

-----------------------------------------------------------------------------
\* The bytes of the place of o have as many lines as a byte can hold, and the
\* last one the rest.
SizeByte(n, k) == IF n - k * CACHE_LINE_SIZE >= CACHE_LINE_SIZE
                  THEN CACHE_LINE_SIZE ELSE n - k * CACHE_LINE_SIZE
HasSize(o) == \A k \in 0 .. LastByte(o.lines) : bytes[o.at + k] = SizeByte(o.lines, k)

(***************************************************************************)
(* The metadata recovery is to restore: after a checkpoint the NVM byte    *)
(* map has the size of every object, whatever sizes its place had before   *)
(* and whatever other objects have left in its bytes, in this epoch or in  *)
(* earlier ones.  The exception is an object allocated where one has been  *)
(* freed in the same epoch: malloc_with_create_log takes the free back and *)
(* logs nothing, which leaves the size that the log already has.           *)
(***************************************************************************)
SizesSaved == log = <<>> => \A o \in objs \ resized : HasSize(o)
============================================================================
