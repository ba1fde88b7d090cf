------------------------------- MODULE Regions -------------------------------
(***************************************************************************)
(* The address arithmetic of write regions, byte by byte: which lines      *)
(* userthreadctx_t::mark() marks for escort_write_region(addr, size), and  *)
(* which lines log_persistence_unit saves from the address list.  One      *)
(* thread and one epoch at a time; module Checkpointing has the rest, with *)
(* regions as sets of whole lines.                                         *)
(***************************************************************************)
EXTENDS CacheLine

CONSTANTS
  HEAP_SIZE,
  Clients      \* the regions clients write: pairs of an address and a size

ASSUME HeapAssumption ==
  /\ HEAP_SIZE \in Nat
  /\ Clients \subseteq (0 .. HEAP_SIZE - 1) \X (1 .. HEAP_SIZE)

VARIABLES
  bitmap,    \* the lines marked in this epoch
  addrlist,  \* {addr, num_bits} entries
  unsaved    \* the bytes whose NVM copy is out of date

vars == <<bitmap, addrlist, unsaved>>

Init == bitmap = {} /\ addrlist = {} /\ unsaved = {}

\* mark(): the number of lines, from the size alone.  Mutant: not rounded up.
num_bits_floor(size) == size \div CACHE_LINE_SIZE
num_bits(size) == (size + CACHE_LINE_SIZE - 1) \div CACHE_LINE_SIZE

\* mark(): the lines of index .. end_index - 1
Marked(addr, size) == get_index(addr) .. (get_index(addr) + num_bits(size) - 1)

\* is_append_list: some bit was not set.  Mutant: the last line decides.
IsAppendList_last(addr, size) ==
  get_index(addr) + num_bits(size) - 1 \notin bitmap
IsAppendList(addr, size) == ~(Marked(addr, size) \subseteq bitmap)

Bytes(addr, size) == addr .. (addr + size - 1)

\* escort_write_region(addr, size) and the write it announces
Write(addr, size) ==
  /\ addr + size <= HEAP_SIZE
  /\ bitmap' = bitmap \cup Marked(addr, size)
  /\ addrlist' = IF IsAppendList(addr, size)
                 THEN addrlist \cup {<<LineAddr(addr), num_bits(size)>>}
                 ELSE addrlist
  /\ unsaved' = unsaved \cup Bytes(addr, size)

\* log_persistence_unit: the lines of the list whose bit is set
Saved ==
  bitmap \cap
    UNION {get_index(e[1]) .. (get_index(e[1]) + e[2] - 1) : e \in addrlist}

Checkpoint ==
  /\ bitmap # {}
  /\ unsaved' = {b \in unsaved : get_index(b) \notin Saved}
  /\ bitmap' = bitmap \ Saved
  /\ addrlist' = {}

Next == Checkpoint \/ \E r \in Clients : Write(r[1], r[2])

Spec == Init /\ [][Next]_vars

-----------------------------------------------------------------------------
(***************************************************************************)
(* Every byte written since the last checkpoint is in a line that the next *)
(* one saves, whatever the sizes of the regions and however they overlap.  *)
(***************************************************************************)
WritesAreSaved == \A b \in unsaved : get_index(b) \in Saved

\* A checkpoint leaves no bit behind for the epoch after the next.
NoBitLeft == bitmap \subseteq Saved
=============================================================================
