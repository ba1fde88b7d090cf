----------------------------- MODULE CacheLine -----------------------------
(***************************************************************************)
(* Cache lines: the unit in which writes are marked and saved, and objects *)
(* allocated.                                                              *)
(***************************************************************************)
EXTENDS Integers

CONSTANT CACHE_LINE_SIZE

ASSUME LineAssumption == CACHE_LINE_SIZE \in Nat \ {0}

\* bitmap_t::get_index: the line of an address.  Addresses count from DRAM_BASE,
\* which is page-aligned (diff_addr).
get_index(addr) == addr \div CACHE_LINE_SIZE

\* mark(): addr_ptr -= addr_ptr % CACHE_LINE_SIZE
LineAddr(addr) == addr - (addr % CACHE_LINE_SIZE)

\* pnew and pdelete round sizeof(T) up to whole lines.
RoundedLines(size) ==
  IF size % CACHE_LINE_SIZE # 0 THEN size \div CACHE_LINE_SIZE + 1
                                ELSE size \div CACHE_LINE_SIZE
============================================================================
