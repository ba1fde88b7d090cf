---------------------------- MODULE StartupProofs ----------------------------
(***************************************************************************)
(* What a formatted file keeps, proved for every layout, every number of   *)
(* threads and every sequence of starts, deaths and power failures.        *)
(***************************************************************************)
EXTENDS Startup, TLAPS

TypeOK ==
  /\ GLOBAL_EPOCH \in Nat /\ user_num \in Nat /\ threads \in Nat /\ started \in Nat
  /\ pc \in {"down", "opened", "mapped", "numbered", "ready", "running"}
  /\ is_dirty \in BOOLEAN /\ formatted \in BOOLEAN

\* A header that may be found at a start.
HeaderOK(h) ==
  /\ h = [dram_space |-> h.dram_space, epoch |-> h.epoch,
          bytemap |-> h.bytemap, root_pointer |-> h.root_pointer]
  /\ h.epoch \in Nat /\ h.bytemap \in {0, AreaEnd + Word}
  /\ formatted => /\ h.dram_space # 0 /\ h.root_pointer = root_pointer
                  /\ h.epoch >= started /\ h.bytemap = AreaEnd + Word

\* What a file looks like at any moment, between processes included.
FileOK ==
  /\ formatted => root_pointer # 0 /\ started >= 2
  /\ header \in pending
  /\ \A h \in pending : HeaderOK(h)

\* Where a process is in escort_init, what it knows of the file.
ProcessOK ==
  /\ pc = "opened" => tmp_space = AreaEnd
  /\ pc \in {"opened", "mapped"} => (formatted => is_dirty)
  /\ pc \in {"mapped", "numbered", "ready"} => bytemap = AreaEnd + Word
  /\ pc \in {"numbered", "ready"} /\ ~is_dirty =>
       ~formatted /\ GLOBAL_EPOCH = 2 /\ dram_space # 0
  /\ pc = "numbered" => ~is_dirty
  /\ pc = "ready" /\ ~is_dirty => RootTable = root_pointer /\ root_pointer # 0
  /\ pc \in {"ready", "running"} /\ formatted => RootTable = root_pointer
  /\ pc # "down" => dram_space # 0
  /\ pc # "running" => threads = 0
  /\ pc \in {"ready", "running"} /\ is_dirty => user_num = threads
  /\ pc = "running" => persist_num = CpNum

IInv == TypeOK /\ FileOK /\ ProcessOK

-----------------------------------------------------------------------------
(***************************************************************************)
(* Init and every step of Next keep IInv: the invariant behind the         *)
(* theorems below.                                                         *)
(***************************************************************************)
LEMMA InvInit == Init => IInv
<1> SUFFICES ASSUME Init PROVE IInv
  OBVIOUS
<1>1. ~formatted /\ ~is_dirty /\ formatted \in BOOLEAN /\ is_dirty \in BOOLEAN
  BY Zenon DEF Init
<1>2. /\ GLOBAL_EPOCH = 0 /\ user_num \in Nat /\ threads = 0 /\ pc = "down"
      /\ bytemap = 0 /\ pending = {header} /\ started = 0
  BY LayoutAssumption DEF Init
<1>3. HeaderOK(header)
  BY <1>1, <1>2 DEF HeaderOK, header
<1> QED
  BY <1>1, <1>2, <1>3 DEF IInv, TypeOK, FileOK, ProcessOK

\* What is stored in the header while it is complete, or before there is a file.
LEMMA StoreKeeps ==
  ASSUME FileOK, Store, HeaderOK(header)', UNCHANGED hvars,
         formatted => root_pointer' = root_pointer
  PROVE  FileOK'
<1>1. formatted' = formatted /\ started' = started
  BY DEF hvars
<1>2. header' \in pending' /\ pending' = pending \cup {header'}
  BY DEF Store
<1>3. ASSUME NEW h \in pending PROVE HeaderOK(h)'
  BY <1>1 DEF FileOK, HeaderOK, AreaEnd, user_num_addr, persist_num_addr, nvm_space,
              Header, Word
<1>4. \A h \in pending' : HeaderOK(h)'
  <2> SUFFICES ASSUME NEW h \in pending' PROVE HeaderOK(h)'
    OBVIOUS
  <2>1. CASE h \in pending
    BY <1>3, <2>1
  <2>2. CASE h = header'
    <3>1. HeaderOK(header)'
      OBVIOUS
    <3> QED BY <2>2, <3>1 DEF HeaderOK
  <2> QED BY <1>2, <2>1, <2>2
<1>5. formatted' => root_pointer' # 0 /\ started' >= 2
  BY <1>1 DEF FileOK
<1> QED
  BY <1>2, <1>4, <1>5 DEF FileOK

\* The header that a step stores, from the fields it has.
LEMMA HeaderAfter ==
  ASSUME FileOK, TypeOK, UNCHANGED hvars, GLOBAL_EPOCH' \in Nat,
         bytemap' \in {0, AreaEnd + Word},
         formatted => /\ dram_space' # 0 /\ root_pointer' = root_pointer
                      /\ GLOBAL_EPOCH' >= GLOBAL_EPOCH /\ bytemap' = AreaEnd + Word
  PROVE  HeaderOK(header)'
<1>1. formatted' = formatted /\ started' = started
  BY DEF hvars
<1>2. formatted => GLOBAL_EPOCH >= started
  <2>1. HeaderOK(header)
    BY DEF FileOK
  <2> QED BY <2>1 DEF HeaderOK, header
<1>3. /\ GLOBAL_EPOCH' \in Nat /\ bytemap' \in {0, AreaEnd + Word}
      /\ formatted' => /\ dram_space' # 0 /\ root_pointer' = root_pointer
                       /\ GLOBAL_EPOCH' >= started' /\ bytemap' = AreaEnd + Word
  BY <1>1, <1>2 DEF TypeOK
<1> QED
  BY <1>3 DEF HeaderOK, header, AreaEnd, user_num_addr, persist_num_addr, nvm_space,
              Header, Word

\* What the header in the file says.
LEMMA HeaderNow ==
  ASSUME FileOK
  PROVE  /\ GLOBAL_EPOCH \in Nat /\ bytemap \in {0, AreaEnd + Word}
         /\ formatted => /\ dram_space # 0 /\ root_pointer # 0 /\ GLOBAL_EPOCH >= started
                         /\ bytemap = AreaEnd + Word /\ started >= 2
<1>1. HeaderOK(header)
  BY DEF FileOK
<1> QED
  BY <1>1 DEF FileOK, HeaderOK, header

\* A step that leaves the header and what may be in NVM alone.
LEMMA FileStays ==
  ASSUME FileOK, pending' = pending, UNCHANGED hvars, header' = header,
         root_pointer' = root_pointer
  PROVE  FileOK'
BY DEF FileOK, HeaderOK, hvars, AreaEnd, user_num_addr, persist_num_addr, nvm_space,
       Header, Word

LEMMA StartStep == IInv /\ StartCheckpointing => IInv'
<1> SUFFICES ASSUME IInv, StartCheckpointing PROVE IInv'
  OBVIOUS
<1>1. TypeOK /\ FileOK /\ ProcessOK
  BY DEF IInv
<1>2. /\ pc = "ready" /\ pc' = "running" /\ persist_num' = CpNum
      /\ pending' = {header} /\ formatted' = (formatted \/ ~is_dirty)
      /\ started' = GLOBAL_EPOCH
      /\ dram_space' = dram_space /\ GLOBAL_EPOCH' = GLOBAL_EPOCH
      /\ bytemap' = bytemap /\ root_pointer' = root_pointer /\ user_num' = user_num
      /\ is_dirty' = is_dirty /\ RootTable' = RootTable /\ tmp_space' = tmp_space
      /\ threads' = threads
  BY DEF StartCheckpointing
<1>3. header' = header
  BY <1>2 DEF header
<1>4. formatted' => /\ dram_space # 0 /\ root_pointer # 0 /\ GLOBAL_EPOCH >= 2
                    /\ bytemap = AreaEnd + Word /\ RootTable = root_pointer
  BY <1>1, <1>2, HeaderNow DEF TypeOK, ProcessOK
<1>5. HeaderOK(header)'
  BY <1>1, <1>2, <1>4, HeaderNow
  DEF TypeOK, HeaderOK, header, AreaEnd, user_num_addr, persist_num_addr, nvm_space,
      Header, Word
<1>6. FileOK'
  BY <1>2, <1>3, <1>4, <1>5 DEF FileOK
<1>7. TypeOK' /\ ProcessOK'
  BY <1>1, <1>2, <1>4 DEF TypeOK, ProcessOK
<1> QED
  BY <1>6, <1>7 DEF IInv

LEMMA PowerFailureStep == IInv /\ PowerFailure => IInv'
<1> SUFFICES ASSUME IInv, PowerFailure PROVE IInv'
  OBVIOUS
<1>1. PICK h \in pending :
        /\ dram_space' = h.dram_space /\ GLOBAL_EPOCH' = h.epoch
        /\ bytemap' = h.bytemap /\ root_pointer' = h.root_pointer
        /\ pending' = {h}
  BY DEF PowerFailure
<1>2. /\ pc' = "down" /\ is_dirty' = FALSE /\ threads' = 0
      /\ user_num' \in 0..MaxThreads /\ formatted' = formatted /\ started' = started
  BY DEF PowerFailure, NoProcess, hvars
<1>3. TypeOK /\ FileOK /\ HeaderOK(h)
  BY DEF IInv, FileOK
<1>4. formatted => root_pointer' = root_pointer
  BY <1>1, <1>3 DEF HeaderOK
<1>5. HeaderOK(h)'
  BY <1>2, <1>3, <1>4
  DEF HeaderOK, AreaEnd, user_num_addr, persist_num_addr, nvm_space, Header, Word
<1>6. h = header'
  BY <1>1, <1>3 DEF header, IInv, FileOK, HeaderOK
<1>7. FileOK'
  BY <1>1, <1>2, <1>3, <1>4, <1>5, <1>6 DEF FileOK
<1>8. TypeOK'
  <2>1. GLOBAL_EPOCH' \in Nat
    BY <1>1, <1>3 DEF HeaderOK
  <2>2. user_num' \in Nat
    BY <1>2, LayoutAssumption
  <2> QED BY <1>2, <1>3, <2>1, <2>2 DEF TypeOK
<1>9. ProcessOK'
  BY <1>2 DEF ProcessOK
<1> QED
  BY <1>9, <1>7, <1>8 DEF IInv

\* The invariant of a file and its process is kept by every step.
LEMMA InvStep == IInv /\ [Next]_vars => IInv'
<1> SUFFICES ASSUME IInv, [Next]_vars PROVE IInv'
  OBVIOUS
<1>0. TypeOK /\ FileOK /\ ProcessOK
  BY DEF IInv
<1>1. CASE Open
  <2>1. Store /\ UNCHANGED hvars
    BY <1>1 DEF Open
  <2>2. HeaderOK(header)'
    BY <1>0, <1>1, HeaderAfter, HeaderNow DEF Open, TypeOK
  <2>3. FileOK'
    BY <1>0, <1>1, <2>1, <2>2, StoreKeeps DEF Open
  <2>4. TypeOK' /\ ProcessOK'
    BY <1>0, <1>1, HeaderNow DEF Open, check_dirty, TypeOK, ProcessOK, hvars, AreaEnd,
       user_num_addr, persist_num_addr, nvm_space, Header, Word
  <2> QED BY <2>3, <2>4 DEF IInv
<1>2. CASE InitBitmap
  <2>1. Store /\ UNCHANGED hvars
    BY <1>2 DEF InitBitmap
  <2>2. bytemap' = AreaEnd + Word
    BY <1>0, <1>2 DEF InitBitmap, ProcessOK
  <2>3. HeaderOK(header)'
    BY <1>0, <1>2, <2>2, HeaderAfter, HeaderNow DEF InitBitmap, TypeOK
  <2>4. FileOK'
    BY <1>0, <1>2, <2>1, <2>3, StoreKeeps DEF InitBitmap
  <2>5. TypeOK' /\ ProcessOK'
    BY <1>0, <1>2, <2>2 DEF InitBitmap, TypeOK, ProcessOK, hvars, AreaEnd,
       user_num_addr, persist_num_addr, nvm_space, Header, Word
  <2> QED BY <2>4, <2>5 DEF IInv
<1>3. CASE FirstEpoch
  <2>1. Store /\ UNCHANGED hvars /\ ~formatted
    BY <1>0, <1>3 DEF FirstEpoch, ProcessOK
  <2>2. HeaderOK(header)'
    BY <1>0, <1>3, <2>1, HeaderAfter, HeaderNow DEF FirstEpoch, TypeOK
  <2>3. FileOK'
    BY <1>0, <1>3, <2>1, <2>2, StoreKeeps DEF FirstEpoch
  <2>4. TypeOK' /\ ProcessOK'
    BY <1>0, <1>3, <2>1 DEF FirstEpoch, TypeOK, ProcessOK, hvars, AreaEnd,
       user_num_addr, persist_num_addr, nvm_space, Header, Word
  <2> QED BY <2>3, <2>4 DEF IInv
<1>4. ASSUME NEW a \in Addrs, InitRoottable(a) PROVE IInv'
  <2>1. Store /\ UNCHANGED hvars /\ ~formatted /\ a # 0
    BY <1>0, <1>4, LayoutAssumption DEF InitRoottable, ProcessOK
  <2>2. HeaderOK(header)'
    BY <1>0, <1>4, <2>1, HeaderAfter, HeaderNow DEF InitRoottable, TypeOK
  <2>3. FileOK'
    BY <1>0, <1>4, <2>1, <2>2, StoreKeeps DEF InitRoottable
  <2>4. TypeOK' /\ ProcessOK'
    BY <1>0, <1>4, <2>1 DEF InitRoottable, set_root_pointer, TypeOK, ProcessOK, hvars,
       AreaEnd, user_num_addr, persist_num_addr, nvm_space, Header, Word
  <2> QED BY <2>3, <2>4 DEF IInv
<1>5. CASE Recover
  <2>1. FileOK'
    BY <1>0, <1>5, FileStays DEF Recover, header
  <2>2. TypeOK' /\ ProcessOK'
    BY <1>0, <1>5 DEF Recover, reset_thread_num, TypeOK, ProcessOK, hvars, AreaEnd,
       user_num_addr, persist_num_addr, nvm_space, Header, Word
  <2> QED BY <2>1, <2>2 DEF IInv
<1>6. CASE StartCheckpointing
  BY <1>6, StartStep
<1>7. CASE ThreadInit
  <2>1. FileOK'
    BY <1>0, <1>7, FileStays DEF ThreadInit, header
  <2>2. TypeOK' /\ ProcessOK'
    BY <1>0, <1>7 DEF ThreadInit, TypeOK, ProcessOK, hvars
  <2> QED BY <2>1, <2>2 DEF IInv
<1>8. CASE Advance
  <2>1. Store /\ UNCHANGED hvars
    BY <1>8 DEF Advance
  <2>2. HeaderOK(header)'
    BY <1>0, <1>8, HeaderAfter, HeaderNow DEF Advance, TypeOK
  <2>3. FileOK'
    BY <1>0, <1>8, <2>1, <2>2, StoreKeeps DEF Advance
  <2>4. TypeOK' /\ ProcessOK'
    BY <1>0, <1>8 DEF Advance, TypeOK, ProcessOK, pvars, hvars
  <2> QED BY <2>3, <2>4 DEF IInv
<1>9. CASE Crash
  <2>1. FileOK'
    BY <1>0, <1>9, FileStays DEF Crash, header, fvars
  <2>2. TypeOK' /\ ProcessOK'
    BY <1>0, <1>9 DEF Crash, NoProcess, fvars, TypeOK, ProcessOK, hvars
  <2> QED BY <2>1, <2>2 DEF IInv
<1>10. CASE PowerFailure
  BY <1>10, PowerFailureStep
<1>11. CASE UNCHANGED vars
  <2>1. FileOK'
    BY <1>0, <1>11, FileStays DEF vars, header, fvars
  <2>2. TypeOK' /\ ProcessOK'
    BY <1>0, <1>11 DEF vars, fvars, pvars, hvars, TypeOK, ProcessOK, AreaEnd,
       user_num_addr, persist_num_addr, nvm_space, Header, Word
  <2> QED BY <2>1, <2>2 DEF IInv
<1> QED
  BY <1>1, <1>2, <1>3, <1>4, <1>5, <1>6, <1>7, <1>8, <1>9, <1>10, <1>11 DEF Next

\* Every reachable state of the file and its process satisfies the invariant.
LEMMA InvHolds == Spec => []IInv
BY InvInit, InvStep, PTL DEF Spec

-----------------------------------------------------------------------------
(***************************************************************************)
(* A running process over a formatted file has that file's root table and  *)
(* an epoch in which transactions can run (escort_init), whatever power    *)
(* failures have taken from the header.                                    *)
(***************************************************************************)
THEOREM FilesAreTakenOver == Spec => []TakenOver
<1>1. IInv => TakenOver
  BY HeaderNow DEF IInv, TypeOK, ProcessOK, TakenOver
<1> QED
  BY <1>1, InvHolds, PTL

(***************************************************************************)
(* After a restart, user_num and persist_num in the file count the threads *)
(* of the new process (reset_thread_num, set_checkpointing_thread).        *)
(***************************************************************************)
THEOREM ThreadNumbersAreRight == Spec => []ThreadNumbers
<1>1. IInv => ThreadNumbers
  BY DEF IInv, ProcessOK, ThreadNumbers
<1> QED
  BY <1>1, InvHolds, PTL

(***************************************************************************)
(* No start, no death of a process and no power failure changes the root   *)
(* table or the byte map of a formatted file (escort_init, create_area).   *)
(* Its epoch goes back in a power failure only, for want of a clwb, and    *)
(* not below that of the last start.                                       *)
(***************************************************************************)
THEOREM FormattedFilesSurvive == Spec => FileSurvives
<1> DEFINE Kept == formatted =>
             /\ root_pointer' = root_pointer /\ bytemap' = bytemap
             /\ GLOBAL_EPOCH' >= started
             /\ pc' # "down" => GLOBAL_EPOCH' >= GLOBAL_EPOCH
<1>1. IInv /\ [Next]_vars => [Kept]_vars
  <2> SUFFICES ASSUME IInv, Next, formatted
               PROVE  /\ root_pointer' = root_pointer /\ bytemap' = bytemap
                      /\ GLOBAL_EPOCH' >= started
                      /\ pc' # "down" => GLOBAL_EPOCH' >= GLOBAL_EPOCH
    OBVIOUS
  <2>0. /\ TypeOK /\ ProcessOK /\ FileOK
        /\ GLOBAL_EPOCH >= started /\ bytemap = AreaEnd + Word
    BY HeaderNow DEF IInv
  <2>1. CASE InitBitmap
    BY <2>0, <2>1 DEF InitBitmap, TypeOK, ProcessOK
  <2>2. CASE FirstEpoch
    BY <2>0, <2>2 DEF FirstEpoch, ProcessOK
  <2>3. ASSUME NEW a \in Addrs, InitRoottable(a) PROVE FALSE
    BY <2>0, <2>3 DEF InitRoottable, ProcessOK
  <2>4. CASE Advance
    BY <2>0, <2>4 DEF Advance, TypeOK
  <2>5. CASE Open
    BY <2>0, <2>5 DEF Open, TypeOK
  <2>6. CASE Recover
    BY <2>0, <2>6 DEF Recover, TypeOK
  <2>7. CASE StartCheckpointing
    BY <2>0, <2>7 DEF StartCheckpointing, TypeOK
  <2>8. CASE ThreadInit
    BY <2>0, <2>8 DEF ThreadInit, TypeOK
  <2>9. CASE Crash
    BY <2>0, <2>9 DEF Crash, NoProcess, fvars
  <2>10. CASE PowerFailure
    BY <2>0, <2>10 DEF PowerFailure, NoProcess, FileOK, HeaderOK
  <2> QED
    BY <2>1, <2>2, <2>3, <2>4, <2>5, <2>6, <2>7, <2>8, <2>9, <2>10 DEF Next
<1> QED
  BY <1>1, InvHolds, PTL DEF Spec, FileSurvives
=============================================================================
