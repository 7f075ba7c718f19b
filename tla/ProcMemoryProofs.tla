-------------------------- MODULE ProcMemoryProofs --------------------------
(***************************************************************************)
(* Theorems about ProcMemory, for every size of the pages, of the symbol   *)
(* table, of the swap device and of an int, and for every set of operands. *)
(*                                                                         *)
(* The invariant says that the memory stays as init_mm and MEMPHY_format   *)
(* left it but for the symbols that were freed: the free regions have no   *)
(* byte, so no allocation is served from them, and so no symbol ever has a *)
(* region that is not empty.                                               *)
(***************************************************************************)
EXTENDS ProcMemory, TLAPS

USE PageAssumption, TableAssumption, IntAssumption, SwapAssumption,
    OperandAssumption, CrashAssumption

\* The symbols and the areas: nothing was ever allocated, and the symbols
\* that were freed are marked.
RegionInv ==
    /\ freed \subseteq Symbols
    /\ symrgtbl = [r \in Symbols |-> IF r \in freed THEN FreedRegion ELSE EmptyRegion]
    /\ vma = [v \in {0, 1} |-> [vm_end |-> 0, free |-> <<FirstNode>>]]

\* The pages, their list and the swap device: nothing was ever mapped.
PageInv ==
    /\ pgd = [p \in Pages |-> ClearedPte]
    /\ fifo_pgn = <<>>
    /\ swapFree = MEMPHY_format(SwapFrames)

\* The last instruction.
LastInv == last \in Last /\ ~last.ram

IInv == RegionInv /\ PageInv /\ LastInv /\ NoAllocation

-----------------------------------------------------------------------------

\* get_free_vmrg_area finds nothing in a list of empty regions.
LEMMA NothingFits ==
    ASSUME RegionInv, NEW vmaid \in {0, 1}, NEW size \in Int
    PROVE  ~Fitting(vmaid, size)
<1>1. SUFFICES ASSUME size > 0
               PROVE  Fits(<<FirstNode>>, vmaid, size) = {}
  BY DEF Fitting, RegionInv
<1>2. \A i \in DOMAIN <<FirstNode>> : <<FirstNode>>[i] = FirstNode
  OBVIOUS
<1>3. FreeSize(FirstNode) = 0
  BY DEF FreeSize, FirstNode
<1> QED
  BY <1>1, <1>2, <1>3 DEF Fits

\* The page number of any address lies in the page table.
LEMMA PageInTable ==
    ASSUME NEW addr \in Int
    PROVE  PAGING_PGN(addr) \in Pages
<1>1. addr \div PAGING_PAGESZ \in Int
  OBVIOUS
<1> QED
  BY <1>1 DEF PAGING_PGN, Pages

\* A missing page finds no victim: pg_getpage fails and changes nothing.
LEMMA NoPage ==
    ASSUME PageInv, NEW p \in Pages
    PROVE  pg_getpage(p) = [ok |-> FALSE, pgd |-> pgd, fifo |-> fifo_pgn, swap |-> swapFree]
  BY DEF pg_getpage, PageInv, ClearedPte

\* An int of 2 * (INT_MAX + 1) values.
LEMMA WrapIsInt ==
    ASSUME NEW x \in Int
    PROVE  Wrap(x) \in Int
  BY DEF Wrap

LEMMA WrapKeeps ==
    ASSUME NEW x \in -(INT_MAX + 1)..INT_MAX
    PROVE  Wrap(x) = x
  BY DEF Wrap

\* Division with remainder.
LEMMA DivMod ==
    ASSUME NEW a \in Nat, NEW b \in Nat \ {0}
    PROVE  /\ a \div b \in Int
           /\ a = b * (a \div b) + (a % b)
           /\ a % b \in 0..(b - 1)
<1>1. a \div b \in Int
  OBVIOUS
<1>2. a % b \in 0..(b - 1)
  OBVIOUS
<1>3. a = b * (a \div b) + (a % b)
  OBVIOUS
<1> QED
  BY <1>1, <1>2, <1>3

\* Rounding up to pages, when it does not overflow, does not lose a byte.
LEMMA PageAlignKeepsSize ==
    ASSUME NEW size \in 1..(INT_MAX - (PAGING_PAGESZ - 1))
    PROVE  PageAlign(size) \in size..INT_MAX
<1> DEFINE sum == size + PAGING_PAGESZ - 1
           q == sum \div PAGING_PAGESZ
<1>1. sum \in 0..INT_MAX /\ Wrap(sum) = sum
  BY WrapKeeps
<1>2. q \in Int /\ sum = PAGING_PAGESZ * q + (sum % PAGING_PAGESZ)
                /\ sum % PAGING_PAGESZ \in 0..(PAGING_PAGESZ - 1)
  <2>1. sum \in Nat /\ PAGING_PAGESZ \in Nat \ {0}
    BY <1>1
  <2> HIDE DEF sum
  <2> QED
    BY <2>1, DivMod
<1>3. q * PAGING_PAGESZ = PAGING_PAGESZ * q /\ q * PAGING_PAGESZ \in Int
  BY <1>2
<1>4. q * PAGING_PAGESZ \in size..INT_MAX
  <2> HIDE DEF q
  <2> QED
    BY <1>1, <1>2, <1>3
<1>5. PageAlign(size) = Wrap(q * PAGING_PAGESZ)
  <2>1. Quot(sum, PAGING_PAGESZ) = q
    BY <1>1 DEF Quot
  <2>2. PageAlign(size) = Wrap(Quot(Wrap(sum), PAGING_PAGESZ) * PAGING_PAGESZ)
    BY DEF PageAlign
  <2> QED
    BY <1>1, <2>1, <2>2
<1> QED
  <2> HIDE DEF q
  <2> QED
    BY <1>4, <1>5, WrapKeeps

\* The amounts that __alloc asks for: one page up, or less than a page down.
LEMMA PageUp == PageAlign(PAGING_PAGESZ) = PAGING_PAGESZ
<1>1. Wrap(2 * PAGING_PAGESZ - 1) = 2 * PAGING_PAGESZ - 1
  BY WrapKeeps
<1>2. (2 * PAGING_PAGESZ - 1) \div PAGING_PAGESZ = 1
  OBVIOUS
<1>3. PageAlign(PAGING_PAGESZ) = Wrap(1 * PAGING_PAGESZ)
  BY <1>1, <1>2 DEF PageAlign, Quot
<1> QED
  BY <1>3, WrapKeeps

LEMMA PageDown == PageAlign(-PAGING_PAGESZ) \in {0, -1}
<1>1. Wrap(-1) = -1
  BY WrapKeeps
<1>2. -PAGING_PAGESZ + PAGING_PAGESZ - 1 = -1
  OBVIOUS
<1>3. PageAlign(-PAGING_PAGESZ) = Wrap(-(1 \div PAGING_PAGESZ) * PAGING_PAGESZ)
  BY <1>1, <1>2 DEF PageAlign, Quot
<1>4. CASE PAGING_PAGESZ = 1
  BY <1>1, <1>3, <1>4
<1>5. CASE PAGING_PAGESZ > 1
  <2>1. 1 \div PAGING_PAGESZ = 0
    BY <1>5
  <2> QED
    BY <2>1, <1>3, WrapKeeps
<1> QED
  BY <1>4, <1>5

\* An allocation whose size can be rounded is not refused.
LEMMA GrowthIsAccepted ==
    ASSUME RegionInv, NEW vmaid \in {0, 1},
           NEW size \in 1..(INT_MAX - (PAGING_PAGESZ - 1))
    PROVE  ~Refused(vmaid, size)
<1>1. ExpandSize(size) = PAGING_PAGESZ
  BY PageAlignKeepsSize DEF ExpandSize
<1>2. vma[0].vm_end = 0 /\ vma[1].vm_end = 0
  BY DEF RegionInv
<1>3. CASE vmaid = 0
  <2>1. NewEnd(vmaid, size) = PAGING_PAGESZ
    BY <1>1, <1>2, <1>3, PageUp, WrapKeeps DEF NewEnd, IncAmount
  <2> QED
    BY <1>2, <1>3, <2>1 DEF Refused
<1>4. CASE vmaid = 1
  <2>1. Wrap(-PAGING_PAGESZ) = -PAGING_PAGESZ
    BY WrapKeeps
  <2>2. IncAmount(vmaid, size) = PageAlign(-PAGING_PAGESZ)
    BY <1>1, <1>4, <2>1 DEF IncAmount
  <2>3. NewEnd(vmaid, size) \in {0, 1}
    BY <1>2, <1>4, <2>2, PageDown, WrapKeeps DEF NewEnd
  <2> QED
    BY <1>2, <1>4, <2>3 DEF Refused
<1> QED
  BY <1>3, <1>4

-----------------------------------------------------------------------------

LEMMA InitInv == Init => IInv
<1> SUFFICES ASSUME Init PROVE IInv
  OBVIOUS
<1>1. RegionInv /\ PageInv
  BY DEF Init, RegionInv, PageInv
<1>2. LastInv
  BY DEF Init, LastInv, Last, Operations
<1>3. NoAllocation
  BY DEF Init, NoAllocation
<1> QED
  BY <1>1, <1>2, <1>3 DEF IInv

\* The instructions that leave the whole memory as it is.
LEMMA OutcomeInv ==
    ASSUME IInv, NEW op \in Operations, NEW r \in Int, NEW size \in Int,
           NEW stat \in {0, -1, Crash}, Outcome(op, r, size, stat),
           op \notin {"alloc", "malloc"}, stat # Crash
    PROVE  LastInv' /\ NoAllocation'
<1>1. LastInv'
  BY DEF Outcome, LastInv, Last
<1>2. NoAllocation'
  BY DEF Outcome, NoAllocation
<1> QED
  BY <1>1, <1>2

LEMMA AllocReturnsInv ==
    ASSUME IInv, NEW op \in {"alloc", "malloc"}, NEW vmaid \in {0, 1},
           NEW r \in Registers, NEW size \in Sizes,
           AllocReturns(op, vmaid, r, size)
    PROVE  IInv'
<1>1. RegionInv /\ size \in Int /\ r \in Int
  BY DEF IInv
<1>2. ~Fitting(vmaid, size)
  BY <1>1, NothingFits
<1>3. RegionInv' /\ PageInv'
  BY <1>2 DEF AllocReturns, IInv, RegionInv, PageInv
<1>4. last' = [op |-> op, reg |-> r, size |-> size, stat |-> -1, ram |-> FALSE]
  BY <1>2 DEF AllocReturns
<1>5. LastInv'
  BY <1>1, <1>4 DEF LastInv, Last, Operations
<1>6. size <= 0 \/ size > INT_MAX - (PAGING_PAGESZ - 1)
  <2>1. size <= 0 \/ Refused(vmaid, size)
    BY <1>2 DEF AllocReturns
  <2> QED
    BY <1>1, <2>1, GrowthIsAccepted
<1>7. NoAllocation'
  BY <1>4, <1>6 DEF NoAllocation
<1> QED
  BY <1>3, <1>5, <1>7 DEF IInv

LEMMA AllocCrashesInv ==
    ASSUME IInv, NEW op \in {"alloc", "malloc"}, NEW vmaid \in {0, 1},
           NEW r \in Registers, NEW size \in Sizes,
           AllocCrashes(op, vmaid, r, size)
    PROVE  IInv'
<1>1. RegionInv' /\ PageInv'
  BY DEF AllocCrashes, IInv, RegionInv, PageInv
<1>2. size \in Int /\ r \in Int /\ size > 0
  BY DEF AllocCrashes
<1>3. last' = [op |-> op, reg |-> r, size |-> size, stat |-> Crash, ram |-> FALSE]
  BY DEF AllocCrashes, Outcome
<1>4. LastInv'
  BY <1>2, <1>3 DEF LastInv, Last, Operations
<1>5. NoAllocation'
  BY <1>2, <1>3 DEF NoAllocation
<1> QED
  BY <1>1, <1>4, <1>5 DEF IInv

\* Every region that is freed is empty: it is never enlisted.
LEMMA FreeSucceedsInv ==
    ASSUME IInv, NEW r \in Registers, FreeSucceeds(r)
    PROVE  IInv'
<1>1. r \in Symbols /\ symrgtbl[r] \in {EmptyRegion, FreedRegion}
  BY DEF FreeSucceeds, IInv, RegionInv
<1>2. ~Enlistable(symrgtbl[r])
  BY <1>1 DEF Enlistable, EmptyRegion, FreedRegion
<1>3. vma' = vma /\ symrgtbl' = [symrgtbl EXCEPT ![r] = FreedRegion]
  BY <1>2 DEF FreeSucceeds, FreedRegion
<1>4. RegionInv'
  <2>1. freed' = freed \cup {r} /\ freed' \subseteq Symbols
    BY <1>1 DEF FreeSucceeds, IInv, RegionInv
  <2>2. symrgtbl' = [s \in Symbols |-> IF s \in freed' THEN FreedRegion ELSE EmptyRegion]
    BY <1>1, <1>3, <2>1 DEF IInv, RegionInv
  <2> QED
    BY <1>3, <2>1, <2>2 DEF IInv, RegionInv
<1>5. PageInv'
  BY DEF FreeSucceeds, IInv, PageInv
<1>6. LastInv' /\ NoAllocation'
  BY OutcomeInv DEF FreeSucceeds, Operations
<1> QED
  BY <1>4, <1>5, <1>6 DEF IInv

LEMMA FreeFailsInv ==
    ASSUME IInv, NEW r \in Registers, FreeFails(r)
    PROVE  IInv'
<1>1. RegionInv' /\ PageInv'
  BY DEF FreeFails, IInv, RegionInv, PageInv
<1>2. Outcome("free", r, 0, -1) /\ r \in Int /\ Crash # -1
  BY DEF FreeFails
<1>3. LastInv' /\ NoAllocation'
  BY <1>2, OutcomeInv DEF Operations
<1> QED
  BY <1>1, <1>3 DEF IInv

\* No page is present and none can be replaced.
LEMMA AccessInv ==
    ASSUME IInv, NEW op \in {"read", "write"}, NEW r \in Registers,
           NEW offset \in Offsets, Access(op, r, offset)
    PROVE  IInv'
<1>1. PICK rg \in Entries(r) :
          LET got == pg_getpage(PAGING_PGN(Wrap(rg.rg_start + offset)))
              valid == HasVma(rg.vmaid)
          IN  /\ pgd' = IF valid THEN got.pgd ELSE pgd
              /\ fifo_pgn' = IF valid THEN got.fifo ELSE fifo_pgn
              /\ swapFree' = IF valid THEN got.swap ELSE swapFree
              /\ last' = [op |-> op, reg |-> r, size |-> 0,
                          stat |-> IF valid THEN 0 ELSE -1,
                          ram |-> valid /\ got.ok]
  BY DEF Access
<1>2. rg.rg_start \in Int /\ offset \in Int
  <2>1. CASE r \in Symbols
    BY <2>1 DEF Entries, IInv, RegionInv, EmptyRegion, FreedRegion
  <2>2. CASE r \notin Symbols
    BY <2>2 DEF Entries
  <2> QED
    BY <2>1, <2>2
<1> DEFINE p == PAGING_PGN(Wrap(rg.rg_start + offset))
<1>3. p \in Pages
  BY <1>2, WrapIsInt, PageInTable
<1>4. pg_getpage(p) = [ok |-> FALSE, pgd |-> pgd, fifo |-> fifo_pgn, swap |-> swapFree]
  <2> HIDE DEF p
  <2> QED
    BY <1>3, NoPage DEF IInv
<1>5. /\ pgd' = pgd /\ fifo_pgn' = fifo_pgn /\ swapFree' = swapFree
      /\ last' = [op |-> op, reg |-> r, size |-> 0,
                  stat |-> IF HasVma(rg.vmaid) THEN 0 ELSE -1,
                  ram |-> FALSE]
  <2> HIDE DEF p
  <2>1. /\ pgd' = IF HasVma(rg.vmaid) THEN pg_getpage(p).pgd ELSE pgd
        /\ fifo_pgn' = IF HasVma(rg.vmaid) THEN pg_getpage(p).fifo ELSE fifo_pgn
        /\ swapFree' = IF HasVma(rg.vmaid) THEN pg_getpage(p).swap ELSE swapFree
        /\ last' = [op |-> op, reg |-> r, size |-> 0,
                    stat |-> IF HasVma(rg.vmaid) THEN 0 ELSE -1,
                    ram |-> HasVma(rg.vmaid) /\ pg_getpage(p).ok]
    BY <1>1 DEF p
  <2>2. /\ pg_getpage(p).pgd = pgd /\ pg_getpage(p).fifo = fifo_pgn
        /\ pg_getpage(p).swap = swapFree /\ pg_getpage(p).ok = FALSE
    BY <1>4
  <2>3. (HasVma(rg.vmaid) /\ pg_getpage(p).ok) = FALSE
    BY <2>2
  <2> QED
    BY <2>1, <2>2, <2>3
<1>6. RegionInv' /\ PageInv'
  BY <1>5 DEF Access, IInv, RegionInv, PageInv
<1>7. LastInv'
  BY <1>5 DEF LastInv, Last, Operations
<1>8. NoAllocation'
  BY <1>5 DEF NoAllocation
<1> QED
  BY <1>6, <1>7, <1>8 DEF IInv

LEMMA AccessCrashesInv ==
    ASSUME IInv, NEW op \in {"read", "write"}, NEW r \in Registers,
           AccessCrashes(op, r)
    PROVE  IInv'
<1>1. RegionInv' /\ PageInv'
  BY DEF AccessCrashes, IInv, RegionInv, PageInv
<1>2. last' = [op |-> op, reg |-> r, size |-> 0, stat |-> Crash, ram |-> FALSE]
  BY DEF AccessCrashes, Outcome
<1>3. LastInv'
  BY <1>2 DEF LastInv, Last, Operations
<1>4. NoAllocation'
  BY <1>2 DEF NoAllocation
<1> QED
  BY <1>1, <1>3, <1>4 DEF IInv

LEMMA NextInv == IInv /\ [Next]_vars => IInv'
<1> SUFFICES ASSUME IInv, [Next]_vars PROVE IInv'
  OBVIOUS
<1>1. CASE UNCHANGED vars
  BY <1>1 DEF vars, IInv, RegionInv, PageInv, LastInv, NoAllocation
<1>2. CASE Calc
  <2>1. RegionInv' /\ PageInv'
    BY <1>2 DEF Calc, IInv, RegionInv, PageInv
  <2> QED
    BY <1>2, <2>1, OutcomeInv DEF Calc, Operations, IInv
<1>3. ASSUME NEW r \in Registers, NEW size \in Sizes,
             \/ AllocReturns("alloc", 0, r, size)
             \/ AllocReturns("malloc", 1, r, size)
             \/ AllocCrashes("alloc", 0, r, size)
             \/ AllocCrashes("malloc", 1, r, size)
      PROVE  IInv'
  BY <1>3, AllocReturnsInv, AllocCrashesInv
<1>4. ASSUME NEW r \in Registers, FreeSucceeds(r) \/ FreeFails(r)
      PROVE  IInv'
  BY <1>4, FreeSucceedsInv, FreeFailsInv
<1>5. ASSUME NEW r \in Registers, NEW op \in {"read", "write"},
             \/ \E offset \in Offsets : Access(op, r, offset)
             \/ AccessCrashes(op, r)
      PROVE  IInv'
  BY <1>5, AccessInv, AccessCrashesInv
<1> QED
  BY <1>1, <1>2, <1>3, <1>4, <1>5 DEF Next

THEOREM Invariance == Spec => []IInv
  BY InitInv, NextInv, PTL DEF Spec

-----------------------------------------------------------------------------
\* The consequences of the invariant.

LEMMA FramesAreCounted ==
    /\ MEMPHY_format(SwapFrames) \in Seq(0..(SwapFrames - 1))
    /\ Len(MEMPHY_format(SwapFrames)) = SwapFrames
  BY SwapAssumption DEF MEMPHY_format

\* The variables of the memory keep their types, whatever the code of the
\* process is: no list, table or device of cpu.c and mm-vm.c is corrupted.
THEOREM TypeCorrect == Spec => []TypeOK
<1>1. IInv => TypeOK
  <2> SUFFICES ASSUME IInv PROVE TypeOK
    OBVIOUS
  <2>1. symrgtbl \in [Symbols -> Region]
    BY DEF IInv, RegionInv, EmptyRegion, FreedRegion, Region
  <2>2. vma \in [{0, 1} -> [vm_end : Int, free : Seq(FreeNode)]]
    BY DEF IInv, RegionInv, FirstNode, FreeNode
  <2>3. pgd \in [Pages -> Pte] /\ fifo_pgn \in Seq(Pages)
    BY DEF IInv, PageInv, ClearedPte, Pte
  <2>4. swapFree \in Seq(0..(SwapFrames - 1)) /\ last \in Last
    BY FramesAreCounted DEF IInv, PageInv, LastInv
  <2>5. freed \subseteq Symbols
    BY DEF IInv, RegionInv
  <2> QED
    BY <2>1, <2>2, <2>3, <2>4, <2>5 DEF TypeOK
<1> QED
  BY <1>1, Invariance, PTL

\* enlist_vm_freerg_list stores the address of its parameter, and still no
\* free list ever leads into a stack frame.
THEOREM ListsStayOnTheHeap == Spec => []NoDanglingNode
<1>1. IInv => NoDanglingNode
  BY DEF IInv, RegionInv, FirstNode, NoDanglingNode
<1> QED
  BY <1>1, Invariance, PTL

\* No instruction sequence maps a page, takes a swap frame or reaches a byte.
THEOREM PagesStayUnmapped == Spec => []NothingMapped
<1>1. IInv => NothingMapped
  BY FramesAreCounted DEF IInv, PageInv, LastInv, ClearedPte, NothingMapped
<1> QED
  BY <1>1, Invariance, PTL

\* pgalloc and pgmalloc never return 0, and return -1 only for a size that is
\* not positive or overflows when it is rounded to pages.
THEOREM AllocationsFail == Spec => []NoAllocation
<1>1. IInv => NoAllocation
  BY DEF IInv
<1> QED
  BY <1>1, Invariance, PTL

\* __free finds the mark of the first FREE of a symbol, whatever instructions
\* came after it: no symbol is freed twice without being allocated.
THEOREM FreedOnlyOnce == Spec => FreedOnce
<1> DEFINE StaysFreed == \A r \in freed : last'.op = "free" /\ last'.reg = r => last'.stat = -1
<1>1. IInv /\ [Next]_vars => [StaysFreed]_vars
  <2> SUFFICES ASSUME IInv, Next, NEW r \in freed, last'.op = "free", last'.reg = r
               PROVE  last'.stat = -1
    OBVIOUS
  <2>1. symrgtbl[r].vmaid = -1
    BY DEF IInv, RegionInv, FreedRegion
  <2>2. ~FreeSucceeds(r)
    BY <2>1 DEF FreeSucceeds
  <2>3. PICK s \in Registers : FreeSucceeds(s) \/ FreeFails(s)
    BY DEF Next, Calc, AllocReturns, AllocCrashes, Access, AccessCrashes, Outcome
  <2>4. last'.reg = s
    <3>1. CASE FreeSucceeds(s)
      BY <3>1 DEF FreeSucceeds, Outcome
    <3>2. CASE FreeFails(s)
      BY <3>2 DEF FreeFails, Outcome
    <3> QED
      BY <2>3, <3>1, <3>2
  <2>5. FreeFails(r)
    BY <2>2, <2>3, <2>4
  <2> QED
    BY <2>5 DEF FreeFails, Outcome
<1>2. Spec => [][StaysFreed]_vars
  <2> HIDE DEF StaysFreed
  <2> QED
    BY <1>1, Invariance, PTL DEF Spec
<1> QED
  BY <1>2 DEF FreedOnce
=============================================================================
