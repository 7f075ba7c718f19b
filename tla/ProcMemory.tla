----------------------------- MODULE ProcMemory -----------------------------
(***************************************************************************)
(* The memory of one process: run of cpu.c executes its instructions one   *)
(* after the other, and the memory instructions call pgalloc, pgmalloc,    *)
(* pgfree_data, pgread and pgwrite of mm-vm.c.  Each action is one run.    *)
(* The process may have any code: every instruction may come next.         *)
(*                                                                         *)
(* init_mm leaves symrgtbl, fifo_pgn and vma0->vm_freerg_list              *)
(* uninitialised.  The first two lie in the mm_struct, which comes from    *)
(* memory of the loader that was never in use (the program frees nothing   *)
(* of that size) and is therefore 0; the third is read as the end of the   *)
(* free list: if memory is reused there it leads to no region of vma0, and *)
(* a walk of the list stops just the same.                                 *)
(*                                                                         *)
(* The swap device is common to all processes.  The model gives it to one: *)
(* by NothingMapped none of them ever takes a frame of it.                 *)
(***************************************************************************)
EXTENDS PageTable

CONSTANTS
    PAGING_PAGESZ,          \* bytes of a page
    PAGING_MAX_PGN,         \* pages of an address space
    PAGING_MAX_SYMTBL_SZ,   \* entries of symrgtbl
    INT_MAX,                \* the largest int
    SwapFrames,             \* frames of the active swap device
    vmemsz,                 \* bytes of the virtual memory
    Registers, Sizes, Offsets,  \* the operands to consider, as int
    Crash                   \* the result of an instruction that ends the program

ASSUME PageAssumption ==
    PAGING_PAGESZ \in Nat \ {0} /\ PAGING_MAX_PGN \in Nat \ {0}
ASSUME TableAssumption == PAGING_MAX_SYMTBL_SZ \in Nat \ {0}
ASSUME IntAssumption ==
    /\ INT_MAX \in Nat
    /\ 2 * PAGING_PAGESZ <= INT_MAX
    /\ vmemsz \in Nat
    /\ PAGING_PAGESZ <= vmemsz /\ vmemsz <= INT_MAX
\* MEMPHY_format sets the end of a list only if it has two frames or more.
ASSUME SwapAssumption == SwapFrames \in Nat \ {0, 1}
ASSUME OperandAssumption ==
    /\ Registers \subseteq -(INT_MAX + 1)..INT_MAX
    /\ Sizes \subseteq -(INT_MAX + 1)..INT_MAX
    /\ Offsets \subseteq -(INT_MAX + 1)..INT_MAX
ASSUME CrashAssumption == Crash \notin {0, -1}

VARIABLES
    symrgtbl,   \* the region of each symbol
    vma,        \* vm_end and vm_freerg_list of vma0 and vma1
    pgd,        \* the page table
    fifo_pgn,   \* the pages in RAM, the youngest first
    swapFree,   \* free_fp_list of the active swap device
    last,       \* the last instruction, its result, and what it accessed
    freed       \* history: the symbols freed and not allocated since

vars == <<symrgtbl, vma, pgd, fifo_pgn, swapFree, last, freed>>

Symbols == 0..(PAGING_MAX_SYMTBL_SZ - 1)
Pages == 0..(PAGING_MAX_PGN - 1)
Operations == {"start", "calc", "alloc", "malloc", "free", "read", "write"}

\* A region; a node of a free list lies on the heap or in a stack frame.
Region == [vmaid : Int, rg_start : Int, rg_end : Int]
FreeNode == [vmaid : Int, rg_start : Int, rg_end : Int, place : {"heap", "stack"}]

\* ram: the instruction reached its byte of RAM.
Last == [op : Operations, reg : Int, size : Int, stat : {0, -1, Crash},
         ram : BOOLEAN]

\* Types of all variables.
TypeOK ==
    /\ symrgtbl \in [Symbols -> Region]
    /\ vma \in [{0, 1} -> [vm_end : Int, free : Seq(FreeNode)]]
    /\ pgd \in [Pages -> Pte]
    /\ fifo_pgn \in Seq(Pages)
    /\ swapFree \in Seq(0..(SwapFrames - 1))
    /\ last \in Last
    /\ freed \subseteq Symbols

Outcome(op, reg, size, stat) ==
    last' = [op |-> op, reg |-> reg, size |-> size, stat |-> stat,
             ram |-> FALSE]

\* No process runs after the end of the program.
Running == last.stat # Crash

\* The region and the only free node that init_mm gives an area.
EmptyRegion == [vmaid |-> 0, rg_start |-> 0, rg_end |-> 0]
FirstNode == [vmaid |-> 0, rg_start |-> 0, rg_end |-> 0, place |-> "heap"]

\* init_mm, after MEMPHY_format of the swap device.
Init ==
    /\ symrgtbl = [r \in Symbols |-> EmptyRegion]
    /\ vma = [v \in {0, 1} |-> [vm_end |-> 0, free |-> <<FirstNode>>]]
    /\ pgd = [p \in Pages |-> ClearedPte]
    /\ fifo_pgn = <<>>
    /\ swapFree = MEMPHY_format(SwapFrames)
    /\ last = [op |-> "start", reg |-> 0, size |-> 0, stat |-> 0,
               ram |-> FALSE]
    /\ freed = {}

-----------------------------------------------------------------------------
(* int arithmetic of the machine, and PAGING_PAGE_ALIGNSZ.                 *)

Wrap(x) == ((x + INT_MAX + 1) % (2 * (INT_MAX + 1))) - (INT_MAX + 1)

\* Division rounds towards 0.
Quot(a, b) == IF a >= 0 THEN a \div b ELSE -((-a) \div b)

PageAlign(sz) == Wrap(Quot(Wrap(sz + PAGING_PAGESZ - 1), PAGING_PAGESZ) * PAGING_PAGESZ)

-----------------------------------------------------------------------------
(* Allocation.                                                             *)

\* get_vma_by_num finds an area: for a negative number, the first one.
HasVma(vmaid) == vmaid <= 1

FreeSize(rg) == rg.rg_end - rg.rg_start

\* The region is used up to its last byte: its node takes over the next one.
UsedUp(rg, size) == FreeSize(rg) >= size /\ FreeSize(rg) % size = 0

\* The walk of get_free_vmrg_area gets as far as node i.
Visits(free, vmaid, size, i) ==
    \A j \in 1..i : \/ free[j].vmaid = vmaid
                    \/ j > 1 /\ UsedUp(free[j - 1], size)

\* Faulty variant: an empty region fits.
FitsLoosely(free, vmaid, size) ==
    {i \in DOMAIN free : Visits(free, vmaid, size, i)}

\* The nodes from which get_free_vmrg_area takes memory: all that fit.
Fits(free, vmaid, size) ==
    {i \in DOMAIN free : Visits(free, vmaid, size, i) /\ FreeSize(free[i]) >= size}

\* What it leaves of a region: it takes size bytes as long as they are there.
LeftStart(rg, size) == rg.rg_start + (FreeSize(rg) \div size) * size

\* The list after the walk.  The code moves the next node into one that is
\* used up; here that one stays in the list, without a byte.
Taken(free, vmaid, size) ==
    [i \in DOMAIN free |->
        IF Visits(free, vmaid, size, i)
        THEN [free[i] EXCEPT !.vmaid = vmaid, !.rg_start = LeftStart(free[i], size)]
        ELSE free[i]]

\* expand_size of __alloc, before its sign is changed for vmaid 1.
ExpandSize(size) ==
    IF size > PageAlign(size) THEN PageAlign(size) ELSE PAGING_PAGESZ

\* inc_amt of inc_vma_limit.
IncAmount(vmaid, size) ==
    PageAlign(IF vmaid = 1 THEN Wrap(-ExpandSize(size)) ELSE ExpandSize(size))

\* The end that inc_vma_limit asks validate_overlap_vm_area about, as an int.
NewEnd(vmaid, size) ==
    Wrap(vma[vmaid].vm_end
         + IF vmaid = 1 THEN -IncAmount(vmaid, size) ELSE IncAmount(vmaid, size))

\* validate_overlap_vm_area refuses it; vm_start of both areas is 0.
Refused(vmaid, size) ==
    LET end == NewEnd(vmaid, size)
        other == vma[1 - vmaid].vm_end
    IN  \/ end < 0
        \/ end > vmemsz
        \/ vma[vmaid].vm_end < other
        \/ end > 0 /\ end <= other

\* get_free_vmrg_area finds memory.
Fitting(vmaid, size) == size > 0 /\ Fits(vma[vmaid].free, vmaid, size) # {}

\* The region it returns: what it took last.
NewRegion(vmaid, size) ==
    LET fits == Fits(vma[vmaid].free, vmaid, size)
        i == CHOOSE i \in fits : \A j \in fits : j <= i
        end == LeftStart(vma[vmaid].free[i], size)
    IN  [vmaid |-> vmaid, rg_start |-> end - size, rg_end |-> end]

\* The allocation is refused (-1: the size is not positive, or the area may
\* not grow), or it is served from the free list.
AllocReturns(op, vmaid, r, size) ==
    /\ Running
    /\ size <= 0 \/ Fitting(vmaid, size) \/ Refused(vmaid, size)
    /\ symrgtbl' = IF Fitting(vmaid, size)
                   THEN [symrgtbl EXCEPT ![r] = NewRegion(vmaid, size)]
                   ELSE symrgtbl
    /\ vma' = IF Fitting(vmaid, size)
              THEN [vma EXCEPT ![vmaid].free = Taken(@, vmaid, size)]
              ELSE vma
    /\ last' = [op |-> op, reg |-> r, size |-> size,
                stat |-> IF Fitting(vmaid, size) THEN 0 ELSE -1, ram |-> FALSE]
    /\ freed' = IF Fitting(vmaid, size) THEN freed \ {r} ELSE freed
    /\ UNCHANGED <<pgd, fifo_pgn, swapFree>>

\* Nothing fits and the area may grow: inc_vma_limit stores inc_amt through
\* its parameter inc_limit_ret, and __alloc passed NULL for it.
AllocCrashes(op, vmaid, r, size) ==
    /\ Running
    /\ size > 0
    /\ ~Fitting(vmaid, size)
    /\ ~Refused(vmaid, size)
    /\ Outcome(op, r, size, Crash)
    /\ UNCHANGED <<symrgtbl, vma, pgd, fifo_pgn, swapFree, freed>>

-----------------------------------------------------------------------------
(* FREE.                                                                   *)

\* Faulty variant: an empty region is enlisted too.
EnlistEmpty(rg) == rg.rg_start <= rg.rg_end

\* enlist_vm_freerg_list takes a region that is not empty.
Enlistable(rg) == rg.rg_start < rg.rg_end

\* The node is the parameter of enlist_vm_freerg_list itself, and it goes
\* into the list of vma0 whatever the area of the region.
Enlisted(rg) ==
    << [vmaid |-> rg.vmaid, rg_start |-> rg.rg_start, rg_end |-> rg.rg_end,
        place |-> "stack"] >>

\* Faulty variant: the symbol is not marked.
UnmarkedRegion == [vmaid |-> 0, rg_start |-> 0, rg_end |-> 0]

\* What __free leaves in symrgtbl: a region of no area.
FreedRegion == [vmaid |-> -1, rg_start |-> 0, rg_end |-> 0]

FreeSucceeds(r) ==
    /\ Running
    /\ r \in Symbols
    /\ symrgtbl[r].vmaid \in {0, 1}
    /\ vma' = IF Enlistable(symrgtbl[r])
              THEN [vma EXCEPT ![0].free = Enlisted(symrgtbl[r]) \o @]
              ELSE vma
    /\ symrgtbl' = [symrgtbl EXCEPT ![r] = FreedRegion]
    /\ freed' = freed \cup {r}
    /\ Outcome("free", r, 0, 0)
    /\ UNCHANGED <<pgd, fifo_pgn, swapFree>>

FreeFails(r) ==
    /\ Running
    /\ \/ r \notin Symbols
       \/ r \in Symbols /\ symrgtbl[r].vmaid \notin {0, 1}
    /\ Outcome("free", r, 0, -1)
    /\ UNCHANGED <<symrgtbl, vma, pgd, fifo_pgn, swapFree, freed>>

-----------------------------------------------------------------------------
(* READ and WRITE: the same steps but for the byte itself, which is left   *)
(* out, with the frame number that only says where in the RAM it is.       *)

\* get_symrg_byid does not return NULL: it lets PAGING_MAX_SYMTBL_SZ pass.
RgidAccepted(r) == r \in 0..PAGING_MAX_SYMTBL_SZ

\* What its result points to: behind the table lie fifo_pgn, read as vmaid,
\* and the memory behind mm, read as rg_start.
Entries(r) ==
    IF r \in Symbols THEN {symrgtbl[r]}
    ELSE {[vmaid |-> v, rg_start |-> s, rg_end |-> 0] :
              v \in IF fifo_pgn = <<>> THEN {0} ELSE {0, 2}, s \in Offsets}

PAGING_PGN(addr) == (addr \div PAGING_PAGESZ) % PAGING_MAX_PGN

(***************************************************************************)
(* pg_getpage: whether it succeeds, and what it leaves.  A missing page    *)
(* replaces the victim, which is copied to swap; the page number of the    *)
(* victim becomes the frame number of the page.  If no swap frame is free  *)
(* the victim is no longer listed.                                         *)
(***************************************************************************)
pg_getpage(p) ==
    LET kept == [ok |-> FALSE, pgd |-> pgd, fifo |-> fifo_pgn, swap |-> swapFree]
        v == Victim(fifo_pgn)
    IN  IF pgd[p].present THEN [kept EXCEPT !.ok = TRUE]
        ELSE IF fifo_pgn = <<>> THEN kept
        ELSE IF swapFree = <<>> THEN [kept EXCEPT !.fifo = WithoutVictim(fifo_pgn)]
        ELSE [ok |-> TRUE,
              pgd |-> [pgd EXCEPT ![v] = pte_set_swap(@, Head(swapFree)),
                                  ![p] = pte_set_fpn(@, v)],
              fifo |-> <<p>> \o WithoutVictim(fifo_pgn),
              swap |-> Tail(swapFree)]

\* pg_getval and pg_setval reach the byte if pg_getpage succeeds.  __read and
\* __write ignore their result; -1 means that there is no such area.
Access(op, r, offset) ==
    /\ Running
    /\ RgidAccepted(r)
    /\ \E rg \in Entries(r) :
          LET got == pg_getpage(PAGING_PGN(Wrap(rg.rg_start + offset)))
              valid == HasVma(rg.vmaid)
          IN  /\ pgd' = IF valid THEN got.pgd ELSE pgd
              /\ fifo_pgn' = IF valid THEN got.fifo ELSE fifo_pgn
              /\ swapFree' = IF valid THEN got.swap ELSE swapFree
              /\ last' = [op |-> op, reg |-> r, size |-> 0,
                          stat |-> IF valid THEN 0 ELSE -1,
                          ram |-> valid /\ got.ok]
    /\ UNCHANGED <<symrgtbl, vma, freed>>

\* get_symrg_byid returns NULL, and vmaid is read before the test for it.
AccessCrashes(op, r) ==
    /\ Running
    /\ ~RgidAccepted(r)
    /\ Outcome(op, r, 0, Crash)
    /\ UNCHANGED <<symrgtbl, vma, pgd, fifo_pgn, swapFree, freed>>

-----------------------------------------------------------------------------

Calc ==
    /\ Running
    /\ Outcome("calc", 0, 0, 0)
    /\ UNCHANGED <<symrgtbl, vma, pgd, fifo_pgn, swapFree, freed>>

\* run: one instruction.
Next ==
    \/ Calc
    \/ \E r \in Registers, size \in Sizes :
          \/ AllocReturns("alloc", 0, r, size)
          \/ AllocReturns("malloc", 1, r, size)
          \/ AllocCrashes("alloc", 0, r, size)
          \/ AllocCrashes("malloc", 1, r, size)
    \/ \E r \in Registers : FreeSucceeds(r) \/ FreeFails(r)
    \/ \E r \in Registers, op \in {"read", "write"} :
          \/ \E offset \in Offsets : Access(op, r, offset)
          \/ AccessCrashes(op, r)

Spec == Init /\ [][Next]_vars

-----------------------------------------------------------------------------
(* Properties.                                                             *)

(***************************************************************************)
(* No free list leads into a stack frame.  enlist_vm_freerg_list stores    *)
(* the address of its own parameter; what keeps it from doing so is that   *)
(* every region that is ever freed is empty.                               *)
(***************************************************************************)
NoDanglingNode ==
    \A v \in {0, 1} : \A i \in DOMAIN vma[v].free : vma[v].free[i].place = "heap"

(***************************************************************************)
(* No sequence of instructions maps a page, takes a frame of the swap      *)
(* device, or reaches a byte of the RAM.                                   *)
(***************************************************************************)
NothingMapped ==
    /\ \A p \in Pages : ~pgd[p].present
    /\ fifo_pgn = <<>>
    /\ Len(swapFree) = SwapFrames
    /\ ~last.ram

(***************************************************************************)
(* No allocation returns: it ends the program, or is refused because its   *)
(* size is 0 or so large that rounding it to pages overflows an int.       *)
(***************************************************************************)
NoAllocation ==
    last.op \in {"alloc", "malloc"} =>
        /\ last.stat # 0
        /\ last.stat = -1 => last.size <= 0 \/ last.size > INT_MAX - (PAGING_PAGESZ - 1)

(***************************************************************************)
(* A symbol is freed once: after a FREE that succeeded, every FREE of it   *)
(* returns -1 until an allocation of it succeeds, whatever instructions    *)
(* come in between, the allocations that are refused included.  Freed      *)
(* again, its region would be in a free list twice.                        *)
(***************************************************************************)
FreedOnce ==
    [][\A r \in freed : last'.op = "free" /\ last'.reg = r => last'.stat = -1]_vars

(***************************************************************************)
(* The expected outputs run on after ALLOC and MALLOC: an allocation never *)
(* ends the program.                                                       *)
(***************************************************************************)
AllocSurvives == last.op \in {"alloc", "malloc"} => last.stat # Crash

(***************************************************************************)
(* A READ or WRITE that returns 0 has read or written a byte: __read is    *)
(* there to "read value in region memory", __write to "write a region      *)
(* memory", and both return -1 on an error.                                *)
(***************************************************************************)
AccessReachesRam ==
    last.op \in {"read", "write"} /\ last.stat = 0 => last.ram
=============================================================================
