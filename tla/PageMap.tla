------------------------------ MODULE PageMap ------------------------------
(***************************************************************************)
(* The interface of mm.h to paging, for processes that share the RAM and   *)
(* the active swap device and run on different CPUs: vm_map_ram maps pages *)
(* to frames of the RAM, pg_getpage brings in a page for an access, and    *)
(* free_pcb_memph gives back the frames of a process.  The program itself  *)
(* calls only pg_getpage (ProcMemory).                                     *)
(*                                                                         *)
(* The mutexes ram_lock and swap_lock are static in mm.h: each source file *)
(* has its own.  A step reaches from one access to a shared list to the    *)
(* next; a mutex is released together with the step before.  The page      *)
(* table and the list of resident pages belong to one process, and a       *)
(* process runs on one CPU at a time.                                      *)
(***************************************************************************)
EXTENDS PageTable, FiniteSets

CONSTANTS
    Processes,
    NULL,               \* nobody
    PAGING_MAX_PGN,     \* pages of an address space
    RamFrames,          \* frames of the RAM
    SwapFrames,         \* frames of the active swap device
    CallSets,           \* the functions that are called: "map", "page", "free"
    MapArguments        \* mapstart, as a page, and incpgnum of vm_map_ram

ASSUME ProcessAssumption == NULL \notin Processes
ASSUME PagesAssumption == PAGING_MAX_PGN \in Nat \ {0}

\* Numbers that do not fit into their bits of a page table entry are cut, and
\* MEMPHY_format sets the end of a list only if it has two frames or more.
ASSUME FramesAssumption ==
    /\ RamFrames \in 2..FrameNumbers
    /\ PAGING_MAX_PGN <= FrameNumbers
    /\ SwapFrames \in 2..SwapOffsets
ASSUME CallsAssumption == CallSets \subseteq SUBSET {"map", "page", "free"}

\* The pages to map lie inside the page table.
ASSUME ArgumentsAssumption ==
    \A a \in MapArguments : a \in Nat \X Nat /\ a[1] + a[2] <= PAGING_MAX_PGN

VARIABLES
    calls,      \* the functions that are called in this behaviour
    pgd,        \* the page table of each process
    fifo_pgn,   \* its pages in RAM, the youngest first
    ramFree,    \* free_fp_list of the RAM
    swapFree,   \* free_fp_list of the swap device
    torn,       \* the list of the RAM leads into memory that was freed
    lock,       \* who holds each mutex
    pc,         \* where each process is
    task        \* its arguments and local variables

lists == <<ramFree, swapFree, torn>>
tables == <<pgd, fifo_pgn>>
vars == <<calls, tables, lists, lock, pc, task>>

Pages == 0..(PAGING_MAX_PGN - 1)

\* ram_lock of mm.c, ram_lock and swap_lock of mm-vm.c, ram_lock of mm-memphy.c.
Locks == {"mm ram", "mm-vm ram", "mm-vm swap", "memphy ram"}

\* page and vicpgn: loop variable or argument, and the victim; fp: the free
\* list as it was read.
Task == [page : Nat, mapstart : Nat, incpgnum : Nat, vicpgn : Nat,
         frm_lst : Seq(Nat), fp : Seq(Nat)]

ControlStates == {"idle", "alloc", "get ram", "take ram", "map",
                  "evict", "get swap", "take swap", "free", "put", "dead"}

\* Types of all variables; what the free lists hold are frames of their
\* device.
TypeOK ==
    /\ calls \in CallSets
    /\ pgd \in [Processes -> [Pages -> Pte]]
    /\ fifo_pgn \in [Processes -> Seq(Pages)]
    /\ ramFree \in Seq(Nat)
    /\ swapFree \in Seq(Nat)
    /\ torn \in BOOLEAN
    /\ lock \in [Locks -> Processes \cup {NULL}]
    /\ pc \in [Processes -> ControlStates]
    /\ task \in [Processes -> Task]
    /\ "free" \notin calls =>
          /\ ramFree \in Seq(0..(RamFrames - 1))
          /\ swapFree \in Seq(0..(SwapFrames - 1))

NoTask == [page |-> 0, mapstart |-> 0, incpgnum |-> 0, vicpgn |-> 0,
           frm_lst |-> <<>>, fp |-> <<>>]

\* init_mm of every process, and MEMPHY_format of both devices.
Init ==
    /\ calls \in CallSets
    /\ pgd = [p \in Processes |-> [page \in Pages |-> ClearedPte]]
    /\ fifo_pgn = [p \in Processes |-> <<>>]
    /\ ramFree = MEMPHY_format(RamFrames)
    /\ swapFree = MEMPHY_format(SwapFrames)
    /\ torn = FALSE
    /\ lock = [l \in Locks |-> NULL]
    /\ pc = [p \in Processes |-> "idle"]
    /\ task = [p \in Processes |-> NoTask]

-----------------------------------------------------------------------------
(* Steps that the functions share.                                         *)

At(p, where) == pc[p] = where
Goto(p, where) == pc' = [pc EXCEPT ![p] = where]

\* The function returns: its local variables are gone.
Return(p) ==
    /\ Goto(p, "idle")
    /\ task' = [task EXCEPT ![p] = NoTask]

Acquire(p, l) ==
    /\ lock[l] = NULL
    /\ lock' = [lock EXCEPT ![l] = p]

Release(mutexes) ==
    lock' = [l \in Locks |-> IF l \in mutexes THEN NULL ELSE lock[l]]

\* The frame number in a local entry of the page table of p, and the page
\* at the head of its list: pte_set_fpn and enlist_pgn_node.
MapTo(p, page, fpn) ==
    /\ pgd' = [pgd EXCEPT ![p][page] = pte_set_fpn(@, fpn)]
    /\ fifo_pgn' = [fifo_pgn EXCEPT ![p] = <<page>> \o @]

\* Faulty variant: pages in RAM are mapped again.
NeverPresent(p, page) == FALSE

PAGING_PTE_PAGE_PRESENT(p, page) == pgd[p][page].present

-----------------------------------------------------------------------------
(* vm_map_ram.                                                             *)

MapRam(p, mapstart, incpgnum) ==
    /\ At(p, "idle")
    /\ "map" \in calls
    /\ Goto(p, "alloc")
    /\ task' = [task EXCEPT ![p] = [NoTask EXCEPT !.mapstart = mapstart,
                                                  !.incpgnum = incpgnum]]
    /\ UNCHANGED <<calls, tables, lists, lock>>

\* Faulty variant: the last page of the request is left out.
RequestedButOne(p) == task[p].page + 1 < task[p].incpgnum

\* The condition of both loops over the pages.
Requested(p) == task[p].page < task[p].incpgnum

\* alloc_pages_range: a page that is in RAM already.
AllocSkip(p) ==
    /\ At(p, "alloc")
    /\ Requested(p)
    /\ PAGING_PTE_PAGE_PRESENT(p, task[p].page)
    /\ task' = [task EXCEPT ![p].page = @ + 1]
    /\ UNCHANGED <<calls, tables, lists, lock, pc>>

LockRam(p) ==
    /\ At(p, "alloc")
    /\ Requested(p)
    /\ ~PAGING_PTE_PAGE_PRESENT(p, task[p].page)
    /\ Acquire(p, "mm ram")
    /\ Goto(p, "get ram")
    /\ UNCHANGED <<calls, tables, lists, task>>

\* MEMPHY_get_freefp.  What it does with a list that leads into freed memory
\* is not defined, and not modelled.
ReadRam(p) ==
    /\ At(p, "get ram")
    /\ ~torn
    /\ ramFree # <<>>
    /\ Acquire(p, "memphy ram")
    /\ task' = [task EXCEPT ![p].fp = ramFree]
    /\ Goto(p, "take ram")
    /\ UNCHANGED <<calls, tables, lists>>

\* Faulty variant: the early return forgets the mutex.
ReleaseNothing == {}

\* The mutexes released when the list is empty.
HeldByMm == {"mm ram"}

\* The list is empty: vm_map_ram fails.  What it mapped stays mapped.
RamEmpty(p) ==
    /\ At(p, "get ram")
    /\ ~torn
    /\ ramFree = <<>>
    /\ lock["memphy ram"] = NULL
    /\ Release(HeldByMm)
    /\ Return(p)
    /\ UNCHANGED <<calls, tables, lists>>

\* The head leaves the list; page table, list of pages, list of frames.
TakeRam(p) ==
    /\ At(p, "take ram")
    /\ ramFree' = Tail(task[p].fp)
    /\ Release({"mm ram", "memphy ram"})
    /\ MapTo(p, task[p].page, Head(task[p].fp))
    /\ task' = [task EXCEPT ![p].frm_lst = <<Head(task[p].fp)>> \o @,
                            ![p].page = @ + 1,
                            ![p].fp = <<>>]
    /\ Goto(p, "alloc")
    /\ UNCHANGED <<calls, swapFree, torn>>

\* alloc_pages_range returns; vmap_page_range begins at mapstart.
AllocDone(p) ==
    /\ At(p, "alloc")
    /\ ~Requested(p)
    /\ task' = [task EXCEPT ![p].page = 0]
    /\ Goto(p, "map")
    /\ UNCHANGED <<calls, tables, lists, lock>>

\* The page that vmap_page_range looks at.
MapPgn(p) == task[p].mapstart + task[p].page

MapSkip(p) ==
    /\ At(p, "map")
    /\ Requested(p)
    /\ task[p].frm_lst # <<>>
    /\ PAGING_PTE_PAGE_PRESENT(p, MapPgn(p))
    /\ task' = [task EXCEPT ![p].page = @ + 1]
    /\ UNCHANGED <<calls, tables, lists, lock, pc>>

\* A frame that alloc_pages_range has already mapped.
MapPage(p) ==
    /\ At(p, "map")
    /\ Requested(p)
    /\ task[p].frm_lst # <<>>
    /\ ~PAGING_PTE_PAGE_PRESENT(p, MapPgn(p))
    /\ MapTo(p, MapPgn(p), Head(task[p].frm_lst))
    /\ task' = [task EXCEPT ![p].page = @ + 1, ![p].frm_lst = Tail(@)]
    /\ UNCHANGED <<calls, lists, lock, pc>>

\* All pages are done, or no frame is left: vm_map_ram does not look at which.
MapDone(p) ==
    /\ At(p, "map")
    /\ ~Requested(p) \/ task[p].frm_lst = <<>>
    /\ Return(p)
    /\ UNCHANGED <<calls, tables, lists, lock>>

-----------------------------------------------------------------------------
(* pg_getpage, for a page that is not present while others are.            *)

\* find_victim_page.
Evict(p, page) ==
    /\ At(p, "idle")
    /\ "page" \in calls
    /\ ~PAGING_PTE_PAGE_PRESENT(p, page)
    /\ fifo_pgn[p] # <<>>
    /\ fifo_pgn' = [fifo_pgn EXCEPT ![p] = WithoutVictim(@)]
    /\ task' = [task EXCEPT ![p] = [NoTask EXCEPT !.page = page,
                                                  !.vicpgn = Victim(fifo_pgn[p])]]
    /\ Goto(p, "evict")
    /\ UNCHANGED <<calls, pgd, lists, lock>>

LockSwap(p) ==
    /\ At(p, "evict")
    /\ Acquire(p, "mm-vm swap")
    /\ Goto(p, "get swap")
    /\ UNCHANGED <<calls, tables, lists, task>>

\* MEMPHY_get_freefp again: it locks ram_lock for every device.
ReadSwap(p) ==
    /\ At(p, "get swap")
    /\ swapFree # <<>>
    /\ Acquire(p, "memphy ram")
    /\ task' = [task EXCEPT ![p].fp = swapFree]
    /\ Goto(p, "take swap")
    /\ UNCHANGED <<calls, tables, lists>>

\* No frame: pg_getpage fails.  The victim stays in RAM, and in no list.
SwapEmpty(p) ==
    /\ At(p, "get swap")
    /\ swapFree = <<>>
    /\ lock["memphy ram"] = NULL
    /\ Release({"mm-vm swap"})
    /\ Return(p)
    /\ UNCHANGED <<calls, tables, lists>>

\* Faulty variant: the page is not enlisted.
NotListed(s, page) == s

Listed(s, page) == <<page>> \o s

\* The victim is copied to swap; the page gets the number of the victim's
\* page as its frame.
TakeSwap(p) ==
    /\ At(p, "take swap")
    /\ swapFree' = Tail(task[p].fp)
    /\ Release({"mm-vm swap", "memphy ram"})
    /\ pgd' = [pgd EXCEPT
                 ![p][task[p].vicpgn] = pte_set_swap(@, Head(task[p].fp)),
                 ![p][task[p].page] = pte_set_fpn(@, task[p].vicpgn)]
    /\ fifo_pgn' = [fifo_pgn EXCEPT ![p] = Listed(@, task[p].page)]
    /\ Return(p)
    /\ UNCHANGED <<calls, ramFree, torn>>

-----------------------------------------------------------------------------
(* free_pcb_memph: a page that is not in RAM puts its frame number into    *)
(* the list of the RAM, any other one its swap offset into that of swap.   *)

FreeMemory(p) ==
    /\ At(p, "idle")
    /\ "free" \in calls
    /\ Goto(p, "free")
    /\ UNCHANGED <<calls, tables, lists, lock, task>>

InRam(p) == PAGING_PTE_PAGE_PRESENT(p, task[p].page)

\* Faulty variant: one mutex of mm-vm.c for the RAM and one of mm.c for swap.
OtherPutLock(p) == IF InRam(p) THEN "mm ram" ELSE "mm-vm ram"

PutLock(p) == IF InRam(p) THEN "mm-vm swap" ELSE "mm-vm ram"

\* MEMPHY_put_freefp locks nothing itself: it reads the head,
ReadPut(p) ==
    /\ At(p, "free")
    /\ task[p].page < PAGING_MAX_PGN
    /\ Acquire(p, PutLock(p))
    /\ task' = [task EXCEPT ![p].fp = IF InRam(p) THEN swapFree ELSE ramFree]
    /\ Goto(p, "put")
    /\ UNCHANGED <<calls, tables, lists>>

\* and makes the new node the head.  If the old head has left the list since
\* then, the new one leads to a node that was freed.
WritePut(p) ==
    LET pte == pgd[p][task[p].page]
    IN  /\ At(p, "put")
        /\ ramFree' = IF InRam(p) THEN ramFree
                      ELSE <<PAGING_PTE_FPN(pte)>> \o task[p].fp
        /\ swapFree' = IF InRam(p) THEN <<PAGING_PTE_SWP(pte)>> \o task[p].fp
                       ELSE swapFree
        /\ torn' = (torn \/ (~InRam(p) /\ ramFree # task[p].fp))
        /\ Release({PutLock(p)})
        /\ task' = [task EXCEPT ![p].page = @ + 1, ![p].fp = <<>>]
        /\ Goto(p, "free")
        /\ UNCHANGED <<calls, tables>>

\* The page table still says what it said: the process must not run again.
FreeDone(p) ==
    /\ At(p, "free")
    /\ task[p].page >= PAGING_MAX_PGN
    /\ task' = [task EXCEPT ![p] = NoTask]
    /\ Goto(p, "dead")
    /\ UNCHANGED <<calls, tables, lists, lock>>

-----------------------------------------------------------------------------

\* A call of one of the functions.
Call(p) ==
    \/ \E a \in MapArguments : MapRam(p, a[1], a[2])
    \/ \E page \in Pages : Evict(p, page)
    \/ FreeMemory(p)

\* A step of the function that was called.
Step(p) ==
    \/ AllocSkip(p) \/ LockRam(p) \/ ReadRam(p) \/ RamEmpty(p) \/ TakeRam(p)
    \/ AllocDone(p) \/ MapSkip(p) \/ MapPage(p) \/ MapDone(p)
    \/ LockSwap(p) \/ ReadSwap(p) \/ SwapEmpty(p) \/ TakeSwap(p)
    \/ ReadPut(p) \/ WritePut(p) \/ FreeDone(p)

Next == \E p \in Processes : Call(p) \/ Step(p)

\* A thread goes on, and a mutex that is free again and again is not kept
\* from it for ever.
Fairness == \A p \in Processes : SF_vars(Step(p))

Safety == Init /\ [][Next]_vars
Spec == Safety /\ Fairness

-----------------------------------------------------------------------------
(* Properties.                                                             *)

\* A page whose bytes are in the RAM.
Online(p, page) == pgd[p][page].present /\ ~pgd[p][page].swapped

\* Who is between reading and writing the head of a list.
InRamList == {p \in Processes : At(p, "take ram") \/ (At(p, "put") /\ ~InRam(p))}
InSwapList == {p \in Processes : At(p, "take swap") \/ (At(p, "put") /\ InRam(p))}

(***************************************************************************)
(* No two processes are in the middle of a change of the same free list,   *)
(* although every source file locks mutexes of its own: for swap always,   *)
(* for the RAM as long as nobody calls free_pcb_memph.                     *)
(***************************************************************************)
ListsAreExclusive ==
    /\ \A p, q \in InSwapList : p = q
    /\ "free" \notin calls => \A p, q \in InRamList : p = q

\* The pages whose entry holds this frame of the RAM, or of swap.
MappedTo(f) ==
    {x \in Processes \X Pages :
        Online(x[1], x[2]) /\ PAGING_PTE_FPN(pgd[x[1]][x[2]]) = f}
SwappedTo(f) ==
    {x \in Processes \X Pages :
        pgd[x[1]][x[2]].swapped /\ PAGING_PTE_SWP(pgd[x[1]][x[2]]) = f}

Once(list, f) == \A i, j \in DOMAIN list : list[i] = f /\ list[j] = f => i = j
In(list, f) == \E i \in DOMAIN list : list[i] = f

(***************************************************************************)
(* vm_map_ram takes frames one by one and does not give them back when     *)
(* the list runs empty, and maps them in two passes: still every frame is  *)
(* either free or mapped, and no two processes map the same one.           *)
(***************************************************************************)
RamIsPartitioned ==
    calls = {"map"} =>
        \A f \in 0..(RamFrames - 1) :
            /\ Once(ramFree, f)
            /\ In(ramFree, f) <=> MappedTo(f) = {}
            /\ \A x, y \in MappedTo(f) : x[1] = y[1]

(***************************************************************************)
(* Each frame of swap is free or holds one page, whatever is swapped out   *)
(* by whom at the same time, and whether or not swap is full.              *)
(***************************************************************************)
SwapIsPartitioned ==
    "free" \notin calls =>
        \A f \in 0..(SwapFrames - 1) :
            /\ Once(swapFree, f)
            /\ In(swapFree, f) <=> SwappedTo(f) = {}
            /\ \A x, y \in SwappedTo(f) : x = y

(***************************************************************************)
(* The list of a process has each page once, and only pages in RAM.  A     *)
(* page in RAM that is in no list is the victim of a running pg_getpage,   *)
(* or of one that found swap full: it will never leave the RAM.            *)
(***************************************************************************)
FifoIsComplete ==
    \A p \in Processes :
        /\ \A i, j \in DOMAIN fifo_pgn[p] : fifo_pgn[p][i] = fifo_pgn[p][j] => i = j
        /\ \A i \in DOMAIN fifo_pgn[p] : Online(p, fifo_pgn[p][i])
        /\ "free" \notin calls =>
              \A page \in Pages :
                  Online(p, page) =>
                      \/ In(fifo_pgn[p], page)
                      \/ pc[p] \in {"evict", "get swap", "take swap"} /\ task[p].vicpgn = page
                      \/ swapFree = <<>>

(***************************************************************************)
(* A page that was swapped out keeps its frame of swap for ever, and a     *)
(* page never moves in the RAM while it is there.                          *)
(***************************************************************************)
FramesStay ==
    [][\A p \in Processes, page \in Pages :
          /\ pgd[p][page].swapped => pgd'[p][page] = pgd[p][page]
          /\ Online(p, page) /\ Online(p, page)' => pgd'[p][page] = pgd[p][page]]_vars

(***************************************************************************)
(* A vm_map_ram from page 0 on that does not fail leaves every page it was *)
(* asked for present, although vmap_page_range may end early and nobody    *)
(* looks at its result, and whatever was present before or is taken from   *)
(* the RAM by others at the same time.                                     *)
(***************************************************************************)
RequestIsServed ==
    [][\A p \in Processes :
          At(p, "map") /\ task[p].mapstart = 0 /\ pc'[p] = "idle" =>
              \A page \in Pages :
                  page < task[p].incpgnum => pgd'[p][page].present]_vars

(***************************************************************************)
(* Every call returns, although two files lock one inside the other: the   *)
(* mutex that MEMPHY_get_freefp locks while its caller holds ram_lock is   *)
(* not the same one.                                                       *)
(***************************************************************************)
CallsReturn ==
    \A p \in Processes : "free" \notin calls /\ pc[p] # "idle" ~> pc[p] = "idle"
=============================================================================
