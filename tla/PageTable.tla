----------------------------- MODULE PageTable -----------------------------
(***************************************************************************)
(* Page table entries, free frame lists and the list of resident pages: no *)
(* state, only what the functions of mm.c, mm-vm.c and mm-memphy.c that    *)
(* work on one of them do.  A list is a sequence, its head first.          *)
(***************************************************************************)
EXTENDS Integers, Sequences

\* A page table entry: its flags, and the bits below them as a number.
Pte == [present : BOOLEAN, swapped : BOOLEAN, low : Nat]

\* Faulty variant: malloc without clearing, whatever was there before.
UnclearedPte == [present |-> TRUE, swapped |-> FALSE, low |-> 0]

\* The loop over the page directory in init_mm.
ClearedPte == [present |-> FALSE, swapped |-> FALSE, low |-> 0]

\* How many frame numbers and swap offsets there are: the frame number is in
\* the bits 0 to 12 of an entry, the swap offset in the bits 5 to 25.
FrameNumbers == 8192
SwapOffsets == 2097152

PAGING_PTE_FPN(pte) == pte.low % FrameNumbers
PAGING_PTE_SWP(pte) == (pte.low % (32 * SwapOffsets)) \div 32

pte_set_fpn(pte, fpn) ==
    [present |-> TRUE, swapped |-> FALSE,
     low |-> pte.low - (pte.low % FrameNumbers) + (fpn % FrameNumbers)]

\* The swap type that pg_getpage passes is masked to 0.
pte_set_swap(pte, swpoff) ==
    [present |-> TRUE, swapped |-> TRUE,
     low |-> pte.low - (pte.low % (32 * SwapOffsets)) + 32 * (swpoff % SwapOffsets)]

\* Faulty variant: the frames are numbered from 1.
FramesFromOne(numfp) == [i \in 1..numfp |-> i]

\* MEMPHY_format: every frame of the device, in order.
MEMPHY_format(numfp) == [i \in 1..numfp |-> i - 1]

\* find_victim_page: the oldest page in RAM; it leaves the list.
Victim(s) == s[Len(s)]

\* Faulty variant: the victim stays in the list.
VictimKept(s) == s

WithoutVictim(s) == [i \in 1..(Len(s) - 1) |-> s[i]]
=============================================================================
