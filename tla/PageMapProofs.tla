--------------------------- MODULE PageMapProofs ---------------------------
(***************************************************************************)
(* Proofs of the safety properties of PageMap, for any number of processes *)
(* and any sizes of the devices and of an address space.                   *)
(***************************************************************************)
EXTENDS PageMap, TLAPS

-----------------------------------------------------------------------------
(* Page table entries: what was put into the bits is read again.           *)

LEMMA LowBits ==
    ASSUME NEW m \in Nat \ {0}, NEW x \in Nat, NEW y \in Nat, y < m
    PROVE  /\ x - (x % m) + y \in Nat
           /\ (x - (x % m) + y) % m = y
<1>1. PICK q \in Nat, r \in 0..(m - 1) : x = m * q + r
  <2>1. x = m * (x \div m) + (x % m) /\ x \div m \in Nat /\ x % m \in 0..(m - 1)
    BY SMTT(30)
  <2> QED  BY <2>1
<1>2. x % m = r
  BY <1>1, SMTT(30)
<1>3. x - (x % m) + y = m * q + y
  <2>1. m * q \in Nat
    BY <1>1
  <2>2. x - r = m * q
    BY <1>1, <2>1
  <2> QED  BY <1>2, <2>2
<1>4. (m * q + y) % m = y
  BY <1>1, SMTT(30)
<1>5. m * q + y \in Nat
  BY <1>1
<1> QED  BY <1>3, <1>4, <1>5

LEMMA Sizes == FrameNumbers \in Nat \ {0} /\ SwapOffsets \in Nat \ {0}
  BY SMT DEF FrameNumbers, SwapOffsets

LEMMA SetFpn ==
    ASSUME NEW pte \in Pte, NEW fpn \in Nat
    PROVE  /\ pte_set_fpn(pte, fpn) \in Pte
           /\ pte_set_fpn(pte, fpn).present /\ ~pte_set_fpn(pte, fpn).swapped
           /\ fpn < FrameNumbers => PAGING_PTE_FPN(pte_set_fpn(pte, fpn)) = fpn
<1> DEFINE m == FrameNumbers
<1>1. /\ fpn % m \in Nat /\ fpn % m < m
      /\ fpn < m => fpn % m = fpn
  BY Sizes, SMTT(30)
<1>2. pte.low \in Nat
  BY DEF Pte
<1>3. /\ pte.low - (pte.low % m) + (fpn % m) \in Nat
      /\ (pte.low - (pte.low % m) + (fpn % m)) % m = fpn % m
  BY <1>1, <1>2, LowBits, Sizes
<1> QED  BY <1>1, <1>3 DEF pte_set_fpn, Pte, PAGING_PTE_FPN

LEMMA SetSwap ==
    ASSUME NEW pte \in Pte, NEW off \in Nat
    PROVE  /\ pte_set_swap(pte, off) \in Pte
           /\ pte_set_swap(pte, off).present /\ pte_set_swap(pte, off).swapped
           /\ off < SwapOffsets => PAGING_PTE_SWP(pte_set_swap(pte, off)) = off
<1> DEFINE m == 32 * SwapOffsets
           x == 32 * (off % SwapOffsets)
<1>1. /\ x \in Nat /\ x < m /\ m \in Nat \ {0}
      /\ off < SwapOffsets => x = 32 * off
  <2>1. /\ off % SwapOffsets \in Nat /\ off % SwapOffsets < SwapOffsets
        /\ off < SwapOffsets => off % SwapOffsets = off
    BY Sizes, SMTT(30)
  <2> QED  BY <2>1, Sizes
<1>2. pte.low \in Nat
  BY DEF Pte
<1>3. pte.low - (pte.low % m) + x \in Nat /\ (pte.low - (pte.low % m) + x) % m = x
  <2> HIDE DEF m, x
  <2> QED  BY <1>1, <1>2, LowBits
<1>4. (32 * off) \div 32 = off
  BY SMT
<1> QED  BY <1>1, <1>3, <1>4 DEF pte_set_swap, Pte, PAGING_PTE_SWP

-----------------------------------------------------------------------------
(* Lists of pages and frames.                                              *)

Distinct(s) == \A i, j \in DOMAIN s : s[i] = s[j] => i = j

LEMMA Push ==
    ASSUME NEW S, NEW s \in Seq(S), NEW x \in S
    PROVE  /\ <<x>> \o s \in Seq(S)
           /\ \A y : In(<<x>> \o s, y) <=> y = x \/ In(s, y)
           /\ Distinct(s) /\ ~In(s, x) => Distinct(<<x>> \o s)
<1> DEFINE t == <<x>> \o s
<1>1. /\ t \in Seq(S) /\ Len(t) = Len(s) + 1 /\ t[1] = x
      /\ \A i \in 1..Len(s) : t[i + 1] = s[i]
  OBVIOUS
<1>2. DOMAIN t = 1..(Len(s) + 1) /\ DOMAIN s = 1..Len(s) /\ Len(s) \in Nat
  BY <1>1
<1>3. \A i \in DOMAIN t : i = 1 \/ (i - 1 \in DOMAIN s /\ t[i] = s[i - 1])
  <2> TAKE i \in DOMAIN t
  <2>1. CASE i # 1
    <3>1. i - 1 \in 1..Len(s) /\ (i - 1) + 1 = i
      BY <1>2, <2>1
    <3> QED  BY <1>1, <1>2, <3>1
  <2> QED  BY <2>1
<1>4. \A i \in DOMAIN s : i + 1 \in DOMAIN t /\ t[i + 1] = s[i]
  BY <1>1, <1>2
<1>5. \A y : In(t, y) <=> y = x \/ In(s, y)
  <2> HIDE DEF t
  <2>1. 1 \in DOMAIN t
    BY <1>2
  <2> QED  BY <1>1, <1>3, <1>4, <2>1 DEF In
<1>6. ASSUME Distinct(s), ~In(s, x) PROVE Distinct(t)
  <2> HIDE DEF t
  <2> SUFFICES ASSUME NEW i \in DOMAIN t, NEW j \in DOMAIN t, t[i] = t[j] PROVE i = j
    BY DEF Distinct
  <2>1. i \in Int /\ j \in Int
    BY <1>2
  <2>2. CASE i = 1
    BY <1>1, <1>3, <1>6, <2>2 DEF In
  <2>3. CASE j = 1
    BY <1>1, <1>3, <1>6, <2>3 DEF In
  <2>4. CASE i # 1 /\ j # 1
    <3>1. i - 1 = j - 1
      BY <1>3, <1>6, <2>4 DEF Distinct
    <3> QED  BY <2>1, <3>1
  <2> QED  BY <2>2, <2>3, <2>4
<1> QED  BY <1>1, <1>5, <1>6

LEMMA Drop ==
    ASSUME NEW S, NEW s \in Seq(S), s # <<>>
    PROVE  /\ WithoutVictim(s) \in Seq(S)
           /\ Victim(s) \in S
           /\ In(s, Victim(s))
           /\ \A y : In(s, y) <=> y = Victim(s) \/ In(WithoutVictim(s), y)
           /\ Distinct(s) => Distinct(WithoutVictim(s)) /\ ~In(WithoutVictim(s), Victim(s))
<1> DEFINE w == WithoutVictim(s)
<1>1. /\ Len(s) \in Nat \ {0} /\ DOMAIN s = 1..Len(s)
      /\ DOMAIN w = 1..(Len(s) - 1)
      /\ \A i \in DOMAIN w : i \in DOMAIN s /\ i # Len(s) /\ w[i] = s[i]
      /\ Len(s) \in DOMAIN s /\ \A i \in DOMAIN s : s[i] \in S
  BY DEF WithoutVictim
<1>2. w \in Seq(S)
  <2>1. Len(s) - 1 \in Nat /\ \A i \in 1..(Len(s) - 1) : s[i] \in S
    BY <1>1
  <2>2. w \in [1..(Len(s) - 1) -> S]
    BY <2>1 DEF WithoutVictim
  <2> HIDE DEF w
  <2> QED  BY <2>1, <2>2
<1>3. \A i \in DOMAIN s : i = Len(s) \/ i \in DOMAIN w
  BY <1>1
<1>4. \A y : In(s, y) <=> y = Victim(s) \/ In(w, y)
  <2> HIDE DEF w
  <2> QED  BY <1>1, <1>3 DEF In, Victim
<1>5. Distinct(s) => Distinct(w) /\ ~In(w, Victim(s))
  <2> HIDE DEF w
  <2> QED  BY <1>1 DEF Distinct, In, Victim
<1>6. Victim(s) \in S
  BY <1>1 DEF Victim
<1> QED  BY <1>2, <1>4, <1>5, <1>6

\* The first element of a list, taken away.
LEMMA Pop ==
    ASSUME NEW S, NEW s \in Seq(S), s # <<>>
    PROVE  /\ Head(s) \in S /\ Tail(s) \in Seq(S) /\ s = <<Head(s)>> \o Tail(s)
           /\ \A y : In(s, y) <=> y = Head(s) \/ In(Tail(s), y)
           /\ Distinct(s) => Distinct(Tail(s)) /\ ~In(Tail(s), Head(s))
<1> DEFINE t == Tail(s)
<1>1. /\ Len(s) \in Nat \ {0} /\ DOMAIN s = 1..Len(s)
      /\ t \in Seq(S) /\ DOMAIN t = 1..(Len(s) - 1)
      /\ \A i \in 1..(Len(s) - 1) : t[i] = s[i + 1]
      /\ Head(s) \in S /\ Head(s) = s[1]
  OBVIOUS
<1>2. \A i \in DOMAIN t : i + 1 \in DOMAIN s /\ i + 1 # 1 /\ t[i] = s[i + 1]
  BY <1>1
<1>3. \A i \in DOMAIN s : i = 1 \/ (i - 1 \in DOMAIN t /\ t[i - 1] = s[i])
  <2> TAKE i \in DOMAIN s
  <2>1. CASE i # 1
    <3>1. i - 1 \in 1..(Len(s) - 1) /\ (i - 1) + 1 = i
      BY <1>1, <2>1
    <3> QED  BY <1>1, <3>1
  <2> QED  BY <2>1
<1>4. 1 \in DOMAIN s /\ s[1] = Head(s)
  BY <1>1
<1>5. \A i, j \in DOMAIN t : i + 1 = j + 1 => i = j
  BY <1>1
<1>6. s = <<Head(s)>> \o t
  BY <1>1
<1>7. \A y : In(s, y) <=> y = Head(s) \/ In(t, y)
  <2> HIDE DEF t
  <2> QED  BY <1>2, <1>3, <1>4 DEF In
<1>8. Distinct(s) => Distinct(t) /\ ~In(t, Head(s))
  <2> HIDE DEF t
  <2> QED  BY <1>2, <1>4, <1>5 DEF Distinct, In
<1> QED  BY <1>1, <1>6, <1>7, <1>8

-----------------------------------------------------------------------------
(* The invariant.                                                          *)

Mapping(p) == pc[p] \in {"alloc", "get ram", "take ram", "map"}
Paging(p) == pc[p] \in {"evict", "get swap", "take swap"}
Freeing(p) == pc[p] \in {"free", "put", "dead"}

\* Only what is called runs.
CallInv(p) ==
    /\ Mapping(p) => "map" \in calls
    /\ Paging(p) => "page" \in calls
    /\ Freeing(p) => "free" \in calls

\* What is known of the pages in the local variables.
ArgsInv(p) ==
    /\ Mapping(p) => task[p].mapstart + task[p].incpgnum <= PAGING_MAX_PGN
    /\ pc[p] \in {"get ram", "take ram"} =>
          /\ task[p].page < task[p].incpgnum
          /\ ~pgd[p][task[p].page].present
    /\ Paging(p) =>
          /\ task[p].page \in Pages /\ task[p].vicpgn \in Pages
          /\ ~pgd[p][task[p].page].present
          /\ Online(p, task[p].vicpgn)
          /\ ~In(fifo_pgn[p], task[p].vicpgn)
    /\ pc[p] = "put" => task[p].page \in Pages

\* Which mutexes a process holds.
LockInv(p) ==
    /\ pc[p] \in {"get ram", "take ram"} => lock["mm ram"] = p
    /\ pc[p] \in {"get swap", "take swap"} => lock["mm-vm swap"] = p
    /\ pc[p] \in {"take ram", "take swap"} => lock["memphy ram"] = p
    /\ pc[p] = "put" => lock[PutLock(p)] = p

\* A list has not changed since its head was read.
HeadInv(p) ==
    /\ pc[p] = "take ram" =>
          task[p].fp # <<>> /\ ("free" \notin calls => task[p].fp = ramFree)
    /\ pc[p] = "take swap" => task[p].fp # <<>> /\ task[p].fp = swapFree
    /\ pc[p] = "put" /\ InRam(p) => task[p].fp = swapFree

\* The list of pages in RAM, as far as it does not depend on the swap device.
ListInv(p) ==
    /\ Distinct(fifo_pgn[p])
    /\ \A page \in Pages : In(fifo_pgn[p], page) => Online(p, page)

\* Only pg_getpage swaps out, and it sets both bits.
PteInv(p) ==
    \A page \in Pages :
        pgd[p][page].swapped => pgd[p][page].present /\ "page" \in calls

PInv(p) == CallInv(p) /\ ArgsInv(p) /\ LockInv(p) /\ HeadInv(p) /\ ListInv(p) /\ PteInv(p)

Inv == TypeOK /\ \A p \in Processes : PInv(p)

\* What a step of p leaves to the other processes.
Frame(p) ==
    /\ calls' = calls
    /\ \A q \in Processes \ {p} :
          /\ pc'[q] = pc[q] /\ task'[q] = task[q]
          /\ pgd'[q] = pgd[q] /\ fifo_pgn'[q] = fifo_pgn[q]
    /\ \A l \in Locks : lock[l] \notin {NULL, p} => lock'[l] = lock[l]
    /\ swapFree' # swapFree => lock["mm-vm swap"] = p
    /\ "free" \notin calls /\ ramFree' # ramFree => lock["mm ram"] = p

LEMMA StepFrame ==
    ASSUME Inv, NEW p \in Processes, Call(p) \/ Step(p)
    PROVE  Frame(p)
<1> USE DEF Inv, TypeOK, Frame, vars, tables, lists, At, Goto, Return, Acquire, Release
<1>1. ASSUME NEW a \in MapArguments, MapRam(p, a[1], a[2]) PROVE Frame(p)
  BY <1>1 DEF MapRam
<1>2. ASSUME NEW page \in Pages, Evict(p, page) PROVE Frame(p)
  BY <1>2 DEF Evict
<1>3. CASE FreeMemory(p)
  BY <1>3 DEF FreeMemory
<1>4. CASE AllocSkip(p)
  BY <1>4 DEF AllocSkip
<1>5. CASE LockRam(p)
  BY <1>5 DEF LockRam
<1>6. CASE ReadRam(p)
  BY <1>6 DEF ReadRam
<1>7. CASE RamEmpty(p)
  BY <1>7 DEF RamEmpty, HeldByMm, PInv, LockInv
<1>8. CASE TakeRam(p)
  BY <1>8 DEF TakeRam, MapTo, PInv, LockInv
<1>9. CASE AllocDone(p)
  BY <1>9 DEF AllocDone
<1>10. CASE MapSkip(p)
  BY <1>10 DEF MapSkip
<1>11. CASE MapPage(p)
  BY <1>11 DEF MapPage, MapTo
<1>12. CASE MapDone(p)
  BY <1>12 DEF MapDone
<1>13. CASE LockSwap(p)
  BY <1>13 DEF LockSwap
<1>14. CASE ReadSwap(p)
  BY <1>14 DEF ReadSwap
<1>15. CASE SwapEmpty(p)
  BY <1>15 DEF SwapEmpty, PInv, LockInv
<1>16. CASE TakeSwap(p)
  BY <1>16 DEF TakeSwap, PInv, LockInv
<1>17. CASE ReadPut(p)
  BY <1>17 DEF ReadPut
<1>18. CASE WritePut(p)
  BY <1>18 DEF WritePut, PInv, LockInv, CallInv, Freeing, PutLock, InRam
<1>19. CASE FreeDone(p)
  BY <1>19 DEF FreeDone
<1> QED
  BY <1>1, <1>2, <1>3, <1>4, <1>5, <1>6, <1>7, <1>8, <1>9, <1>10, <1>11, <1>12, <1>13,
     <1>14, <1>15, <1>16, <1>17, <1>18, <1>19 DEF Call, Step

LEMMA OthersKeep ==
    ASSUME Inv, NEW p \in Processes, Frame(p), NEW q \in Processes \ {p}
    PROVE  PInv(q)'
<1>1. /\ calls' = calls
      /\ pc'[q] = pc[q] /\ task'[q] = task[q]
      /\ pgd'[q] = pgd[q] /\ fifo_pgn'[q] = fifo_pgn[q]
  BY DEF Frame
<1>2. \A l \in Locks : lock[l] = q => lock'[l] = q
  BY ProcessAssumption DEF Frame
<1>3. PInv(q)
  BY DEF Inv
<1>4. CallInv(q)'
  BY <1>1, <1>3 DEF PInv, CallInv, Mapping, Paging, Freeing
<1>5. ArgsInv(q)'
  <2>1. \A page : Online(q, page)' = Online(q, page)
    BY <1>1 DEF Online
  <2>2. \A f : In(fifo_pgn[q], f)' = In(fifo_pgn[q], f)
    BY <1>1 DEF In
  <2> QED  BY <1>1, <1>3, <2>1, <2>2 DEF PInv, ArgsInv, Mapping, Paging
<1>6. InRam(q)' = InRam(q) /\ PutLock(q)' = PutLock(q) /\ PutLock(q) \in Locks
  BY <1>1 DEF PutLock, InRam, PAGING_PTE_PAGE_PRESENT, Locks
<1>7. LockInv(q)'
  BY <1>1, <1>2, <1>3, <1>6 DEF PInv, LockInv, Locks
<1>8. HeadInv(q)'
  <2>1. "free" \notin calls /\ pc[q] = "take ram" => ramFree' = ramFree
    BY <1>3 DEF PInv, LockInv, Frame
  <2>2. pc[q] = "take swap" \/ (pc[q] = "put" /\ InRam(q)) => swapFree' = swapFree
    BY <1>3 DEF PInv, LockInv, PutLock, Frame
  <2> QED  BY <1>1, <1>3, <1>6, <2>1, <2>2 DEF PInv, HeadInv
<1>9. ListInv(q)'
  BY <1>1, <1>3 DEF PInv, ListInv, Online, In, Distinct
<1>10. PteInv(q)'
  BY <1>1, <1>3 DEF PInv, PteInv
<1> QED  BY <1>4, <1>5, <1>7, <1>8, <1>9, <1>10 DEF PInv

-----------------------------------------------------------------------------
(* Types.                                                                  *)

LEMMA BitsAreNumbers ==
    ASSUME NEW pte \in Pte
    PROVE  PAGING_PTE_FPN(pte) \in Nat /\ PAGING_PTE_SWP(pte) \in Nat
<1>1. pte.low \in Nat
  BY DEF Pte
<1>2. pte.low % FrameNumbers \in Nat
  BY <1>1, Sizes, SMTT(30)
<1> DEFINE m == 32 * SwapOffsets
<1>3. m \in Nat \ {0}
  BY Sizes
<1>4. pte.low % m \in Nat
  <2> HIDE DEF m
  <2> QED  BY <1>1, <1>3, SMTT(30)
<1>5. (pte.low % m) \div 32 \in Nat
  <2> HIDE DEF m
  <2> QED  BY <1>4, SMTT(30)
<1> QED  BY <1>2, <1>5 DEF PAGING_PTE_FPN, PAGING_PTE_SWP

\* The pages that the loops of vm_map_ram look at lie in the page table.
LEMMA PagesInTable ==
    ASSUME Inv, NEW p \in Processes
    PROVE  /\ task[p] \in Task
           /\ pc[p] \in {"get ram", "take ram"} => task[p].page \in Pages
           /\ pc[p] = "map" /\ Requested(p) => MapPgn(p) \in Pages
<1>1. task[p] \in Task /\ ArgsInv(p)
  BY DEF Inv, TypeOK, PInv
<1>2. task[p].page \in Nat /\ task[p].mapstart \in Nat /\ task[p].incpgnum \in Nat
  BY <1>1 DEF Task
<1>3. ASSUME pc[p] \in {"get ram", "take ram"} PROVE task[p].page \in Pages
  <2>1. /\ task[p].page < task[p].incpgnum
        /\ task[p].mapstart + task[p].incpgnum <= PAGING_MAX_PGN
    BY <1>1, <1>3 DEF ArgsInv, Mapping
  <2> QED  BY <1>2, <2>1, PagesAssumption DEF Pages
<1>4. ASSUME pc[p] = "map", Requested(p) PROVE MapPgn(p) \in Pages
  <2>1. /\ task[p].page < task[p].incpgnum
        /\ task[p].mapstart + task[p].incpgnum <= PAGING_MAX_PGN
    BY <1>1, <1>4 DEF ArgsInv, Mapping, Requested
  <2> QED  BY <1>2, <2>1, PagesAssumption DEF Pages, MapPgn
<1> QED  BY <1>1, <1>3, <1>4

LEMMA MapToTypes ==
    ASSUME Inv, NEW p \in Processes, NEW page \in Pages, NEW fpn \in Nat,
           MapTo(p, page, fpn)
    PROVE  /\ pgd' \in [Processes -> [Pages -> Pte]]
           /\ fifo_pgn' \in [Processes -> Seq(Pages)]
           /\ pgd'[p] = [pgd[p] EXCEPT ![page] = pte_set_fpn(pgd[p][page], fpn)]
           /\ fifo_pgn'[p] = <<page>> \o fifo_pgn[p]
<1>1. /\ pgd \in [Processes -> [Pages -> Pte]] /\ pgd[p][page] \in Pte
      /\ fifo_pgn \in [Processes -> Seq(Pages)] /\ fifo_pgn[p] \in Seq(Pages)
  BY DEF Inv, TypeOK
<1>2. pte_set_fpn(pgd[p][page], fpn) \in Pte
  BY <1>1, SetFpn
<1>3. <<page>> \o fifo_pgn[p] \in Seq(Pages)
  BY <1>1, Push
<1> QED  BY <1>1, <1>2, <1>3 DEF MapTo

\* What the steps assign to local variables has the type of a task.
LEMMA TaskChanges ==
    ASSUME NEW t \in Task
    PROVE  /\ \A f \in Seq(Nat) : [t EXCEPT !.fp = f] \in Task
           /\ [t EXCEPT !.page = @ + 1] \in Task
           /\ [t EXCEPT !.page = @ + 1, !.fp = <<>>] \in Task
           /\ \A f \in Seq(Nat) :
                 /\ [t EXCEPT !.page = @ + 1, !.frm_lst = f] \in Task
                 /\ [t EXCEPT !.frm_lst = f, !.page = @ + 1, !.fp = <<>>] \in Task
           /\ \A m, n \in Nat :
                 /\ [t EXCEPT !.mapstart = m, !.incpgnum = n] \in Task
                 /\ [t EXCEPT !.page = m, !.vicpgn = n] \in Task
<1>1. t.page + 1 \in Nat /\ <<>> \in Seq(Nat)
  BY DEF Task
<1>2. \A n \in Nat : /\ [t EXCEPT !.page = n] \in Task
                     /\ [t EXCEPT !.page = n, !.fp = <<>>] \in Task
  BY <1>1 DEF Task
<1>3. [t EXCEPT !.page = @ + 1] \in Task /\ [t EXCEPT !.page = @ + 1, !.fp = <<>>] \in Task
  BY <1>1, <1>2
<1>4. \A n \in Nat : \A f \in Seq(Nat) :
         /\ [t EXCEPT !.fp = f] \in Task
         /\ [t EXCEPT !.page = n, !.frm_lst = f] \in Task
         /\ [t EXCEPT !.frm_lst = f, !.page = n, !.fp = <<>>] \in Task
  BY <1>1 DEF Task
<1>5. \A m, n \in Nat : /\ [t EXCEPT !.mapstart = m, !.incpgnum = n] \in Task
                        /\ [t EXCEPT !.page = m, !.vicpgn = n] \in Task
  BY DEF Task
<1> QED  BY <1>1, <1>3, <1>4, <1>5

\* NoTask, and the task of a call, have the type of tasks.
LEMMA TaskTypes ==
    /\ NoTask \in Task
    /\ \A a \in MapArguments :
          [NoTask EXCEPT !.mapstart = a[1], !.incpgnum = a[2]] \in Task
    /\ \A x, y \in Pages : [NoTask EXCEPT !.page = x, !.vicpgn = y] \in Task
<1>1. NoTask \in Task
  BY DEF NoTask, Task
<1>2. \A a \in MapArguments : a[1] \in Nat /\ a[2] \in Nat
  BY ArgumentsAssumption
<1>3. \A x \in Pages : x \in Nat
  BY DEF Pages
<1> QED  BY <1>1, <1>2, <1>3, TaskChanges

LEMMA TypeStep ==
    ASSUME Inv, NEW p \in Processes, Call(p) \/ Step(p)
    PROVE  TypeOK'
<1>1. TypeOK /\ PInv(p) /\ task[p] \in Task /\ task[p].fp \in Seq(Nat)
      /\ task[p].frm_lst \in Seq(Nat) /\ task[p].page \in Nat
  BY DEF Inv, TypeOK, Task
<1> DEFINE Local ==
             /\ pc' \in [Processes -> ControlStates]
             /\ task' \in [Processes -> Task]
             /\ lock' \in [Locks -> Processes \cup {NULL}]
<1>2. ASSUME UNCHANGED <<calls, tables, lists>>, Local PROVE TypeOK'
  BY <1>1, <1>2 DEF TypeOK, tables, lists
<1> USE DEF At, Goto, Return, Acquire, Release
<1>3. ASSUME NEW a \in MapArguments, MapRam(p, a[1], a[2]) PROVE TypeOK'
  <2>1. Local
    BY <1>1, <1>3, TaskTypes DEF MapRam, TypeOK, ControlStates
  <2> QED  BY <1>2, <1>3, <2>1 DEF MapRam
<1>4. ASSUME NEW page \in Pages, Evict(p, page) PROVE TypeOK'
  <2>1. fifo_pgn[p] \in Seq(Pages) /\ fifo_pgn[p] # <<>>
    BY <1>1, <1>4 DEF TypeOK, Evict
  <2>2. WithoutVictim(fifo_pgn[p]) \in Seq(Pages) /\ Victim(fifo_pgn[p]) \in Pages
    BY <2>1, Drop
  <2>3. Local
    BY <1>1, <1>4, <2>2, TaskTypes DEF Evict, TypeOK, ControlStates
  <2>4. fifo_pgn' \in [Processes -> Seq(Pages)]
    BY <1>1, <1>4, <2>2 DEF Evict, TypeOK
  <2> QED  BY <1>1, <1>4, <2>3, <2>4 DEF Evict, TypeOK, lists
<1>5. CASE FreeMemory(p)
  <2>1. Local
    BY <1>1, <1>5 DEF FreeMemory, TypeOK, ControlStates
  <2> QED  BY <1>2, <1>5, <2>1 DEF FreeMemory
<1>6. CASE AllocSkip(p) \/ MapSkip(p)
  <2>1. [task[p] EXCEPT !.page = @ + 1] \in Task
    BY <1>1, TaskChanges
  <2>2. task' = [task EXCEPT ![p] = [task[p] EXCEPT !.page = @ + 1]]
    BY <1>1, <1>6 DEF AllocSkip, MapSkip, TypeOK
  <2>3. Local
    BY <1>1, <1>6, <2>1, <2>2 DEF AllocSkip, MapSkip, TypeOK
  <2> QED  BY <1>2, <1>6, <2>3 DEF AllocSkip, MapSkip
<1>7. CASE LockRam(p) \/ LockSwap(p)
  <2>1. Local
    <3>1. CASE LockRam(p)
      BY <1>1, <3>1 DEF LockRam, TypeOK, ControlStates
    <3>2. CASE LockSwap(p)
      BY <1>1, <3>2 DEF LockSwap, TypeOK, ControlStates
    <3> QED  BY <1>7, <3>1, <3>2
  <2> QED  BY <1>2, <1>7, <2>1 DEF LockRam, LockSwap
<1>8. CASE ReadRam(p) \/ ReadSwap(p)
  <2>1. Local
    <3>1. CASE ReadRam(p)
      <4>1. [task[p] EXCEPT !.fp = ramFree] \in Task
        BY <1>1, TaskChanges DEF TypeOK
      <4>2. task' = [task EXCEPT ![p] = [task[p] EXCEPT !.fp = ramFree]]
        BY <1>1, <3>1 DEF ReadRam, TypeOK
      <4> QED  BY <1>1, <3>1, <4>1, <4>2 DEF ReadRam, TypeOK, ControlStates
    <3>2. CASE ReadSwap(p)
      <4>1. [task[p] EXCEPT !.fp = swapFree] \in Task
        BY <1>1, TaskChanges DEF TypeOK
      <4>2. task' = [task EXCEPT ![p] = [task[p] EXCEPT !.fp = swapFree]]
        BY <1>1, <3>2 DEF ReadSwap, TypeOK
      <4> QED  BY <1>1, <3>2, <4>1, <4>2 DEF ReadSwap, TypeOK, ControlStates
    <3> QED  BY <1>8, <3>1, <3>2
  <2> QED  BY <1>2, <1>8, <2>1 DEF ReadRam, ReadSwap
<1>9. CASE RamEmpty(p) \/ SwapEmpty(p)
  <2>1. Local
    BY <1>1, <1>9, TaskTypes DEF RamEmpty, SwapEmpty, TypeOK, ControlStates
  <2> QED  BY <1>2, <1>9, <2>1 DEF RamEmpty, SwapEmpty
<1>10. CASE TakeRam(p)
  <2>1. /\ task[p].fp # <<>> /\ task[p].page \in Pages
        /\ "free" \notin calls => task[p].fp \in Seq(0..(RamFrames - 1))
    BY <1>1, <1>10, PagesInTable DEF TakeRam, PInv, HeadInv, TypeOK
  <2>2. /\ Head(task[p].fp) \in Nat /\ Tail(task[p].fp) \in Seq(Nat)
        /\ "free" \notin calls => Tail(task[p].fp) \in Seq(0..(RamFrames - 1))
    BY <1>1, <2>1, Pop
  <2>3. pgd' \in [Processes -> [Pages -> Pte]] /\ fifo_pgn' \in [Processes -> Seq(Pages)]
    BY <1>10, <2>1, <2>2, MapToTypes DEF TakeRam
  <2>4. <<Head(task[p].fp)>> \o task[p].frm_lst \in Seq(Nat)
    BY <1>1, <2>2, Push
  <2> DEFINE t == [task[p] EXCEPT !.frm_lst = <<Head(task[p].fp)>> \o @,
                                  !.page = @ + 1, !.fp = <<>>]
  <2>5. Local
    <3>1. t \in Task
      BY <1>1, <2>4, TaskChanges
    <3>2. task' = [task EXCEPT ![p] = t]
      BY <1>1, <1>10 DEF TakeRam, TypeOK
    <3> HIDE DEF t
    <3> QED  BY <1>1, <1>10, <3>1, <3>2 DEF TakeRam, TypeOK, ControlStates
  <2> QED  BY <1>1, <1>10, <2>2, <2>3, <2>5 DEF TakeRam, TypeOK
<1>11. CASE AllocDone(p)
  <2>1. Local
    BY <1>1, <1>11 DEF AllocDone, TypeOK, ControlStates, Task
  <2> QED  BY <1>2, <1>11, <2>1 DEF AllocDone
<1>12. CASE MapPage(p)
  <2>1. MapPgn(p) \in Pages /\ task[p].frm_lst # <<>>
    BY <1>12, PagesInTable DEF MapPage
  <2>2. Head(task[p].frm_lst) \in Nat /\ Tail(task[p].frm_lst) \in Seq(Nat)
    BY <1>1, <2>1, Pop
  <2>3. pgd' \in [Processes -> [Pages -> Pte]] /\ fifo_pgn' \in [Processes -> Seq(Pages)]
    BY <1>12, <2>1, <2>2, MapToTypes DEF MapPage
  <2>4. Local
    BY <1>1, <1>12, <2>2 DEF MapPage, TypeOK, Task
  <2> QED  BY <1>1, <1>12, <2>3, <2>4 DEF MapPage, TypeOK, lists
<1>13. CASE MapDone(p)
  <2>1. Local
    BY <1>1, <1>13, TaskTypes DEF MapDone, TypeOK, ControlStates
  <2> QED  BY <1>2, <1>13, <2>1 DEF MapDone
<1>14. CASE TakeSwap(p)
  <2>1. /\ task[p].fp # <<>> /\ task[p].fp = swapFree
        /\ task[p].page \in Pages /\ task[p].vicpgn \in Pages
    BY <1>1, <1>14 DEF TakeSwap, PInv, HeadInv, ArgsInv, Paging
  <2>2. /\ Head(task[p].fp) \in Nat /\ Tail(task[p].fp) \in Seq(Nat)
        /\ "free" \notin calls => Tail(task[p].fp) \in Seq(0..(SwapFrames - 1))
    BY <1>1, <2>1, Pop DEF TypeOK
  <2>3. \A x \in Pte : /\ pte_set_swap(x, Head(task[p].fp)) \in Pte
                       /\ pte_set_fpn(x, task[p].vicpgn) \in Pte
    <3>1. task[p].vicpgn \in Nat
      BY <2>1 DEF Pages
    <3> QED  BY <2>2, <3>1, SetFpn, SetSwap
  <2>4. pgd' \in [Processes -> [Pages -> Pte]]
    BY <1>1, <1>14, <2>1, <2>3 DEF TakeSwap, TypeOK
  <2>5. <<task[p].page>> \o fifo_pgn[p] \in Seq(Pages)
    BY <1>1, <2>1, Push DEF TypeOK
  <2>6. fifo_pgn' \in [Processes -> Seq(Pages)]
    BY <1>1, <1>14, <2>5 DEF TakeSwap, Listed, TypeOK
  <2>7. Local
    BY <1>1, <1>14, TaskTypes DEF TakeSwap, TypeOK, ControlStates
  <2> QED  BY <1>1, <1>14, <2>2, <2>4, <2>6, <2>7 DEF TakeSwap, TypeOK
<1>15. CASE ReadPut(p)
  <2>1. Local
    BY <1>1, <1>15 DEF ReadPut, PutLock, TypeOK, ControlStates, Locks, Task
  <2> QED  BY <1>2, <1>15, <2>1 DEF ReadPut
<1>16. CASE WritePut(p)
  <2>1. "free" \in calls /\ task[p].page \in Pages
    BY <1>1, <1>16 DEF WritePut, PInv, CallInv, Freeing, ArgsInv
  <2> DEFINE pte == pgd[p][task[p].page]
  <2>2. pte \in Pte
    BY <1>1, <2>1 DEF TypeOK
  <2>3. /\ <<PAGING_PTE_FPN(pte)>> \o task[p].fp \in Seq(Nat)
        /\ <<PAGING_PTE_SWP(pte)>> \o task[p].fp \in Seq(Nat)
    BY <1>1, <2>2, BitsAreNumbers, Push
  <2>4. ramFree' \in Seq(Nat) /\ swapFree' \in Seq(Nat)
    <3>1. /\ ramFree' = IF InRam(p) THEN ramFree ELSE <<PAGING_PTE_FPN(pte)>> \o task[p].fp
          /\ swapFree' = IF InRam(p) THEN <<PAGING_PTE_SWP(pte)>> \o task[p].fp ELSE swapFree
      BY <1>16 DEF WritePut
    <3> QED  BY <1>1, <2>3, <3>1 DEF TypeOK
  <2>5. torn' \in BOOLEAN
    BY <1>16 DEF WritePut
  <2>6. Local
    <3>1. [task[p] EXCEPT !.page = @ + 1, !.fp = <<>>] \in Task
      BY <1>1, TaskChanges
    <3>2. task' = [task EXCEPT ![p] = [task[p] EXCEPT !.page = @ + 1, !.fp = <<>>]]
      BY <1>1, <1>16 DEF WritePut, TypeOK
    <3> QED  BY <1>1, <1>16, <3>1, <3>2 DEF WritePut, TypeOK, ControlStates
  <2> QED  BY <1>1, <1>16, <2>1, <2>4, <2>5, <2>6 DEF WritePut, TypeOK, tables
<1>17. CASE FreeDone(p)
  <2>1. Local
    BY <1>1, <1>17, TaskTypes DEF FreeDone, TypeOK, ControlStates
  <2> QED  BY <1>2, <1>17, <2>1 DEF FreeDone
<1> QED
  BY <1>3, <1>4, <1>5, <1>6, <1>7, <1>8, <1>9, <1>10, <1>11, <1>12, <1>13, <1>14, <1>15,
     <1>16, <1>17 DEF Call, Step

-----------------------------------------------------------------------------
(* Each step keeps the invariant of the process that takes it.             *)

\* A page that is mapped was not present, and so not in the list.
LEMMA MapToKeeps ==
    ASSUME Inv, NEW p \in Processes, NEW page \in Pages, NEW fpn \in Nat,
           MapTo(p, page, fpn), calls' = calls, ~pgd[p][page].present
    PROVE  ListInv(p)' /\ PteInv(p)'
<1>1. /\ pgd \in [Processes -> [Pages -> Pte]] /\ fifo_pgn[p] \in Seq(Pages)
      /\ ListInv(p) /\ PteInv(p)
  BY DEF Inv, TypeOK, PInv
<1>2. /\ pgd'[p] = [pgd[p] EXCEPT ![page] = pte_set_fpn(pgd[p][page], fpn)]
      /\ fifo_pgn'[p] = <<page>> \o fifo_pgn[p]
  BY MapToTypes
<1>3. /\ pgd'[p][page] = pte_set_fpn(pgd[p][page], fpn)
      /\ \A x \in Pages \ {page} : pgd'[p][x] = pgd[p][x]
  BY <1>1, <1>2
<1>4. pgd'[p][page].present /\ ~pgd'[p][page].swapped
  BY <1>1, <1>3, SetFpn
<1>5. ~In(fifo_pgn[p], page)
  BY <1>1 DEF ListInv, Online
<1>6. /\ Distinct(fifo_pgn'[p])
      /\ \A y : In(fifo_pgn'[p], y) <=> y = page \/ In(fifo_pgn[p], y)
  BY <1>1, <1>2, <1>5, Push DEF ListInv
<1>7. \A x \in Pages : In(fifo_pgn'[p], x) => Online(p, x)'
  BY <1>1, <1>3, <1>4, <1>6 DEF ListInv, Online
<1> QED  BY <1>1, <1>3, <1>4, <1>6, <1>7 DEF ListInv, PteInv, Distinct, In

LEMMA OwnTables ==
    ASSUME Inv, NEW p \in Processes, Call(p) \/ Step(p)
    PROVE  ListInv(p)' /\ PteInv(p)'
<1>1. /\ PInv(p) /\ ListInv(p) /\ PteInv(p) /\ task[p].fp \in Seq(Nat)
      /\ task[p].frm_lst \in Seq(Nat) /\ calls' = calls
      /\ pgd \in [Processes -> [Pages -> Pte]]
      /\ fifo_pgn \in [Processes -> Seq(Pages)] /\ fifo_pgn[p] \in Seq(Pages)
  BY StepFrame DEF Inv, TypeOK, Task, PInv, Frame
<1>2. ASSUME UNCHANGED tables PROVE ListInv(p)' /\ PteInv(p)'
  BY <1>1, <1>2 DEF tables, ListInv, PteInv, Distinct, In, Online
<1>3. ASSUME NEW page \in Pages, Evict(p, page) PROVE ListInv(p)' /\ PteInv(p)'
  <2>1. /\ fifo_pgn[p] # <<>> /\ fifo_pgn'[p] = WithoutVictim(fifo_pgn[p])
        /\ pgd' = pgd
    BY <1>1, <1>3 DEF Evict
  <2>2. /\ Distinct(fifo_pgn'[p])
        /\ \A y : In(fifo_pgn'[p], y) => In(fifo_pgn[p], y)
    BY <1>1, <2>1, Drop DEF ListInv
  <2> QED  BY <1>1, <2>1, <2>2 DEF ListInv, PteInv, Distinct, In, Online
<1>4. CASE TakeRam(p)
  <2>1. /\ task[p].fp # <<>> /\ task[p].page \in Pages /\ ~pgd[p][task[p].page].present
        /\ MapTo(p, task[p].page, Head(task[p].fp))
    BY <1>1, <1>4, PagesInTable DEF TakeRam, At, PInv, HeadInv, ArgsInv
  <2>2. Head(task[p].fp) \in Nat
    BY <1>1, <2>1, Pop
  <2> QED  BY <1>1, <2>1, <2>2, MapToKeeps
<1>5. CASE MapPage(p)
  <2>1. /\ task[p].frm_lst # <<>> /\ MapPgn(p) \in Pages /\ ~pgd[p][MapPgn(p)].present
        /\ MapTo(p, MapPgn(p), Head(task[p].frm_lst))
    BY <1>5, PagesInTable DEF MapPage, At, PAGING_PTE_PAGE_PRESENT
  <2>2. Head(task[p].frm_lst) \in Nat
    BY <1>1, <2>1, Pop
  <2> QED  BY <1>1, <2>1, <2>2, MapToKeeps
<1>6. CASE TakeSwap(p)
  <2> DEFINE page == task[p].page
             v == task[p].vicpgn
  <2>1. /\ page \in Pages /\ v \in Pages /\ Online(p, v) /\ ~pgd[p][page].present
        /\ ~In(fifo_pgn[p], v) /\ "page" \in calls
        /\ task[p].fp # <<>> /\ Head(task[p].fp) \in Nat /\ v \in Nat
    <3>1. /\ page \in Pages /\ v \in Pages /\ Online(p, v) /\ ~pgd[p][page].present
          /\ ~In(fifo_pgn[p], v) /\ "page" \in calls /\ task[p].fp # <<>>
      BY <1>1, <1>6 DEF TakeSwap, At, PInv, ArgsInv, HeadInv, CallInv, Paging
    <3>2. Head(task[p].fp) \in Nat
      BY <1>1, <3>1, Pop
    <3> QED  BY <3>1, <3>2 DEF Pages
  <2>2. v # page
    BY <2>1 DEF Online
  <2>3. /\ pgd'[p][v] = pte_set_swap(pgd[p][v], Head(task[p].fp))
        /\ pgd'[p][page] = pte_set_fpn(pgd[p][page], v)
        /\ \A x \in Pages \ {v, page} : pgd'[p][x] = pgd[p][x]
        /\ fifo_pgn'[p] = <<page>> \o fifo_pgn[p]
    BY <1>1, <1>6, <2>1, <2>2 DEF TakeSwap, Listed
  <2>4. pgd'[p][v].present /\ pgd'[p][page].present /\ ~pgd'[p][page].swapped
    BY <1>1, <2>1, <2>3, SetFpn, SetSwap
  <2>5. ~In(fifo_pgn[p], page)
    BY <1>1, <2>1 DEF ListInv, Online
  <2>6. /\ Distinct(fifo_pgn'[p])
        /\ \A y : In(fifo_pgn'[p], y) <=> y = page \/ In(fifo_pgn[p], y)
    BY <1>1, <2>1, <2>3, <2>5, Push DEF ListInv
  <2>7. \A x \in Pages : In(fifo_pgn'[p], x) => Online(p, x)'
    BY <1>1, <2>1, <2>3, <2>4, <2>6 DEF ListInv, Online
  <2> QED  BY <1>1, <2>1, <2>3, <2>4, <2>6, <2>7 DEF ListInv, PteInv, Distinct, In
<1>7. CASE WritePut(p)
  BY <1>2, <1>7 DEF WritePut
<1> QED
  BY <1>2, <1>3, <1>4, <1>5, <1>6, <1>7
  DEF Call, Step, MapRam, FreeMemory, AllocSkip, LockRam, ReadRam, RamEmpty, AllocDone,
      MapSkip, MapDone, LockSwap, ReadSwap, SwapEmpty, ReadPut, FreeDone

LEMMA OwnStep ==
    ASSUME Inv, NEW p \in Processes, Call(p) \/ Step(p)
    PROVE  PInv(p)'
<1> DEFINE Own == CallInv(p)' /\ ArgsInv(p)' /\ LockInv(p)' /\ HeadInv(p)'
<1> SUFFICES Own
  BY OwnTables DEF PInv
<1>1. /\ CallInv(p) /\ ArgsInv(p) /\ LockInv(p) /\ HeadInv(p)
      /\ calls' = calls /\ task[p] \in Task
      /\ task \in [Processes -> Task] /\ pc \in [Processes -> ControlStates]
      /\ lock \in [Locks -> Processes \cup {NULL}]
      /\ fifo_pgn \in [Processes -> Seq(Pages)] /\ fifo_pgn[p] \in Seq(Pages)
  BY StepFrame DEF Inv, TypeOK, PInv, Frame
<1> USE DEF At, Goto, Return, Acquire, Release, Mapping, Paging, Freeing
<1>2. ASSUME pc'[p] = "idle" PROVE Own
  BY <1>2 DEF CallInv, ArgsInv, LockInv, HeadInv
<1>3. ASSUME NEW a \in MapArguments, MapRam(p, a[1], a[2]) PROVE Own
  <2>1. pc'[p] = "alloc" /\ "map" \in calls
    BY <1>1, <1>3 DEF MapRam
  <2>2. task'[p].mapstart + task'[p].incpgnum <= PAGING_MAX_PGN
    BY <1>1, <1>3, ArgumentsAssumption DEF MapRam, NoTask
  <2> QED  BY <1>1, <2>1, <2>2 DEF CallInv, ArgsInv, LockInv, HeadInv
<1>4. ASSUME NEW page \in Pages, Evict(p, page) PROVE Own
  <2>1. /\ pc'[p] = "evict" /\ "page" \in calls /\ pgd' = pgd
        /\ task'[p].page = page /\ task'[p].vicpgn = Victim(fifo_pgn[p])
        /\ fifo_pgn'[p] = WithoutVictim(fifo_pgn[p])
        /\ ~pgd[p][page].present /\ fifo_pgn[p] # <<>>
    BY <1>1, <1>4 DEF Evict, NoTask, PAGING_PTE_PAGE_PRESENT
  <2>2. Victim(fifo_pgn[p]) \in Pages /\ In(fifo_pgn[p], Victim(fifo_pgn[p]))
    BY <1>1, <2>1, Drop
  <2>3. Online(p, Victim(fifo_pgn[p]))
    BY <2>2 DEF Inv, PInv, ListInv
  <2>4. ~In(fifo_pgn'[p], Victim(fifo_pgn[p]))
    BY <1>1, <2>1, Drop DEF Inv, PInv, ListInv
  <2>5. Online(p, task[p].vicpgn)' /\ ~In(fifo_pgn[p], task[p].vicpgn)'
    BY <2>1, <2>3, <2>4 DEF Online, In
  <2> QED  BY <1>1, <2>1, <2>2, <2>5 DEF CallInv, ArgsInv, LockInv, HeadInv, Online, In
<1>5. CASE FreeMemory(p)
  BY <1>1, <1>5 DEF FreeMemory, CallInv, ArgsInv, LockInv, HeadInv
<1>6. CASE AllocSkip(p) \/ MapSkip(p)
  <2>1. /\ pc' = pc /\ pc[p] \in {"alloc", "map"}
        /\ task'[p].mapstart = task[p].mapstart /\ task'[p].incpgnum = task[p].incpgnum
    BY <1>1, <1>6 DEF AllocSkip, MapSkip, Task
  <2> QED  BY <1>1, <2>1 DEF CallInv, ArgsInv, LockInv, HeadInv
<1>7. CASE LockRam(p)
  <2>1. /\ pc[p] = "alloc" /\ pc'[p] = "get ram" /\ task' = task /\ pgd' = pgd
        /\ lock'["mm ram"] = p
        /\ task[p].page < task[p].incpgnum /\ ~pgd[p][task[p].page].present
    BY <1>1, <1>7 DEF LockRam, Locks, tables, Requested, PAGING_PTE_PAGE_PRESENT
  <2> QED  BY <1>1, <2>1 DEF CallInv, ArgsInv, LockInv, HeadInv
<1>8. CASE ReadRam(p)
  <2>1. /\ pc[p] = "get ram" /\ pc'[p] = "take ram" /\ pgd' = pgd
        /\ lock'["mm ram"] = p /\ lock'["memphy ram"] = p
        /\ task'[p] = [task[p] EXCEPT !.fp = ramFree] /\ ramFree # <<>> /\ ramFree' = ramFree
    BY <1>1, <1>8 DEF ReadRam, Locks, LockInv, tables, lists
  <2>2. /\ task'[p].fp = ramFree /\ task'[p].page = task[p].page
        /\ task'[p].mapstart = task[p].mapstart /\ task'[p].incpgnum = task[p].incpgnum
    BY <1>1, <2>1 DEF Task
  <2> QED  BY <1>1, <2>1, <2>2 DEF CallInv, ArgsInv, LockInv, HeadInv
<1>9. CASE RamEmpty(p) \/ MapDone(p) \/ SwapEmpty(p) \/ TakeSwap(p)
  <2>1. pc'[p] = "idle"
    BY <1>1, <1>9 DEF RamEmpty, MapDone, SwapEmpty, TakeSwap
  <2> QED  BY <1>2, <2>1
<1>10. CASE TakeRam(p) \/ AllocDone(p) \/ MapPage(p)
  <2> DEFINE Same == /\ task'[p].mapstart = task[p].mapstart
                     /\ task'[p].incpgnum = task[p].incpgnum
  <2>1. Mapping(p) /\ pc'[p] \in {"alloc", "map"}
    BY <1>1, <1>10 DEF TakeRam, AllocDone, MapPage
  <2>2. CASE TakeRam(p)
    <3>1. task'[p] = [task[p] EXCEPT !.frm_lst = <<Head(task[p].fp)>> \o @,
                                     !.page = @ + 1, !.fp = <<>>]
      BY <1>1, <2>2 DEF TakeRam
    <3>2. Same
      BY <1>1, <3>1 DEF Task
    <3> QED  BY <1>1, <2>1, <3>2 DEF CallInv, ArgsInv, LockInv, HeadInv
  <2>3. CASE AllocDone(p)
    <3>1. Same
      BY <1>1, <2>3 DEF AllocDone, Task
    <3> QED  BY <1>1, <2>1, <3>1 DEF CallInv, ArgsInv, LockInv, HeadInv
  <2>4. CASE MapPage(p)
    <3>1. task'[p] = [task[p] EXCEPT !.page = @ + 1, !.frm_lst = Tail(@)]
      BY <1>1, <2>4 DEF MapPage
    <3>2. Same
      BY <1>1, <3>1 DEF Task
    <3> QED  BY <1>1, <2>1, <3>2 DEF CallInv, ArgsInv, LockInv, HeadInv
  <2> QED  BY <1>10, <2>2, <2>3, <2>4
<1>11. CASE LockSwap(p)
  <2>1. /\ pc[p] = "evict" /\ pc'[p] = "get swap" /\ task' = task /\ pgd' = pgd
        /\ fifo_pgn' = fifo_pgn /\ lock'["mm-vm swap"] = p
    BY <1>1, <1>11 DEF LockSwap, Locks, tables
  <2> QED  BY <1>1, <2>1 DEF CallInv, ArgsInv, LockInv, HeadInv, Online, In
<1>12. CASE ReadSwap(p)
  <2>1. /\ pc[p] = "get swap" /\ pc'[p] = "take swap" /\ pgd' = pgd /\ fifo_pgn' = fifo_pgn
        /\ lock'["mm-vm swap"] = p /\ lock'["memphy ram"] = p
        /\ task'[p] = [task[p] EXCEPT !.fp = swapFree] /\ swapFree # <<>>
        /\ swapFree' = swapFree
    BY <1>1, <1>12 DEF ReadSwap, Locks, LockInv, tables, lists
  <2>2. /\ task'[p].fp = swapFree /\ task'[p].page = task[p].page
        /\ task'[p].vicpgn = task[p].vicpgn
    BY <1>1, <2>1 DEF Task
  <2> QED  BY <1>1, <2>1, <2>2 DEF CallInv, ArgsInv, LockInv, HeadInv, Online, In
<1>13. CASE ReadPut(p)
  <2>1. /\ pc[p] = "free" /\ pc'[p] = "put" /\ pgd' = pgd /\ swapFree' = swapFree
        /\ lock'[PutLock(p)] = p /\ task[p].page < PAGING_MAX_PGN
        /\ task'[p] = [task[p] EXCEPT !.fp = IF InRam(p) THEN swapFree ELSE ramFree]
    BY <1>1, <1>13 DEF ReadPut, PutLock, Locks, tables, lists
  <2>2. /\ task'[p].fp = (IF InRam(p) THEN swapFree ELSE ramFree)
        /\ task'[p].page = task[p].page
    BY <1>1, <2>1 DEF Task
  <2>3. InRam(p)' = InRam(p) /\ PutLock(p)' = PutLock(p)
    BY <2>1, <2>2 DEF InRam, PutLock, PAGING_PTE_PAGE_PRESENT
  <2>4. task[p].page \in Pages
    BY <1>1, <2>1, PagesAssumption DEF Pages, Task
  <2> QED  BY <1>1, <2>1, <2>2, <2>3, <2>4 DEF CallInv, ArgsInv, LockInv, HeadInv
<1>14. CASE WritePut(p) \/ FreeDone(p)
  <2>1. Freeing(p) /\ pc'[p] \in {"free", "dead"}
    BY <1>1, <1>14 DEF WritePut, FreeDone
  <2> QED  BY <1>1, <2>1 DEF CallInv, ArgsInv, LockInv, HeadInv
<1> QED
  BY <1>3, <1>4, <1>5, <1>6, <1>7, <1>8, <1>9, <1>10, <1>11, <1>12, <1>13, <1>14
  DEF Call, Step

-----------------------------------------------------------------------------
LEMMA InitInv == Init => Inv
<1> SUFFICES ASSUME Init PROVE Inv
  OBVIOUS
<1>1. TypeOK
  <2>1. /\ MEMPHY_format(RamFrames) \in Seq(0..(RamFrames - 1))
        /\ MEMPHY_format(SwapFrames) \in Seq(0..(SwapFrames - 1))
    BY FramesAssumption, Sizes DEF MEMPHY_format
  <2>2. /\ MEMPHY_format(RamFrames) \in Seq(Nat)
        /\ MEMPHY_format(SwapFrames) \in Seq(Nat)
    BY FramesAssumption, Sizes DEF MEMPHY_format
  <2>3. ClearedPte \in Pte
    BY DEF ClearedPte, Pte
  <2>4. NoTask \in Task /\ <<>> \in Seq(Pages)
    BY DEF NoTask, Task
  <2>5. /\ pgd \in [Processes -> [Pages -> Pte]]
        /\ fifo_pgn \in [Processes -> Seq(Pages)]
        /\ task \in [Processes -> Task]
    BY <2>3, <2>4 DEF Init
  <2>6. /\ lock \in [Locks -> Processes \cup {NULL}]
        /\ pc \in [Processes -> ControlStates]
        /\ calls \in CallSets /\ torn \in BOOLEAN
    BY DEF Init, ControlStates
  <2>7. /\ ramFree \in Seq(Nat) /\ swapFree \in Seq(Nat)
        /\ ramFree \in Seq(0..(RamFrames - 1)) /\ swapFree \in Seq(0..(SwapFrames - 1))
    BY <2>1, <2>2 DEF Init
  <2> QED  BY <2>5, <2>6, <2>7 DEF TypeOK
<1>2. ASSUME NEW p \in Processes PROVE PInv(p)
  BY <1>1 DEF Init, TypeOK, PInv, CallInv, ArgsInv, LockInv, HeadInv, ListInv, PteInv, Mapping,
     Paging, Freeing, Distinct, In, ClearedPte
<1> QED  BY <1>1, <1>2 DEF Inv

LEMMA NextInv == Inv /\ [Next]_vars => Inv'
<1>1. ASSUME Inv, NEW p \in Processes, Call(p) \/ Step(p) PROVE Inv'
  <2>1. TypeOK' /\ PInv(p)' /\ Frame(p)
    BY <1>1, TypeStep, OwnStep, StepFrame
  <2>2. \A q \in Processes \ {p} : PInv(q)'
    BY <1>1, <2>1, OthersKeep
  <2> QED  BY <2>1, <2>2 DEF Inv
<1>2. ASSUME Inv, UNCHANGED vars PROVE Inv'
  <2>1. /\ calls' = calls /\ pgd' = pgd /\ fifo_pgn' = fifo_pgn /\ ramFree' = ramFree
        /\ swapFree' = swapFree /\ torn' = torn /\ lock' = lock /\ pc' = pc /\ task' = task
    BY <1>2 DEF vars, tables, lists
  <2>2. TypeOK'
    BY <1>2, <2>1 DEF Inv, TypeOK
  <2>3. ASSUME NEW p \in Processes PROVE PInv(p)'
    <3>1. PInv(p)
      BY <1>2 DEF Inv
    <3>2. CallInv(p)' /\ ListInv(p)' /\ PteInv(p)'
      BY <2>1, <3>1 DEF PInv, CallInv, ListInv, PteInv, Mapping, Paging, Freeing, Distinct, In,
         Online
    <3>3. ArgsInv(p)'
      BY <2>1, <3>1 DEF PInv, ArgsInv, Mapping, Paging, Online, In
    <3>4. LockInv(p)' /\ HeadInv(p)'
      BY <2>1, <3>1 DEF PInv, LockInv, HeadInv, InRam, PutLock, PAGING_PTE_PAGE_PRESENT
    <3> QED  BY <3>2, <3>3, <3>4 DEF PInv
  <2> QED  BY <2>2, <2>3 DEF Inv
<1> QED  BY <1>1, <1>2 DEF Next

THEOREM Invariance == Safety => []Inv
  BY InitInv, NextInv, PTL DEF Safety

(***************************************************************************)
(* Every variable has its type in every state, and as long as nobody calls *)
(* free_pcb_memph the free lists hold frames of their device only.         *)
(***************************************************************************)
THEOREM TypeCorrect == Spec => []TypeOK
<1>1. Inv => TypeOK
  BY DEF Inv
<1> QED  BY <1>1, Invariance, PTL DEF Spec

-----------------------------------------------------------------------------
(* Mutual exclusion on the free lists.                                     *)

(***************************************************************************)
(* No two processes change the list of swap at the same time, nor the list *)
(* of the RAM while nobody calls free_pcb_memph: the caller of             *)
(* MEMPHY_get_freefp and the caller of MEMPHY_put_freefp lock the same     *)
(* mutex for swap, and different ones for the RAM.                         *)
(***************************************************************************)
THEOREM ListsAreGuarded == Spec => []ListsAreExclusive
<1>1. ASSUME Inv PROVE ListsAreExclusive
  <2>1. ASSUME NEW p \in Processes PROVE p \in InSwapList => lock["mm-vm swap"] = p
    BY <1>1, <2>1 DEF Inv, PInv, LockInv, InSwapList, At, PutLock
  <2>2. ASSUME NEW p \in Processes, "free" \notin calls
        PROVE  p \in InRamList => lock["mm ram"] = p
    BY <1>1, <2>2 DEF Inv, PInv, LockInv, CallInv, Freeing, InRamList, At
  <2> QED  BY <2>1, <2>2 DEF ListsAreExclusive, InSwapList, InRamList
<1> QED  BY <1>1, Invariance, PTL DEF Spec

-----------------------------------------------------------------------------
(* Waiting for each other.                                                 *)

\* The mutexes that the next step of a process locks.
Wanted(p) ==
    {l \in Locks :
        \/ /\ At(p, "alloc") /\ Requested(p)
           /\ ~PAGING_PTE_PAGE_PRESENT(p, task[p].page)
           /\ l = "mm ram"
        \/ pc[p] \in {"get ram", "get swap"} /\ l = "memphy ram"
        \/ At(p, "evict") /\ l = "mm-vm swap"
        \/ At(p, "free") /\ task[p].page < PAGING_MAX_PGN /\ l = PutLock(p)}

Waits(p) == \E l \in Wanted(p) : lock[l] # NULL

\* Between two steps of a function.
InCall(p) == pc[p] \notin {"idle", "dead"}

(***************************************************************************)
(* Nobody waits for himself, nor in a circle: a process waits for one that *)
(* goes on, or for one that waits for the mutex of MEMPHY_get_freefp, and  *)
(* the holder of that one goes on.  So among the processes in a call there *)
(* is always one that does not wait.                                       *)
(***************************************************************************)
NoCircularWait ==
    /\ \A p \in Processes : \A l \in Wanted(p) :
          lock[l] # NULL =>
              /\ lock[l] # p
              /\ Waits(lock[l]) => /\ Wanted(lock[l]) = {"memphy ram"} /\ l # "memphy ram"
                                  /\ ~Waits(lock["memphy ram"])
    /\ (\E p \in Processes : InCall(p)) => \E p \in Processes : InCall(p) /\ ~Waits(p)

\* Where a process is that holds a mutex: the converse of LockInv.
HolderInv(p) ==
    /\ lock["mm ram"] = p => pc[p] \in {"get ram", "take ram"}
    /\ lock["memphy ram"] = p => pc[p] \in {"take ram", "take swap"}
    /\ lock["mm-vm swap"] = p =>
          pc[p] \in {"get swap", "take swap"} \/ (pc[p] = "put" /\ InRam(p))
    /\ lock["mm-vm ram"] = p => pc[p] = "put" /\ ~InRam(p)

LEMMA HolderStep ==
    ASSUME Inv, NEW p \in Processes, Call(p) \/ Step(p), HolderInv(p)
    PROVE  /\ HolderInv(p)'
           /\ \A l \in Locks : lock'[l] \in {NULL, p, lock[l]}
<1> DEFINE Goal == HolderInv(p)' /\ \A l \in Locks : lock'[l] \in {NULL, p, lock[l]}
<1>1. /\ PInv(p) /\ pc \in [Processes -> ControlStates] /\ task \in [Processes -> Task]
      /\ lock \in [Locks -> Processes \cup {NULL}] /\ p # NULL
  BY ProcessAssumption DEF Inv, TypeOK
<1> USE DEF At, Goto, Return, Acquire, Release, Locks
<1>2. CASE UNCHANGED lock /\ pc[p] \in {"idle", "alloc", "map", "evict", "free"}
  BY <1>2 DEF HolderInv
<1>3. CASE LockRam(p)
  BY <1>1, <1>3 DEF LockRam, HolderInv
<1>4. CASE ReadRam(p)
  BY <1>1, <1>4 DEF ReadRam, HolderInv
<1>5. CASE RamEmpty(p)
  BY <1>1, <1>5 DEF RamEmpty, HeldByMm, HolderInv
<1>6. CASE TakeRam(p)
  BY <1>1, <1>6 DEF TakeRam, HolderInv
<1>7. CASE LockSwap(p)
  BY <1>1, <1>7 DEF LockSwap, HolderInv
<1>8. CASE ReadSwap(p)
  BY <1>1, <1>8 DEF ReadSwap, HolderInv
<1>9. CASE SwapEmpty(p)
  BY <1>1, <1>9 DEF SwapEmpty, HolderInv
<1>10. CASE TakeSwap(p)
  BY <1>1, <1>10 DEF TakeSwap, HolderInv
<1>11. CASE ReadPut(p)
  <2>1. InRam(p)' = InRam(p)
    <3>1. task'[p].page = task[p].page
      BY <1>1, <1>11 DEF ReadPut, Task
    <3> QED  BY <1>11, <3>1 DEF ReadPut, tables, InRam, PAGING_PTE_PAGE_PRESENT
  <2>2. /\ lock' = [lock EXCEPT ![PutLock(p)] = p] /\ pc'[p] = "put"
        /\ PutLock(p) = IF InRam(p) THEN "mm-vm swap" ELSE "mm-vm ram"
        /\ \A l \in Locks : lock[l] # p
    BY <1>1, <1>11 DEF ReadPut, PutLock, HolderInv
  <2> QED  BY <1>1, <2>1, <2>2 DEF HolderInv
<1>12. CASE WritePut(p)
  BY <1>1, <1>12 DEF WritePut, PutLock, HolderInv
<1>13. \/ UNCHANGED lock /\ pc[p] \in {"idle", "alloc", "map", "evict", "free"}
       \/ LockRam(p) \/ ReadRam(p) \/ RamEmpty(p) \/ TakeRam(p) \/ LockSwap(p) \/ ReadSwap(p)
       \/ SwapEmpty(p) \/ TakeSwap(p) \/ ReadPut(p) \/ WritePut(p)
  BY DEF Call, Step, MapRam, Evict, FreeMemory, AllocSkip, AllocDone, MapSkip, MapPage, MapDone,
         FreeDone
<1> QED
  BY <1>2, <1>3, <1>4, <1>5, <1>6, <1>7, <1>8, <1>9, <1>10, <1>11, <1>12, <1>13

LEMMA HolderOthers ==
    ASSUME Inv, NEW p \in Processes, Call(p) \/ Step(p), HolderInv(p),
           NEW q \in Processes \ {p}, HolderInv(q)
    PROVE  HolderInv(q)'
<1>1. pc'[q] = pc[q] /\ task'[q] = task[q] /\ pgd'[q] = pgd[q]
  BY StepFrame DEF Frame
<1>2. InRam(q)' = InRam(q)
  BY <1>1 DEF InRam, PAGING_PTE_PAGE_PRESENT
<1>3. \A l \in Locks : lock'[l] = q => lock[l] = q
  <2>1. q # p /\ q # NULL
    BY ProcessAssumption
  <2> QED  BY <2>1, HolderStep
<1> QED  BY <1>1, <1>2, <1>3 DEF HolderInv, Locks

LEMMA WaitingEnds ==
    ASSUME Inv, \A p \in Processes : HolderInv(p)
    PROVE  NoCircularWait
<1>1. /\ lock \in [Locks -> Processes \cup {NULL}]
      /\ \A p \in Processes : LockInv(p) /\ HolderInv(p)
  BY DEF Inv, TypeOK, PInv
<1>2. ASSUME NEW q \in Processes, lock["memphy ram"] = q PROVE ~Waits(q) /\ InCall(q)
  BY <1>1, <1>2 DEF HolderInv, Waits, Wanted, At, InCall
<1>3. ASSUME NEW q \in Processes, NEW l \in Locks \ {"memphy ram"}, lock[l] = q
      PROVE  InCall(q) /\ Wanted(q) \subseteq {"memphy ram"}
  BY <1>1, <1>3 DEF HolderInv, Wanted, At, InCall, Locks
<1>4. ASSUME NEW p \in Processes, NEW l \in Wanted(p) PROVE lock[l] # p /\ l \in Locks
  BY <1>1, <1>4 DEF HolderInv, Wanted, At, Locks, PutLock
<1>5. ASSUME NEW q \in Processes, Wanted(q) \subseteq {"memphy ram"}, Waits(q)
      PROVE  /\ Wanted(q) = {"memphy ram"} /\ lock["memphy ram"] \in Processes
             /\ ~Waits(lock["memphy ram"]) /\ InCall(lock["memphy ram"])
  <2>1. lock["memphy ram"] # NULL /\ "memphy ram" \in Wanted(q)
    BY <1>5 DEF Waits
  <2>2. lock["memphy ram"] \in Processes
    BY <1>1, <2>1 DEF Locks
  <2> QED  BY <1>2, <1>5, <2>1, <2>2
<1>6. ASSUME NEW p \in Processes, NEW l \in Wanted(p), lock[l] # NULL
      PROVE  /\ lock[l] \in Processes /\ lock[l] # p /\ InCall(lock[l])
             /\ Waits(lock[l]) =>
                   /\ Wanted(lock[l]) = {"memphy ram"} /\ l # "memphy ram"
                   /\ lock["memphy ram"] \in Processes /\ InCall(lock["memphy ram"])
                   /\ ~Waits(lock["memphy ram"])
  <2>1. lock[l] \in Processes /\ lock[l] # p /\ l \in Locks
    BY <1>1, <1>4, <1>6
  <2>2. CASE l = "memphy ram"
    BY <1>2, <2>1, <2>2
  <2>3. CASE l # "memphy ram"
    BY <1>3, <1>5, <2>1, <2>3
  <2> QED  BY <2>1, <2>2, <2>3
<1>7. ASSUME NEW p \in Processes, InCall(p)
      PROVE  \E q \in Processes : InCall(q) /\ ~Waits(q)
  <2>1. CASE Waits(p)
    BY <1>6, <2>1 DEF Waits
  <2> QED  BY <1>7, <2>1
<1> QED  BY <1>6, <1>7 DEF NoCircularWait

(***************************************************************************)
(* The mutexes of mm.c, mm-vm.c and mm-memphy.c never block each other, in *)
(* whatever order the three functions are called by any number of          *)
(* processes, and although MEMPHY_get_freefp locks its own inside another. *)
(***************************************************************************)
THEOREM MutexesAreOrdered == Spec => []NoCircularWait
<1> DEFINE J == \A p \in Processes : HolderInv(p)
<1>1. Init => J
  BY ProcessAssumption DEF Init, HolderInv, Locks
<1>2. Inv /\ J /\ [Next]_vars => J'
  <2>1. ASSUME Inv, J, NEW p \in Processes, Call(p) \/ Step(p) PROVE J'
    BY <2>1, HolderStep, HolderOthers
  <2>2. ASSUME J, UNCHANGED vars PROVE J'
    BY <2>2 DEF vars, tables, HolderInv, InRam, PAGING_PTE_PAGE_PRESENT
  <2> QED  BY <2>1, <2>2 DEF Next
<1>3. Inv /\ J => NoCircularWait
  BY WaitingEnds
<1> HIDE DEF J
<1> QED  BY <1>1, <1>2, <1>3, Invariance, PTL DEF Spec, Safety

-----------------------------------------------------------------------------
(* What a step may do to a page table entry.                               *)

LEMMA PteStep ==
    ASSUME Inv, NEW p \in Processes, Call(p) \/ Step(p), NEW q \in Processes, NEW x \in Pages
    PROVE  /\ pgd[q][x].present =>
                 \/ pgd'[q][x] = pgd[q][x]
                 \/ TakeSwap(p) /\ q = p /\ x = task[p].vicpgn
           /\ ~pgd[q][x].present => ~pgd[q][x].swapped /\ ~pgd'[q][x].swapped
<1> DEFINE Kept == /\ pgd[q][x].present =>
                         \/ pgd'[q][x] = pgd[q][x]
                         \/ TakeSwap(p) /\ q = p /\ x = task[p].vicpgn
                   /\ ~pgd[q][x].present => ~pgd'[q][x].swapped
<1>1. /\ PInv(p) /\ task[p].fp \in Seq(Nat) /\ task[p].frm_lst \in Seq(Nat)
      /\ pgd \in [Processes -> [Pages -> Pte]]
      /\ ~pgd[q][x].present => ~pgd[q][x].swapped
  BY DEF Inv, TypeOK, Task, PInv, PteInv
<1> SUFFICES Kept
  BY <1>1
<1>2. ASSUME pgd'[q][x] = pgd[q][x] PROVE Kept
  BY <1>1, <1>2
<1>3. CASE q # p
  <2>1. pgd'[q] = pgd[q]
    BY <1>3, StepFrame DEF Frame
  <2> QED  BY <1>1, <1>2, <2>1
<1>4. ASSUME NEW page \in Pages, NEW fpn \in Nat, MapTo(p, page, fpn), ~pgd[p][page].present
      PROVE  q = p => Kept
  <2>1. pgd'[p] = [pgd[p] EXCEPT ![page] = pte_set_fpn(pgd[p][page], fpn)]
    BY <1>1, <1>4 DEF MapTo
  <2>2. ASSUME x = page PROVE ~pgd'[p][page].swapped
    <3>1. pgd'[p][page] = pte_set_fpn(pgd[p][page], fpn) /\ pgd[p][page] \in Pte
      BY <1>1, <2>1
    <3> QED  BY <3>1, SetFpn
  <2>3. ASSUME x # page PROVE pgd'[p][x] = pgd[p][x]
    BY <1>1, <2>1, <2>3
  <2> QED  BY <1>1, <1>4, <2>2, <2>3
<1>5. CASE TakeRam(p) /\ q = p
  <2>1. /\ task[p].fp # <<>> /\ task[p].page \in Pages /\ ~pgd[p][task[p].page].present
        /\ MapTo(p, task[p].page, Head(task[p].fp))
    BY <1>1, <1>5, PagesInTable DEF TakeRam, At, PInv, HeadInv, ArgsInv
  <2>2. Head(task[p].fp) \in Nat
    BY <1>1, <2>1, Pop
  <2> QED  BY <1>1, <1>4, <1>5, <2>1, <2>2
<1>6. CASE MapPage(p) /\ q = p
  <2>1. /\ task[p].frm_lst # <<>> /\ MapPgn(p) \in Pages /\ ~pgd[p][MapPgn(p)].present
        /\ MapTo(p, MapPgn(p), Head(task[p].frm_lst))
    BY <1>6, PagesInTable DEF MapPage, At, PAGING_PTE_PAGE_PRESENT
  <2>2. Head(task[p].frm_lst) \in Nat
    BY <1>1, <2>1, Pop
  <2> QED  BY <1>1, <1>4, <1>6, <2>1, <2>2
<1>7. CASE TakeSwap(p) /\ q = p
  <2> DEFINE v == task[p].vicpgn
             page == task[p].page
  <2>1. page \in Pages /\ v \in Pages /\ v \in Nat /\ Online(p, v) /\ ~pgd[p][page].present
    <3>1. page \in Pages /\ v \in Pages /\ Online(p, v) /\ ~pgd[p][page].present
      BY <1>1, <1>7 DEF TakeSwap, At, PInv, ArgsInv, Paging
    <3> QED  BY <3>1 DEF Pages
  <2>2. CASE x = page
    <3>1. pgd'[p][page] = pte_set_fpn(pgd[p][page], v) /\ pgd[p][page] \in Pte
      BY <1>1, <1>7, <2>1 DEF TakeSwap, Online
    <3>2. ~pgd'[p][page].swapped
      BY <2>1, <3>1, SetFpn
    <3>3. ~pgd[q][x].present /\ ~pgd'[q][x].swapped
      BY <1>7, <2>1, <2>2, <3>2
    <3> QED  BY <3>3
  <2>3. CASE x = v
    BY <1>1, <1>7, <2>1, <2>3 DEF Online
  <2>4. CASE x # page /\ x # v
    <3>1. pgd'[p][x] = pgd[p][x]
      BY <1>1, <1>7, <2>1, <2>4 DEF TakeSwap
    <3> QED  BY <1>1, <1>2, <1>7, <3>1
  <2> QED  BY <2>2, <2>3, <2>4
<1>8. ASSUME UNCHANGED pgd PROVE Kept
  BY <1>2, <1>8
<1>9. TakeRam(p) \/ MapPage(p) \/ TakeSwap(p) \/ UNCHANGED pgd
  BY DEF Call, Step, MapRam, Evict, FreeMemory, AllocSkip, LockRam, ReadRam, RamEmpty, AllocDone,
      MapSkip, MapDone, LockSwap, ReadSwap, SwapEmpty, ReadPut, WritePut, FreeDone, tables
<1> HIDE DEF Kept
<1> QED
  BY <1>3, <1>5, <1>6, <1>7, <1>8, <1>9

\* The page that TakeSwap swaps out, and the one that it brings in.
LEMMA SwapPages ==
    ASSUME Inv, NEW p \in Processes, TakeSwap(p)
    PROVE  /\ task[p].vicpgn \in Pages /\ task[p].page \in Pages /\ task[p].page # task[p].vicpgn
           /\ Online(p, task[p].vicpgn) /\ ~pgd[p][task[p].page].present
           /\ task[p].fp = swapFree /\ swapFree # <<>> /\ Head(swapFree) \in Nat
           /\ swapFree' = Tail(swapFree)
           /\ pgd'[p][task[p].vicpgn] = pte_set_swap(pgd[p][task[p].vicpgn], Head(swapFree))
           /\ fifo_pgn'[p] = <<task[p].page>> \o fifo_pgn[p]
           /\ pgd[p][task[p].vicpgn] \in Pte /\ pgd'[p][task[p].vicpgn].swapped
<1> DEFINE v == task[p].vicpgn
           page == task[p].page
<1>1. /\ v \in Pages /\ page \in Pages /\ Online(p, v) /\ ~pgd[p][page].present
      /\ task[p].fp = swapFree /\ swapFree # <<>> /\ swapFree' = Tail(swapFree)
  BY DEF TakeSwap, At, Inv, PInv, ArgsInv, HeadInv, Paging
<1>2. page # v
  BY <1>1 DEF Online
<1>3. pgd \in [Processes -> [Pages -> Pte]] /\ swapFree \in Seq(Nat)
      /\ fifo_pgn \in [Processes -> Seq(Pages)]
  BY DEF Inv, TypeOK
<1>4. Head(swapFree) \in Nat
  BY <1>1, <1>3, Pop
<1>5. /\ pgd'[p][v] = pte_set_swap(pgd[p][v], Head(swapFree))
      /\ fifo_pgn'[p] = <<page>> \o fifo_pgn[p]
  BY <1>1, <1>2, <1>3 DEF TakeSwap, Listed
<1>6. pgd[p][v] \in Pte /\ pgd'[p][v].swapped
  BY <1>1, <1>3, <1>4, <1>5, SetSwap
<1> QED  BY <1>1, <1>2, <1>4, <1>5, <1>6

(***************************************************************************)
(* What is swapped out stays in its frame of swap, and what is in the RAM  *)
(* leaves its frame only by being swapped out: vm_map_ram passes over      *)
(* pages that are present, and pg_getpage overwrites two entries only.     *)
(***************************************************************************)
THEOREM FramesNeverMove == Spec => FramesStay
<1> DEFINE A == \A p \in Processes, page \in Pages :
                   /\ pgd[p][page].swapped => pgd'[p][page] = pgd[p][page]
                   /\ Online(p, page) /\ Online(p, page)' => pgd'[p][page] = pgd[p][page]
<1>1. Inv /\ [Next]_vars => A \/ UNCHANGED vars
  <2> SUFFICES ASSUME Inv, NEW p \in Processes, Call(p) \/ Step(p),
                      NEW q \in Processes, NEW x \in Pages
               PROVE  /\ pgd[q][x].swapped => pgd'[q][x] = pgd[q][x]
                      /\ Online(q, x) /\ Online(q, x)' => pgd'[q][x] = pgd[q][x]
    BY DEF Next
  <2>1. pgd[q][x].swapped => pgd[q][x].present
    BY DEF Inv, PInv, PteInv
  <2>2. CASE TakeSwap(p) /\ q = p /\ x = task[p].vicpgn
    BY <2>2, SwapPages DEF Online
  <2> QED  BY <2>1, <2>2, PteStep DEF Online
<1>2. Inv /\ [Next]_vars => [A]_vars
  BY <1>1
<1> HIDE DEF A
<1>3. Safety => [][A]_vars
  BY <1>2, Invariance, PTL DEF Safety
<1> QED  BY <1>3 DEF Spec, FramesStay, A

-----------------------------------------------------------------------------
(* Requests.                                                               *)

\* The pages that alloc_pages_range has passed are present, and so are all of
\* the request once vmap_page_range runs.
Served(p) ==
    Mapping(p) =>
        \A x \in Pages :
            (IF pc[p] = "map" THEN x < task[p].incpgnum ELSE x < task[p].page)
                => pgd[p][x].present

LEMMA ServedStep ==
    ASSUME Inv, NEW p \in Processes, Call(p) \/ Step(p), Served(p)
    PROVE  Served(p)'
<1>1. /\ PInv(p)
      /\ pgd \in [Processes -> [Pages -> Pte]]
      /\ task \in [Processes -> Task] /\ pc \in [Processes -> ControlStates]
      /\ task[p] \in Task /\ task[p].page \in Nat /\ task[p].incpgnum \in Nat
      /\ task[p].fp \in Seq(Nat) /\ \A x \in Pages : x \in Nat
  BY DEF Inv, TypeOK, Task, Pages
<1> SUFFICES ASSUME Mapping(p)', NEW x \in Pages,
                    IF pc'[p] = "map" THEN x < task'[p].incpgnum ELSE x < task'[p].page
             PROVE  pgd'[p][x].present
  BY DEF Served
<1> USE DEF At, Goto, Return
<1>2. ~TakeSwap(p)
  BY <1>1 DEF TakeSwap, Mapping
<1>3. pgd[p][x].present => pgd'[p][x].present
  BY <1>2, PteStep
<1>4. ASSUME NEW a \in MapArguments, MapRam(p, a[1], a[2]) PROVE FALSE
  <2>1. task'[p].page = 0 /\ pc'[p] = "alloc"
    BY <1>1, <1>4 DEF MapRam, NoTask
  <2> QED  BY <1>1, <2>1
<1>5. CASE AllocSkip(p)
  <2>1. task'[p].page = task[p].page + 1 /\ pc'[p] = "alloc" /\ pc[p] = "alloc"
    BY <1>1, <1>5 DEF AllocSkip, Task
  <2>2. x < task[p].page \/ x = task[p].page
    BY <1>1, <2>1
  <2> QED  BY <1>3, <1>5, <2>1, <2>2 DEF AllocSkip, PAGING_PTE_PAGE_PRESENT, Served, Mapping
<1>6. CASE LockRam(p) \/ ReadRam(p)
  <2>1. /\ task'[p].page = task[p].page /\ pc'[p] \in {"get ram", "take ram"}
        /\ pc[p] \in {"alloc", "get ram"}
    <3>1. CASE LockRam(p)
      BY <1>1, <3>1 DEF LockRam
    <3>2. CASE ReadRam(p)
      BY <1>1, <3>2 DEF ReadRam, Task
    <3> QED  BY <1>6, <3>1, <3>2
  <2> QED  BY <1>3, <2>1 DEF Served, Mapping
<1>7. CASE TakeRam(p)
  <2>1. /\ task'[p].page = task[p].page + 1 /\ pc'[p] = "alloc" /\ pc[p] = "take ram"
        /\ task[p].page \in Pages /\ task[p].fp # <<>>
        /\ pgd'[p] = [pgd[p] EXCEPT ![task[p].page] =
                         pte_set_fpn(pgd[p][task[p].page], Head(task[p].fp))]
    BY <1>1, <1>7, PagesInTable DEF TakeRam, MapTo, Task, PInv, HeadInv
  <2>2. pgd'[p][task[p].page].present
    <3>0. Head(task[p].fp) \in Nat
      <4>1. task[p].fp \in Seq(Nat) /\ task[p].fp # <<>>
        BY <1>1, <2>1
      <4> QED  BY <4>1, Pop
    <3>1. pgd[p][task[p].page] \in Pte /\ Head(task[p].fp) \in Nat
      BY <1>1, <2>1, <3>0
    <3>2. pgd'[p][task[p].page] = pte_set_fpn(pgd[p][task[p].page], Head(task[p].fp))
      BY <1>1, <2>1
    <3> QED  BY <3>1, <3>2, SetFpn
  <2>3. x < task[p].page \/ x = task[p].page
    <3>1. x < task[p].page + 1
      BY <2>1
    <3> QED  BY <1>1, <3>1
  <2> QED  BY <1>3, <2>1, <2>2, <2>3 DEF Served, Mapping
<1>8. CASE AllocDone(p)
  <2>1. /\ task'[p].incpgnum = task[p].incpgnum /\ pc'[p] = "map" /\ pc[p] = "alloc"
        /\ ~(task[p].page < task[p].incpgnum)
    BY <1>1, <1>8 DEF AllocDone, Requested, Task
  <2>2. x < task[p].page
    BY <1>1, <2>1
  <2> QED  BY <1>3, <2>1, <2>2 DEF Served, Mapping
<1>9. CASE MapSkip(p) \/ MapPage(p)
  <2>1. task'[p].incpgnum = task[p].incpgnum /\ pc'[p] = "map" /\ pc[p] = "map"
    BY <1>1, <1>9 DEF MapSkip, MapPage, Task
  <2> QED  BY <1>3, <2>1 DEF Served, Mapping
<1>10. \/ \E a \in MapArguments : MapRam(p, a[1], a[2])
       \/ AllocSkip(p) \/ LockRam(p) \/ ReadRam(p) \/ TakeRam(p) \/ AllocDone(p)
       \/ MapSkip(p) \/ MapPage(p)
  BY <1>1, <1>2 DEF Call, Step, Evict, FreeMemory, RamEmpty, MapDone, LockSwap, ReadSwap,
      SwapEmpty, ReadPut, WritePut, FreeDone, Mapping
<1> QED  BY <1>4, <1>5, <1>6, <1>7, <1>8, <1>9, <1>10

LEMMA ServedNext ==
    Inv /\ (\A p \in Processes : Served(p)) /\ [Next]_vars
        => (\A p \in Processes : Served(p))'
<1> SUFFICES ASSUME Inv, \A p \in Processes : Served(p), [Next]_vars, NEW q \in Processes
             PROVE  Served(q)'
  OBVIOUS
<1>1. ASSUME NEW p \in Processes, Call(p) \/ Step(p) PROVE Served(q)'
  <2>1. CASE q = p
    BY <1>1, <2>1, ServedStep
  <2>2. CASE q # p
    <3>1. pc'[q] = pc[q] /\ task'[q] = task[q] /\ pgd'[q] = pgd[q]
      BY <1>1, <2>2, StepFrame DEF Frame
    <3> QED  BY <3>1 DEF Served, Mapping
  <2> QED  BY <2>1, <2>2
<1>2. CASE UNCHANGED vars
  BY <1>2 DEF vars, tables, Served, Mapping
<1> QED  BY <1>1, <1>2 DEF Next

(***************************************************************************)
(* When vm_map_ram succeeds from page 0 on, all pages of the request are   *)
(* present: alloc_pages_range alone has seen to it, page by page, and no   *)
(* step of another process takes a page away.                              *)
(***************************************************************************)
THEOREM RequestsAreServed == Spec => RequestIsServed
<1> DEFINE J == \A p \in Processes : Served(p)
           A == \A p \in Processes :
                   At(p, "map") /\ task[p].mapstart = 0 /\ pc'[p] = "idle" =>
                       \A page \in Pages :
                           page < task[p].incpgnum => pgd'[p][page].present
<1>1. Init => J
  BY DEF Init, Served, Mapping
<1>2. Inv /\ J /\ [Next]_vars => J'
  BY ServedNext
<1>3. Inv /\ J /\ [Next]_vars => [A]_vars
  <2> SUFFICES ASSUME Inv, J, NEW q \in Processes, Call(q) \/ Step(q),
                      NEW p \in Processes, At(p, "map"), pc'[p] = "idle",
                      NEW x \in Pages, x < task[p].incpgnum
               PROVE  pgd'[p][x].present
    BY DEF Next
  <2>1. pgd[p][x].present
    BY DEF Served, Mapping, At
  <2>2. q = p
    BY StepFrame DEF Frame, At
  <2>3. ~TakeSwap(p)
    BY DEF TakeSwap, At
  <2> QED  BY <2>1, <2>2, <2>3, PteStep
<1> HIDE DEF A, J
<1>4. Safety => [][A]_vars
  BY <1>1, <1>2, <1>3, Invariance, PTL DEF Safety
<1> QED  BY <1>4 DEF Spec, RequestIsServed, A

-----------------------------------------------------------------------------
(* The list of resident pages.                                             *)

\* A page in RAM is in the list, or the victim of a call, or swap is full.
Covered(p) ==
    "free" \notin calls =>
        \A page \in Pages :
            Online(p, page) =>
                \/ In(fifo_pgn[p], page)
                \/ Paging(p) /\ task[p].vicpgn = page
                \/ swapFree = <<>>

LEMMA SwapStaysEmpty ==
    ASSUME Inv, NEW p \in Processes, Call(p) \/ Step(p), "free" \notin calls, swapFree = <<>>
    PROVE  swapFree' = <<>>
<1>1. ~TakeSwap(p)
  BY SwapPages
<1>2. ~WritePut(p)
  BY DEF WritePut, At, Inv, PInv, CallInv, Freeing
<1> QED
  BY <1>1, <1>2
  DEF Call, Step, MapRam, Evict, FreeMemory, AllocSkip, LockRam, ReadRam, RamEmpty, TakeRam,
      AllocDone, MapSkip, MapPage, MapDone, LockSwap, ReadSwap, SwapEmpty, ReadPut, FreeDone,
      lists

LEMMA CoveredStep ==
    ASSUME Inv, NEW p \in Processes, Call(p) \/ Step(p), Covered(p)
    PROVE  Covered(p)'
<1>1. /\ PInv(p) /\ calls' = calls
      /\ pgd \in [Processes -> [Pages -> Pte]]
      /\ fifo_pgn \in [Processes -> Seq(Pages)] /\ fifo_pgn[p] \in Seq(Pages)
      /\ task \in [Processes -> Task] /\ pc \in [Processes -> ControlStates]
      /\ task[p].fp \in Seq(Nat) /\ task[p].frm_lst \in Seq(Nat)
  BY StepFrame DEF Inv, TypeOK, Task, Frame
<1> SUFFICES ASSUME "free" \notin calls, swapFree # <<>>, NEW x \in Pages, Online(p, x)'
             PROVE  In(fifo_pgn[p], x)' \/ (Paging(p)' /\ task'[p].vicpgn = x) \/ swapFree' = <<>>
  BY <1>1, SwapStaysEmpty DEF Covered
<1> DEFINE Goal == \/ In(fifo_pgn[p], x)'
                   \/ Paging(p)' /\ task'[p].vicpgn = x
                   \/ swapFree' = <<>>
<1>2. Online(p, x) => In(fifo_pgn[p], x) \/ (Paging(p) /\ task[p].vicpgn = x)
  BY DEF Covered
<1> USE DEF At, Goto, Return
<1>3. ASSUME UNCHANGED tables, ~Paging(p) \/ (Paging(p)' /\ task'[p].vicpgn = task[p].vicpgn)
      PROVE  Goal
  <2>1. Online(p, x) /\ In(fifo_pgn[p], x)' = In(fifo_pgn[p], x)
    BY <1>3 DEF tables, Online, In
  <2> QED  BY <1>2, <1>3, <2>1
<1>4. ASSUME NEW page \in Pages, Evict(p, page) PROVE Goal
  <2>1. /\ pgd' = pgd /\ fifo_pgn[p] # <<>> /\ fifo_pgn'[p] = WithoutVictim(fifo_pgn[p])
        /\ Paging(p)' /\ ~Paging(p) /\ task'[p].vicpgn = Victim(fifo_pgn[p])
    BY <1>1, <1>4 DEF Evict, Paging, NoTask
  <2>2. \A y : In(fifo_pgn[p], y) <=> y = Victim(fifo_pgn[p]) \/ In(fifo_pgn'[p], y)
    BY <1>1, <2>1, Drop
  <2>3. Online(p, x)
    BY <2>1 DEF Online
  <2> QED  BY <1>2, <2>1, <2>2, <2>3 DEF In
<1>5. ASSUME NEW page \in Pages, NEW fpn \in Nat, MapTo(p, page, fpn), ~Paging(p) PROVE Goal
  <2>1. /\ pgd' = [pgd EXCEPT ![p][page] = pte_set_fpn(pgd[p][page], fpn)]
        /\ fifo_pgn'[p] = <<page>> \o fifo_pgn[p]
    BY <1>1, <1>5 DEF MapTo
  <2>2. \A y : In(fifo_pgn'[p], y) <=> y = page \/ In(fifo_pgn[p], y)
    BY <1>1, <1>5, <2>1, Push
  <2>3. ASSUME x # page PROVE Online(p, x)
    BY <1>1, <2>1, <2>3 DEF Online
  <2> QED  BY <1>2, <1>5, <2>2, <2>3 DEF In
<1>6. CASE TakeRam(p)
  <2>1. /\ task[p].fp # <<>> /\ task[p].page \in Pages /\ ~Paging(p)
        /\ MapTo(p, task[p].page, Head(task[p].fp))
    BY <1>1, <1>6, PagesInTable DEF TakeRam, PInv, HeadInv, Paging
  <2>2. Head(task[p].fp) \in Nat
    BY <1>1, <2>1, Pop
  <2> QED  BY <1>5, <2>1, <2>2
<1>7. CASE MapPage(p)
  <2>1. /\ task[p].frm_lst # <<>> /\ MapPgn(p) \in Pages /\ ~Paging(p)
        /\ MapTo(p, MapPgn(p), Head(task[p].frm_lst))
    BY <1>7, PagesInTable DEF MapPage, Paging
  <2>2. Head(task[p].frm_lst) \in Nat
    BY <1>1, <2>1, Pop
  <2> QED  BY <1>5, <2>1, <2>2
<1>8. CASE TakeSwap(p)
  <2> DEFINE v == task[p].vicpgn
             page == task[p].page
  <2>1. /\ page \in Pages /\ v \in Pages /\ fifo_pgn'[p] = <<page>> \o fifo_pgn[p]
        /\ pgd'[p][v].swapped /\ page # v
    BY <1>8, SwapPages
  <2>2. \A y : In(fifo_pgn'[p], y) <=> y = page \/ In(fifo_pgn[p], y)
    BY <1>1, <2>1, Push
  <2>3. x # v
    BY <2>1 DEF Online
  <2>4. ASSUME x # page PROVE Online(p, x)
    <3>1. pgd'[p][x] = pgd[p][x]
      BY <1>1, <1>8, <2>1, <2>3, <2>4 DEF TakeSwap
    <3> QED  BY <3>1 DEF Online
  <2> QED  BY <1>2, <2>2, <2>3, <2>4 DEF In
<1>9. CASE SwapEmpty(p)
  BY <1>9 DEF SwapEmpty
<1>10. CASE LockSwap(p) \/ ReadSwap(p)
  <2>1. CASE LockSwap(p)
    BY <1>1, <1>3, <2>1 DEF LockSwap, Paging
  <2>2. CASE ReadSwap(p)
    <3>1. task'[p] = [task[p] EXCEPT !.fp = swapFree] /\ task[p] \in Task
      BY <1>1, <2>2 DEF ReadSwap
    <3>2. task'[p].vicpgn = task[p].vicpgn
      BY <3>1 DEF Task
    <3> QED  BY <1>1, <1>3, <2>2, <3>2 DEF ReadSwap, Paging
  <2> QED  BY <1>10, <2>1, <2>2
<1>11. \/ \E page \in Pages : Evict(p, page)
       \/ TakeRam(p) \/ MapPage(p) \/ TakeSwap(p) \/ SwapEmpty(p) \/ LockSwap(p) \/ ReadSwap(p)
       \/ UNCHANGED tables /\ ~Paging(p)
  BY DEF Call, Step, MapRam, FreeMemory, AllocSkip, LockRam, ReadRam, RamEmpty, AllocDone,
         MapSkip, MapDone, ReadPut, WritePut, FreeDone, Paging
<1> QED  BY <1>3, <1>4, <1>6, <1>7, <1>8, <1>9, <1>10, <1>11

LEMMA CoveredOthers ==
    ASSUME Inv, NEW p \in Processes, Call(p) \/ Step(p), NEW q \in Processes \ {p}, Covered(q)
    PROVE  Covered(q)'
<1>1. /\ calls' = calls /\ pc'[q] = pc[q] /\ task'[q] = task[q]
      /\ pgd'[q] = pgd[q] /\ fifo_pgn'[q] = fifo_pgn[q]
  BY StepFrame DEF Frame
<1>2. "free" \notin calls /\ swapFree = <<>> => swapFree' = <<>>
  BY SwapStaysEmpty
<1> QED  BY <1>1, <1>2 DEF Covered, Online, In, Paging

(***************************************************************************)
(* The list of resident pages names each page once, and no page that is    *)
(* not in RAM; it misses only the victim of a running pg_getpage, and what *)
(* was left in RAM by one that found swap full.                            *)
(***************************************************************************)
THEOREM FifoIsKept == Spec => []FifoIsComplete
<1> DEFINE J == \A p \in Processes : Covered(p)
<1>1. Init => J
  <2> SUFFICES ASSUME Init, NEW p \in Processes, NEW x \in Pages PROVE ~Online(p, x)
    BY DEF Covered
  <2> QED  BY DEF Init, ClearedPte, Online
<1>2. Inv /\ J /\ [Next]_vars => J'
  <2>1. ASSUME Inv, J, NEW p \in Processes, Call(p) \/ Step(p) PROVE J'
    BY <2>1, CoveredStep, CoveredOthers
  <2>2. ASSUME J, UNCHANGED vars PROVE J'
    BY <2>2 DEF vars, tables, lists, Covered, Online, In, Paging
  <2> QED  BY <2>1, <2>2 DEF Next
<1>3. Inv /\ J => FifoIsComplete
  <2> SUFFICES ASSUME Inv, J, NEW p \in Processes
               PROVE  /\ Distinct(fifo_pgn[p])
                      /\ \A i \in DOMAIN fifo_pgn[p] : Online(p, fifo_pgn[p][i])
                      /\ Covered(p)
    BY DEF FifoIsComplete, Distinct, Covered, Paging
  <2>1. fifo_pgn[p] \in Seq(Pages) /\ ListInv(p)
    BY DEF Inv, TypeOK, PInv
  <2>2. ASSUME NEW i \in DOMAIN fifo_pgn[p] PROVE Online(p, fifo_pgn[p][i])
    <3>1. fifo_pgn[p][i] \in Pages /\ In(fifo_pgn[p], fifo_pgn[p][i])
      BY <2>1 DEF In
    <3> QED  BY <2>1, <3>1 DEF ListInv
  <2> QED  BY <2>1, <2>2 DEF ListInv
<1> HIDE DEF J
<1> QED  BY <1>1, <1>2, <1>3, Invariance, PTL DEF Spec, Safety

-----------------------------------------------------------------------------
(* The frames of swap.                                                     *)

SwapInv ==
    "free" \notin calls =>
        /\ Distinct(swapFree)
        /\ \A f \in 0..(SwapFrames - 1) :
              /\ In(swapFree, f) <=> SwappedTo(f) = {}
              /\ \A x, y \in SwappedTo(f) : x = y

LEMMA FormattedList ==
    ASSUME NEW n \in Nat
    PROVE  /\ Distinct(MEMPHY_format(n))
           /\ \A f \in 0..(n - 1) : In(MEMPHY_format(n), f)
<1>1. ASSUME NEW f \in 0..(n - 1) PROVE In(MEMPHY_format(n), f)
  <2>1. f + 1 \in 1..n /\ MEMPHY_format(n)[f + 1] = f
    BY DEF MEMPHY_format
  <2> QED  BY <2>1 DEF In, MEMPHY_format
<1> QED  BY <1>1 DEF Distinct, MEMPHY_format

\* Entries that are swapped keep their offset, the others stay out of swap:
\* the pages of a frame of swap are the same.
LEMMA SameSwapped ==
    ASSUME Inv, NEW p \in Processes, Call(p) \/ Step(p), ~TakeSwap(p), NEW f
    PROVE  SwappedTo(f)' = SwappedTo(f)
<1>1. ASSUME NEW q \in Processes, NEW x \in Pages
      PROVE  /\ pgd'[q][x].swapped = pgd[q][x].swapped
             /\ pgd[q][x].swapped => pgd'[q][x] = pgd[q][x]
  <2>1. pgd[q][x].present => pgd'[q][x] = pgd[q][x]
    BY PteStep
  <2>2. ~pgd[q][x].present => ~pgd[q][x].swapped /\ ~pgd'[q][x].swapped
    BY PteStep
  <2>3. /\ pgd[q][x].swapped \in BOOLEAN /\ pgd'[q][x].swapped \in BOOLEAN
    BY TypeStep DEF Inv, TypeOK, Pte
  <2> QED  BY <2>1, <2>2, <2>3
<1> QED  BY <1>1 DEF SwappedTo

\* Nothing else takes a frame of swap, or gives one back.
LEMMA SwapKept ==
    ASSUME Inv, NEW p \in Processes, Call(p) \/ Step(p), ~TakeSwap(p), "free" \notin calls
    PROVE  swapFree' = swapFree
BY DEF Call, Step, MapRam, Evict, FreeMemory, AllocSkip, LockRam, ReadRam, RamEmpty, TakeRam,
       AllocDone, MapSkip, MapPage, MapDone, LockSwap, ReadSwap, SwapEmpty, ReadPut, WritePut,
       FreeDone, lists, At, Inv, PInv, CallInv, Freeing

\* The head of the list of swap gets the victim, and nothing else changes.
LEMMA SwapTaken ==
    ASSUME Inv, NEW p \in Processes, TakeSwap(p), SwapInv, "free" \notin calls
    PROVE  LET h == Head(swapFree)
           IN  /\ swapFree # <<>> /\ h \in 0..(SwapFrames - 1)
               /\ swapFree' = Tail(swapFree)
               /\ Distinct(Tail(swapFree)) /\ ~In(Tail(swapFree), h)
               /\ \A y : In(swapFree, y) <=> y = h \/ In(Tail(swapFree), y)
               /\ task[p].vicpgn \in Pages
               /\ \A f : f = h => SwappedTo(f)' = {<<p, task[p].vicpgn>>}
               /\ \A f : f # h => SwappedTo(f)' = SwappedTo(f)
<1> DEFINE h == Head(swapFree)
           v == task[p].vicpgn
           page == task[p].page
<1>0. Call(p) \/ Step(p)
  BY DEF Step
<1>1. /\ v \in Pages /\ page \in Pages /\ page # v /\ Online(p, v) /\ ~pgd[p][page].present
      /\ swapFree # <<>> /\ swapFree' = Tail(swapFree) /\ pgd[p][v] \in Pte
      /\ pgd'[p][v] = pte_set_swap(pgd[p][v], h) /\ pgd'[p][v].swapped
  BY SwapPages
<1>2. swapFree \in Seq(0..(SwapFrames - 1)) /\ Distinct(swapFree)
  BY DEF Inv, TypeOK, SwapInv
<1>3. /\ h \in 0..(SwapFrames - 1)
      /\ \A y : In(swapFree, y) <=> y = h \/ In(Tail(swapFree), y)
      /\ Distinct(Tail(swapFree)) /\ ~In(Tail(swapFree), h)
  BY <1>1, <1>2, Pop
<1>4. PAGING_PTE_SWP(pgd'[p][v]) = h
  <2>1. h \in Nat /\ h < SwapOffsets
    BY <1>3, FramesAssumption, Sizes
  <2> QED  BY <1>1, <2>1, SetSwap
<1>5. ~pgd[p][v].swapped
  BY <1>1 DEF Online
<1>6. ASSUME NEW q \in Processes, NEW x \in Pages, <<q, x>> # <<p, v>>
      PROVE  /\ pgd'[q][x].swapped = pgd[q][x].swapped
             /\ pgd[q][x].swapped => pgd'[q][x] = pgd[q][x]
  <2>1. pgd[q][x].present => pgd'[q][x] = pgd[q][x]
    BY <1>0, <1>6, PteStep
  <2>2. ~pgd[q][x].present => ~pgd[q][x].swapped /\ ~pgd'[q][x].swapped
    BY <1>0, PteStep
  <2>3. /\ pgd[q][x].swapped \in BOOLEAN /\ pgd'[q][x].swapped \in BOOLEAN
    BY <1>0, TypeStep DEF Inv, TypeOK, Pte
  <2> QED  BY <2>1, <2>2, <2>3
<1>7. SwappedTo(h) = {}
  BY <1>3 DEF SwapInv
<1>8. ASSUME NEW f, f # h PROVE SwappedTo(f)' = SwappedTo(f)
  BY <1>1, <1>4, <1>5, <1>6, <1>8 DEF SwappedTo
<1>9. ASSUME NEW f, f = h
      PROVE  SwappedTo(f)' = {<<p, v>>}
  <2>1. <<p, v>> \in SwappedTo(f)'
    BY <1>1, <1>4, <1>9 DEF SwappedTo
  <2>2. ASSUME NEW q \in Processes, NEW x \in Pages, <<q, x>> # <<p, v>>
        PROVE  <<q, x>> \notin SwappedTo(f)'
    <3>1. ~(pgd[q][x].swapped /\ PAGING_PTE_SWP(pgd[q][x]) = f)
      <4>1. <<q, x>> \notin SwappedTo(f)
        BY <1>7, <1>9
      <4> QED  BY <4>1 DEF SwappedTo
    <3>2. ~(pgd'[q][x].swapped /\ PAGING_PTE_SWP(pgd'[q][x]) = f)
      BY <1>6, <2>2, <3>1
    <3> QED  BY <3>2 DEF SwappedTo
  <2>3. SwappedTo(f)' \subseteq Processes \X Pages
    BY DEF SwappedTo
  <2> QED  BY <2>1, <2>2, <2>3
<1> HIDE DEF h
<1> QED  BY <1>1, <1>2, <1>3, <1>8, <1>9 DEF h

LEMMA SwapStep ==
    ASSUME Inv, NEW p \in Processes, Call(p) \/ Step(p), SwapInv
    PROVE  SwapInv'
<1>1. calls' = calls
  BY StepFrame DEF Frame
<1> SUFFICES ASSUME "free" \notin calls
             PROVE  /\ Distinct(swapFree)'
                    /\ \A f \in 0..(SwapFrames - 1) :
                          /\ In(swapFree, f)' <=> SwappedTo(f)' = {}
                          /\ \A x, y \in SwappedTo(f)' : x = y
  BY <1>1 DEF SwapInv
<1>2. CASE ~TakeSwap(p)
  <2>1. swapFree' = swapFree
    BY <1>2, SwapKept
  <2>2. \A f : SwappedTo(f)' = SwappedTo(f)
    BY <1>2, SameSwapped
  <2> QED  BY <2>1, <2>2 DEF SwapInv, Distinct, In
<1>3. CASE TakeSwap(p)
  <2> DEFINE h == Head(swapFree)
             v == task[p].vicpgn
  <2>1. /\ h \in 0..(SwapFrames - 1) /\ swapFree' = Tail(swapFree)
        /\ Distinct(Tail(swapFree)) /\ ~In(Tail(swapFree), h)
        /\ \A y : In(swapFree, y) <=> y = h \/ In(Tail(swapFree), y)
        /\ \A f : f = h => SwappedTo(f)' = {<<p, v>>}
        /\ \A f : f # h => SwappedTo(f)' = SwappedTo(f)
    BY <1>3, SwapTaken
  <2> HIDE DEF h
  <2>2. ASSUME NEW f \in 0..(SwapFrames - 1)
        PROVE  /\ In(swapFree, f)' <=> SwappedTo(f)' = {}
               /\ \A x, y \in SwappedTo(f)' : x = y
    <3>1. CASE f = h
      <4>1. ~In(swapFree, f)'
        BY <2>1, <3>1 DEF In
      <4>2. SwappedTo(f)' = {<<p, task[p].vicpgn>>}
        BY <2>1, <3>1
      <4>3. SwappedTo(f)' # {} /\ \A x, y \in SwappedTo(f)' : x = y
        BY <4>2
      <4> QED  BY <4>1, <4>3
    <3>2. CASE f # h
      <4>1. In(swapFree, f)' <=> In(swapFree, f)
        BY <2>1, <3>2 DEF In
      <4> QED  BY <2>1, <3>2, <4>1 DEF SwapInv
    <3> QED  BY <3>1, <3>2
  <2>3. Distinct(swapFree)'
    BY <2>1 DEF Distinct
  <2> QED  BY <2>2, <2>3
<1> QED  BY <1>2, <1>3

(***************************************************************************)
(* Each frame of swap is free once, or holds exactly one page of one       *)
(* process, as long as nobody calls free_pcb_memph: whoever takes the head *)
(* of the list is alone, and writes its number where no number was.        *)
(***************************************************************************)
THEOREM SwapIsShared == Spec => []SwapIsPartitioned
<1>1. Init => SwapInv
  <2> SUFFICES ASSUME Init PROVE SwapInv
    OBVIOUS
  <2>1. SwapFrames \in Nat
    BY FramesAssumption, Sizes
  <2>2. \A f : SwappedTo(f) = {}
    BY DEF Init, ClearedPte, SwappedTo
  <2> QED  BY <2>1, <2>2, FormattedList DEF Init, SwapInv
<1>2. Inv /\ SwapInv /\ [Next]_vars => SwapInv'
  <2>1. ASSUME SwapInv, UNCHANGED vars PROVE SwapInv'
    <3>1. calls' = calls /\ swapFree' = swapFree /\ pgd' = pgd
      BY <2>1 DEF vars, tables, lists
    <3>2. \A f : SwappedTo(f)' = SwappedTo(f)
      BY <3>1 DEF SwappedTo
    <3> QED  BY <2>1, <3>1, <3>2 DEF SwapInv, Distinct, In
  <2> QED  BY <2>1, SwapStep DEF Next
<1>3. SwapInv => SwapIsPartitioned
  BY DEF SwapInv, SwapIsPartitioned, Distinct, Once
<1> QED  BY <1>1, <1>2, <1>3, Invariance, PTL DEF Spec, Safety

-----------------------------------------------------------------------------
(* The frames of the RAM, while only vm_map_ram is called.                 *)

Maps(q, x, f) == Online(q, x) /\ PAGING_PTE_FPN(pgd[q][x]) = f

RamFrameNumbers == 0..(RamFrames - 1)

\* The frames that alloc_pages_range returned are mapped by the process itself.
OwnFrames(p) ==
    \A f : In(task[p].frm_lst, f) =>
              f \in RamFrameNumbers /\ \E x \in Pages : Maps(p, x, f)

RamInv ==
    calls = {"map"} =>
        /\ Distinct(ramFree)
        /\ \A f \in RamFrameNumbers :
              In(ramFree, f) <=> ~\E q \in Processes, x \in Pages : Maps(q, x, f)
        /\ \A f \in RamFrameNumbers, q, r \in Processes, x, y \in Pages :
              Maps(q, x, f) /\ Maps(r, y, f) => q = r
        /\ \A p \in Processes : OwnFrames(p)

\* One more page is mapped to the frame.
LEMMA MapToMaps ==
    ASSUME Inv, NEW p \in Processes, NEW page \in Pages, NEW fpn \in Nat,
           MapTo(p, page, fpn), ~pgd[p][page].present, fpn < FrameNumbers
    PROVE  \A q \in Processes, x \in Pages : \A f :
              Maps(q, x, f)' <=> Maps(q, x, f) \/ (q = p /\ x = page /\ f = fpn)
<1>1. pgd \in [Processes -> [Pages -> Pte]] /\ pgd[p][page] \in Pte
  BY DEF Inv, TypeOK
<1>2. pgd'[p][page] = pte_set_fpn(pgd[p][page], fpn)
  BY <1>1 DEF MapTo
<1>3. /\ pgd'[p][page].present /\ ~pgd'[p][page].swapped
      /\ PAGING_PTE_FPN(pgd'[p][page]) = fpn
  BY <1>1, <1>2, SetFpn
<1>4. ASSUME NEW q \in Processes, NEW x \in Pages, q # p \/ x # page
      PROVE  pgd'[q][x] = pgd[q][x]
  BY <1>1, <1>4 DEF MapTo
<1> QED  BY <1>3, <1>4 DEF Maps, Online

\* Other processes: their frames stay mapped.
LEMMA OwnFramesStep ==
    ASSUME Inv, NEW p \in Processes, Call(p) \/ Step(p), calls = {"map"}, RamInv,
           NEW q \in Processes \ {p}
    PROVE  OwnFrames(q)'
<1>1. task'[q] = task[q] /\ pgd'[q] = pgd[q]
  BY StepFrame DEF Frame
<1>2. OwnFrames(q)
  BY DEF RamInv
<1> QED  BY <1>1, <1>2 DEF OwnFrames, In, Maps, Online

\* The head of the list of the RAM gets one page of p; nobody had it before.
LEMMA RamTaken ==
    ASSUME Inv, NEW p \in Processes, TakeRam(p), calls = {"map"}, RamInv
    PROVE  \E h \in RamFrameNumbers, page \in Pages :
              /\ ramFree # <<>> /\ h = Head(ramFree) /\ ramFree' = Tail(ramFree)
              /\ Distinct(Tail(ramFree)) /\ ~In(Tail(ramFree), h)
              /\ \A y : In(ramFree, y) <=> y = h \/ In(Tail(ramFree), y)
              /\ \A q \in Processes, x \in Pages : ~Maps(q, x, h)
              /\ \A q \in Processes, x \in Pages : \A f :
                    Maps(q, x, f)' <=> Maps(q, x, f) \/ (q = p /\ x = page /\ f = h)
              /\ task'[p].frm_lst = <<h>> \o task[p].frm_lst
<1> DEFINE page == task[p].page
<1>1. /\ PInv(p) /\ task[p] \in Task /\ task \in [Processes -> Task]
      /\ task[p].frm_lst \in Seq(Nat)
  BY DEF Inv, TypeOK, Task
<1>2. /\ task[p].fp = ramFree /\ ramFree # <<>> /\ ramFree' = Tail(ramFree)
      /\ page \in Pages /\ ~pgd[p][page].present /\ MapTo(p, page, Head(ramFree))
  BY <1>1, PagesInTable DEF TakeRam, PInv, HeadInv, ArgsInv, At
<1>3. ramFree \in Seq(RamFrameNumbers) /\ Distinct(ramFree)
  BY DEF Inv, TypeOK, RamFrameNumbers, RamInv
<1>4. PICK h \in RamFrameNumbers : h = Head(ramFree)
  BY <1>2, <1>3, Pop
<1>5. /\ \A y : In(ramFree, y) <=> y = h \/ In(Tail(ramFree), y)
      /\ Distinct(Tail(ramFree)) /\ ~In(Tail(ramFree), h)
  BY <1>2, <1>3, <1>4, Pop
<1>6. h \in Nat /\ h < FrameNumbers
  BY FramesAssumption, Sizes DEF RamFrameNumbers
<1>7. \A q \in Processes, x \in Pages : \A f :
         Maps(q, x, f)' <=> Maps(q, x, f) \/ (q = p /\ x = page /\ f = h)
  BY <1>2, <1>4, <1>6, MapToMaps
<1>8. \A q \in Processes, x \in Pages : ~Maps(q, x, h)
  BY <1>5 DEF RamInv
<1>9. task'[p].frm_lst = <<h>> \o task[p].frm_lst
  <2>1. task'[p] = [task[p] EXCEPT !.frm_lst = <<Head(ramFree)>> \o @,
                                   !.page = @ + 1, !.fp = <<>>]
    BY <1>1, <1>2 DEF TakeRam
  <2> QED  BY <1>1, <1>4, <2>1 DEF Task
<1> HIDE DEF page
<1> QED  BY <1>2, <1>4, <1>5, <1>7, <1>8, <1>9

\* The second pass maps a frame that the process has mapped already.
LEMMA RamMapped ==
    ASSUME Inv, NEW p \in Processes, MapPage(p), calls = {"map"}, RamInv
    PROVE  \E h \in RamFrameNumbers, page \in Pages :
              /\ ramFree' = ramFree
              /\ \E x \in Pages : Maps(p, x, h)
              /\ \A q \in Processes, x \in Pages : \A f :
                    Maps(q, x, f)' <=> Maps(q, x, f) \/ (q = p /\ x = page /\ f = h)
              /\ \A f : In(task'[p].frm_lst, f) => In(task[p].frm_lst, f)
<1> DEFINE page == MapPgn(p)
           s == task[p].frm_lst
<1>1. /\ PInv(p) /\ task[p] \in Task /\ task \in [Processes -> Task]
      /\ task[p].frm_lst \in Seq(Nat)
  BY DEF Inv, TypeOK, Task
<1>2. /\ s # <<>> /\ page \in Pages /\ ~pgd[p][page].present
      /\ MapTo(p, page, Head(s)) /\ ramFree' = ramFree
  BY <1>1, PagesInTable DEF MapPage, PAGING_PTE_PAGE_PRESENT, lists, At
<1>3. PICK h \in Nat : h = Head(s)
  BY <1>1, <1>2, Pop
<1>4. \A y : In(s, y) <=> y = h \/ In(Tail(s), y)
  BY <1>1, <1>2, <1>3, Pop
<1>5. h \in RamFrameNumbers /\ \E x \in Pages : Maps(p, x, h)
  BY <1>4 DEF RamInv, OwnFrames
<1>6. h < FrameNumbers
  BY <1>5, FramesAssumption, Sizes DEF RamFrameNumbers
<1>7. \A q \in Processes, x \in Pages : \A f :
         Maps(q, x, f)' <=> Maps(q, x, f) \/ (q = p /\ x = page /\ f = h)
  BY <1>2, <1>3, <1>6, MapToMaps
<1>8. \A f : In(task'[p].frm_lst, f) => In(task[p].frm_lst, f)
  <2>1. task'[p] = [task[p] EXCEPT !.page = @ + 1, !.frm_lst = Tail(@)]
    BY <1>1 DEF MapPage
  <2>2. task'[p].frm_lst = Tail(s)
    BY <1>1, <2>1 DEF Task
  <2> QED  BY <1>4, <2>2
<1> QED  BY <1>2, <1>5, <1>7, <1>8

\* While vm_map_ram alone is called, nothing else touches the frames.
LEMMA RamCases ==
    ASSUME Inv, NEW p \in Processes, Call(p) \/ Step(p), calls = {"map"}
    PROVE  \/ UNCHANGED <<pgd, ramFree>> /\ task'[p].frm_lst \in {task[p].frm_lst, <<>>}
           \/ TakeRam(p) \/ MapPage(p)
<1>1. PInv(p) /\ task[p] \in Task /\ task \in [Processes -> Task]
  BY DEF Inv, TypeOK
<1> USE DEF At, Goto, Return
<1>2. ~Paging(p) /\ ~Freeing(p) /\ "page" \notin calls /\ "free" \notin calls
  BY <1>1 DEF PInv, CallInv
<1>3. UNCHANGED task \/ (\E n \in Nat : task'[p] = [task[p] EXCEPT !.page = n])
         \/ (\E n : task'[p] = [task[p] EXCEPT !.fp = n])
      => task'[p].frm_lst = task[p].frm_lst
  BY <1>1 DEF Task
<1>4. NoTask.frm_lst = <<>> /\ \A m, n : [NoTask EXCEPT !.mapstart = m, !.incpgnum = n].frm_lst = <<>>
  BY DEF NoTask
<1>5. task[p].page + 1 \in Nat
  BY <1>1 DEF Task
<1>6. CASE \E a \in MapArguments : MapRam(p, a[1], a[2])
  BY <1>1, <1>4, <1>6 DEF MapRam, tables, lists
<1>7. CASE AllocSkip(p) \/ MapSkip(p)
  BY <1>1, <1>3, <1>5, <1>7 DEF AllocSkip, MapSkip, tables, lists
<1>8. CASE LockRam(p)
  BY <1>1, <1>3, <1>8 DEF LockRam, tables, lists
<1>9. CASE ReadRam(p)
  BY <1>1, <1>3, <1>9 DEF ReadRam, tables, lists
<1>10. CASE RamEmpty(p) \/ MapDone(p)
  BY <1>1, <1>4, <1>10 DEF RamEmpty, MapDone, tables, lists
<1>11. CASE AllocDone(p)
  BY <1>1, <1>3, <1>11 DEF AllocDone, tables, lists
<1> QED
  BY <1>2, <1>6, <1>7, <1>8, <1>9, <1>10, <1>11
  DEF Call, Step, Evict, FreeMemory, LockSwap, ReadSwap, SwapEmpty, TakeSwap, ReadPut,
      WritePut, FreeDone, Paging, Freeing

LEMMA RamStep ==
    ASSUME Inv, NEW p \in Processes, Call(p) \/ Step(p), RamInv
    PROVE  RamInv'
<1>1. calls' = calls /\ task[p].frm_lst \in Seq(Nat)
  BY StepFrame DEF Inv, TypeOK, Task, Frame
<1>2. SUFFICES ASSUME calls = {"map"}
               PROVE  /\ Distinct(ramFree)'
                      /\ \A f \in RamFrameNumbers :
                            In(ramFree, f)' <=>
                                ~\E q \in Processes, x \in Pages : Maps(q, x, f)'
                      /\ \A f \in RamFrameNumbers, q, r \in Processes, x, y \in Pages :
                            Maps(q, x, f)' /\ Maps(r, y, f)' => q = r
                      /\ OwnFrames(p)'
  BY <1>1, <1>2, OwnFramesStep DEF RamInv
<1>3. /\ Distinct(ramFree)
      /\ \A f \in RamFrameNumbers :
            In(ramFree, f) <=> ~\E q \in Processes, x \in Pages : Maps(q, x, f)
      /\ \A f \in RamFrameNumbers, q, r \in Processes, x, y \in Pages :
            Maps(q, x, f) /\ Maps(r, y, f) => q = r
      /\ OwnFrames(p)
  BY <1>2 DEF RamInv
<1>4. CASE UNCHANGED <<pgd, ramFree>> /\ task'[p].frm_lst \in {task[p].frm_lst, <<>>}
  <2>1. \A f : In(task[p].frm_lst, f)' => In(task[p].frm_lst, f)
    BY <1>4 DEF In
  <2>2. OwnFrames(p)'
    BY <1>3, <1>4, <2>1 DEF OwnFrames, Maps, Online
  <2> QED  BY <1>3, <1>4, <2>2 DEF Distinct, In, Maps, Online
<1>5. CASE TakeRam(p)
  <2>1. PICK h \in RamFrameNumbers, page \in Pages :
           /\ ramFree' = Tail(ramFree) /\ Distinct(Tail(ramFree)) /\ ~In(Tail(ramFree), h)
           /\ \A y : In(ramFree, y) <=> y = h \/ In(Tail(ramFree), y)
           /\ \A q \in Processes, x \in Pages : ~Maps(q, x, h)
           /\ \A q \in Processes, x \in Pages : \A f :
                 Maps(q, x, f)' <=> Maps(q, x, f) \/ (q = p /\ x = page /\ f = h)
           /\ task'[p].frm_lst = <<h>> \o task[p].frm_lst
    BY <1>2, <1>5, RamTaken
  <2>2. \A f \in RamFrameNumbers : In(ramFree, f)' <=> In(ramFree, f) /\ f # h
    BY <2>1 DEF In
  <2>3. \A f : In(task[p].frm_lst, f)' => f = h \/ In(task[p].frm_lst, f)
    <3>1. h \in Nat
      BY FramesAssumption, Sizes DEF RamFrameNumbers
    <3>2. \A f : In(<<h>> \o task[p].frm_lst, f) <=> f = h \/ In(task[p].frm_lst, f)
      BY <1>1, <3>1, Push
    <3> QED  BY <2>1, <3>2 DEF In
  <2>4. OwnFrames(p)'
    BY <1>3, <2>1, <2>3 DEF OwnFrames
  <2>5. Distinct(ramFree)'
    BY <2>1 DEF Distinct
  <2>6. \A f \in RamFrameNumbers :
           In(ramFree, f)' <=> ~\E q \in Processes, x \in Pages : Maps(q, x, f)'
    BY <1>3, <2>1, <2>2
  <2> QED  BY <1>3, <2>1, <2>4, <2>5, <2>6
<1>6. CASE MapPage(p)
  <2>1. PICK h \in RamFrameNumbers, page \in Pages :
           /\ ramFree' = ramFree
           /\ \E x \in Pages : Maps(p, x, h)
           /\ \A q \in Processes, x \in Pages : \A f :
                 Maps(q, x, f)' <=> Maps(q, x, f) \/ (q = p /\ x = page /\ f = h)
           /\ \A f : In(task'[p].frm_lst, f) => In(task[p].frm_lst, f)
    BY <1>2, <1>6, RamMapped
  <2>2. OwnFrames(p)'
    BY <1>3, <2>1 DEF OwnFrames, In
  <2>3. Distinct(ramFree)' /\ \A f : In(ramFree, f)' <=> In(ramFree, f)
    BY <1>3, <2>1 DEF Distinct, In
  <2> QED  BY <1>3, <2>1, <2>2, <2>3
<1> QED  BY <1>2, <1>4, <1>5, <1>6, RamCases

(***************************************************************************)
(* While vm_map_ram alone is called, every frame of the RAM is free once   *)
(* or mapped, by one process only, also between and after the two passes   *)
(* over the pages and after a call that found too few frames.              *)
(***************************************************************************)
THEOREM RamIsShared == Spec => []RamIsPartitioned
<1>1. Init => RamInv
  <2> SUFFICES ASSUME Init PROVE RamInv
    OBVIOUS
  <2>1. RamFrames \in Nat
    BY FramesAssumption, Sizes
  <2>2. \A q \in Processes, x \in Pages : \A f : ~Maps(q, x, f)
    BY DEF Init, ClearedPte, Maps, Online
  <2>3. \A p \in Processes : \A f : ~In(task[p].frm_lst, f)
    BY DEF Init, NoTask, In
  <2> QED  BY <2>1, <2>2, <2>3, FormattedList DEF Init, RamInv, RamFrameNumbers, OwnFrames
<1>2. Inv /\ RamInv /\ [Next]_vars => RamInv'
  <2>1. ASSUME RamInv, UNCHANGED vars PROVE RamInv'
    BY <2>1 DEF vars, tables, lists, RamInv, OwnFrames, Distinct, In, Maps, Online
  <2> QED  BY <2>1, RamStep DEF Next
<1>3. RamInv => RamIsPartitioned
  <2> SUFFICES ASSUME RamInv, calls = {"map"}, NEW f \in 0..(RamFrames - 1)
               PROVE  /\ Once(ramFree, f)
                      /\ In(ramFree, f) <=> MappedTo(f) = {}
                      /\ \A x, y \in MappedTo(f) : x[1] = y[1]
    BY DEF RamIsPartitioned
  <2>1. \A z \in Processes \X Pages : z \in MappedTo(f) <=> Maps(z[1], z[2], f)
    BY DEF MappedTo, Maps
  <2>2. MappedTo(f) \subseteq Processes \X Pages
    BY DEF MappedTo
  <2>3. MappedTo(f) = {} <=> ~\E q \in Processes, x \in Pages : Maps(q, x, f)
    <3>1. ASSUME NEW q \in Processes, NEW x \in Pages, Maps(q, x, f) PROVE MappedTo(f) # {}
      <4>1. <<q, x>> \in MappedTo(f)
        BY <3>1 DEF MappedTo, Maps
      <4> QED  BY <4>1
    <3>2. ASSUME NEW z \in MappedTo(f)
          PROVE  \E q \in Processes, x \in Pages : Maps(q, x, f)
      BY <2>1, <2>2
    <3> QED  BY <3>1, <3>2
  <2>4. \A x, y \in MappedTo(f) : x[1] = y[1]
    BY <2>1, <2>2 DEF RamInv, RamFrameNumbers
  <2> QED  BY <2>3, <2>4 DEF RamInv, RamFrameNumbers, Distinct, Once
<1> QED  BY <1>1, <1>2, <1>3, Invariance, PTL DEF Spec, Safety
-----------------------------------------------------------------------------
(* The lists of free frames, as FramePool states them.                     *)

\* The processes that map each frame of the RAM.
RamUsers ==
    [f \in RamFrameNumbers |->
        IF calls = {"map"} THEN {q \in Processes : \E x \in Pages : Maps(q, x, f)} ELSE {}]

\* Calls that take frames of the RAM for other purposes are not observed.
RamPool == INSTANCE FramePool WITH
              NumFrames <- RamFrames,
              Users <- Processes,
              free <- IF calls = {"map"} THEN ramFree ELSE MEMPHY_format(RamFrames),
              users <- RamUsers

\* The pages in each frame of swap.
SwapUsers ==
    [f \in 0..(SwapFrames - 1) |-> IF "free" \in calls THEN {} ELSE SwappedTo(f)]

\* After free_pcb_memph nothing is promised.
SwapPool == INSTANCE FramePool WITH
               NumFrames <- SwapFrames,
               Users <- Processes \X Pages,
               free <- IF "free" \in calls THEN MEMPHY_format(SwapFrames) ELSE swapFree,
               users <- SwapUsers

\* Only the head of the list of the RAM changes hands, from nobody to one
\* process; the second pass of vm_map_ram changes nobody's frames.
LEMMA RamPoolStep ==
    ASSUME Inv, NEW p \in Processes, Call(p) \/ Step(p), RamInv
    PROVE  [RamPool!PoolNext]_(RamPool!poolVars)
<1> USE DEF RamPool!PoolNext, RamPool!Take, RamPool!poolVars
<1>1. calls' = calls
  BY StepFrame DEF Frame
<1>2. CASE calls # {"map"}
  <2>1. RamUsers' = RamUsers
    BY <1>1, <1>2 DEF RamUsers
  <2> QED  BY <1>1, <1>2, <2>1
<1>3. CASE calls = {"map"} /\ UNCHANGED <<pgd, ramFree>>
  <2>1. RamUsers' = RamUsers
    BY <1>1, <1>3 DEF RamUsers, Maps, Online
  <2> QED  BY <1>1, <1>3, <2>1
<1>4. CASE calls = {"map"} /\ MapPage(p)
  <2>1. PICK h \in RamFrameNumbers, page \in Pages :
           /\ ramFree' = ramFree
           /\ \E x \in Pages : Maps(p, x, h)
           /\ \A q \in Processes, x \in Pages : \A f :
                 Maps(q, x, f)' <=> Maps(q, x, f) \/ (q = p /\ x = page /\ f = h)
    BY <1>4, RamMapped
  <2>2. \A f \in RamFrameNumbers, q \in Processes :
           (\E x \in Pages : Maps(q, x, f)') <=> (\E x \in Pages : Maps(q, x, f))
    BY <2>1
  <2>3. RamUsers' = RamUsers
    BY <1>1, <1>4, <2>2 DEF RamUsers
  <2> QED  BY <1>1, <1>4, <2>1, <2>3
<1>5. CASE calls = {"map"} /\ TakeRam(p)
  <2>1. PICK h \in RamFrameNumbers, page \in Pages :
           /\ ramFree # <<>> /\ h = Head(ramFree) /\ ramFree' = Tail(ramFree)
           /\ Distinct(Tail(ramFree)) /\ ~In(Tail(ramFree), h)
           /\ \A y : In(ramFree, y) <=> y = h \/ In(Tail(ramFree), y)
           /\ \A q \in Processes, x \in Pages : ~Maps(q, x, h)
           /\ \A q \in Processes, x \in Pages : \A f :
                 Maps(q, x, f)' <=> Maps(q, x, f) \/ (q = p /\ x = page /\ f = h)
           /\ task'[p].frm_lst = <<h>> \o task[p].frm_lst
    BY <1>5, RamTaken
  <2>2. \A f \in RamFrameNumbers, q \in Processes :
           (\E x \in Pages : Maps(q, x, f)')
             <=> IF f = h THEN q = p ELSE \E x \in Pages : Maps(q, x, f)
    BY <2>1
  <2>3. RamUsers' = [RamUsers EXCEPT ![h] = {p}]
    <3>1. \A f \in RamFrameNumbers :
             {q \in Processes : \E x \in Pages : Maps(q, x, f)'}
               = IF f = h THEN {p} ELSE {q \in Processes : \E x \in Pages : Maps(q, x, f)}
      BY <2>2
    <3> QED  BY <1>1, <1>5, <3>1 DEF RamUsers
  <2> QED  BY <1>1, <1>5, <2>1, <2>3
<1> QED  BY <1>2, <1>3, <1>4, <1>5, RamCases

(***************************************************************************)
(* MEMPHY_get_freefp hands the frames of the RAM out in the order of the   *)
(* list, each in one step to one process, as far as the page tables can    *)
(* tell: what is read under one mutex and written under another, and the   *)
(* two passes of vm_map_ram, look like one Take.                           *)
(***************************************************************************)
THEOREM RamImplementsPool == Spec => RamPool!PoolSafety
<1>1. Init => RamInv /\ RamPool!PoolInit
  <2> SUFFICES ASSUME Init PROVE RamInv /\ RamPool!PoolInit
    OBVIOUS
  <2>1. RamFrames \in Nat
    BY FramesAssumption, Sizes
  <2>2. \A q \in Processes, x \in Pages : \A f : ~Maps(q, x, f)
    BY DEF Init, ClearedPte, Maps, Online
  <2>3. \A p \in Processes : \A f : ~In(task[p].frm_lst, f)
    BY DEF Init, NoTask, In
  <2>4. RamInv
    BY <2>1, <2>2, <2>3, FormattedList DEF Init, RamInv, RamFrameNumbers, OwnFrames
  <2>5. RamUsers = [f \in RamFrameNumbers |-> {}]
    BY <2>2 DEF RamUsers
  <2> QED  BY <2>4, <2>5 DEF Init, MEMPHY_format, RamPool!PoolInit, RamFrameNumbers
<1>2. Inv /\ RamInv /\ [Next]_vars => RamInv' /\ [RamPool!PoolNext]_(RamPool!poolVars)
  <2>1. ASSUME RamInv, UNCHANGED vars
        PROVE  RamInv' /\ UNCHANGED RamPool!poolVars
    BY <2>1 DEF vars, tables, lists, RamInv, OwnFrames, Distinct, In, Maps, Online,
                RamPool!poolVars, RamUsers
  <2> QED  BY <2>1, RamStep, RamPoolStep DEF Next
<1> QED  BY <1>1, <1>2, Invariance, PTL DEF Spec, Safety, RamPool!PoolSafety

\* Only the head of the list of swap changes hands, from nobody to one page.
LEMMA SwapPoolStep ==
    ASSUME Inv, NEW p \in Processes, Call(p) \/ Step(p), SwapInv
    PROVE  [SwapPool!PoolNext]_(SwapPool!poolVars)
<1> USE DEF SwapPool!PoolNext, SwapPool!Take, SwapPool!poolVars
<1>1. calls' = calls
  BY StepFrame DEF Frame
<1>2. CASE "free" \in calls
  <2>1. SwapUsers' = SwapUsers
    BY <1>1, <1>2 DEF SwapUsers
  <2> QED  BY <1>1, <1>2, <2>1
<1>3. CASE "free" \notin calls /\ ~TakeSwap(p)
  <2>1. swapFree' = swapFree
    BY <1>3, SwapKept
  <2>2. SwapUsers' = SwapUsers
    <3>1. \A f : SwappedTo(f)' = SwappedTo(f)
      BY <1>3, SameSwapped
    <3> QED  BY <1>1, <1>3, <3>1 DEF SwapUsers
  <2> QED  BY <1>1, <1>3, <2>1, <2>2
<1>4. CASE "free" \notin calls /\ TakeSwap(p)
  <2> DEFINE h == Head(swapFree)
             z == <<p, task[p].vicpgn>>
  <2>1. /\ swapFree # <<>> /\ h \in 0..(SwapFrames - 1) /\ swapFree' = Tail(swapFree)
        /\ z \in Processes \X Pages
        /\ \A f : f = h => SwappedTo(f)' = {z}
        /\ \A f : f # h => SwappedTo(f)' = SwappedTo(f)
    BY <1>4, SwapTaken
  <2>2. SwapUsers' = [SwapUsers EXCEPT ![h] = {z}]
    <3> HIDE DEF h, z
    <3>1. \A f \in 0..(SwapFrames - 1) :
             SwappedTo(f)' = IF f = h THEN {z} ELSE SwappedTo(f)
      BY <2>1
    <3> QED  BY <1>1, <1>4, <3>1 DEF SwapUsers
  <2> QED  BY <1>1, <1>4, <2>1, <2>2
<1> QED  BY <1>2, <1>3, <1>4

(***************************************************************************)
(* As long as nobody calls free_pcb_memph, the frames of swap are handed   *)
(* out in the order of the list, each in one step to one page of one       *)
(* process, which keeps it: nothing that other processes do meanwhile is   *)
(* to be seen in the page tables.                                          *)
(***************************************************************************)
THEOREM SwapImplementsPool == Spec => SwapPool!PoolSafety
<1>1. Init => SwapInv /\ SwapPool!PoolInit
  <2> SUFFICES ASSUME Init PROVE SwapInv /\ SwapPool!PoolInit
    OBVIOUS
  <2>1. SwapFrames \in Nat
    BY FramesAssumption, Sizes
  <2>2. \A f : SwappedTo(f) = {}
    BY DEF Init, ClearedPte, SwappedTo
  <2>3. SwapInv
    BY <2>1, <2>2, FormattedList DEF Init, SwapInv
  <2>4. SwapUsers = [f \in 0..(SwapFrames - 1) |-> {}]
    BY <2>2 DEF SwapUsers
  <2> QED  BY <2>3, <2>4 DEF Init, MEMPHY_format, SwapPool!PoolInit
<1>2. Inv /\ SwapInv /\ [Next]_vars => SwapInv' /\ [SwapPool!PoolNext]_(SwapPool!poolVars)
  <2>1. ASSUME SwapInv, UNCHANGED vars
        PROVE  SwapInv' /\ UNCHANGED SwapPool!poolVars
    <3>1. calls' = calls /\ swapFree' = swapFree /\ pgd' = pgd
      BY <2>1 DEF vars, tables, lists
    <3>2. \A f : SwappedTo(f)' = SwappedTo(f)
      BY <3>1 DEF SwappedTo
    <3> QED  BY <2>1, <3>1, <3>2 DEF SwapInv, Distinct, In, SwapPool!poolVars, SwapUsers
  <2> QED  BY <2>1, SwapStep, SwapPoolStep DEF Next
<1> QED  BY <1>1, <1>2, Invariance, PTL DEF Spec, Safety, SwapPool!PoolSafety

(***************************************************************************)
(* Under the same conditions the frames below some number are held, by one *)
(* process or one page each, and the free ones follow in the list without  *)
(* a gap: no call loses a frame, not even one that fails.                  *)
(***************************************************************************)
THEOREM FramesAreTakenInOrder == Spec => [](RamPool!TakenInOrder /\ SwapPool!TakenInOrder)
<1>1. RamFrames \in Nat /\ SwapFrames \in Nat
  BY FramesAssumption, Sizes
<1>2. RamPool!PoolSafety => []RamPool!TakenInOrder
  BY <1>1, RamPool!FramesInOrder
<1>3. SwapPool!PoolSafety => []SwapPool!TakenInOrder
  BY <1>1, SwapPool!FramesInOrder
<1> QED  BY <1>2, <1>3, RamImplementsPool, SwapImplementsPool, PTL
=============================================================================
