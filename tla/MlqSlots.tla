------------------------------ MODULE MlqSlots ------------------------------
(***************************************************************************)
(* MlqScheduler with a history variable that counts the turns of a level,  *)
(* to compare get_mlq_proc with the slot policy that its comment states.   *)
(***************************************************************************)
EXTENDS MlqScheduler

VARIABLE turns      \* per level: consecutive gets that left a lower level waiting

slotVars == <<vars, turns>>

SlotInit == Init /\ turns = [l \in Levels |-> 0]

\* A process of a level below l waits.
LowerWaits(l) == \E m \in Levels : m > l /\ ~Empty(mlq[m])

\* get_proc served level l: it used one of its slots if others had to wait.
CountTurn(l) ==
    turns' = [m \in Levels |->
                 IF m # l \/ ~LowerWaits(l) THEN 0
                 ELSE IF turns[m] <= MAX_PRIO THEN turns[m] + 1 ELSE turns[m]]

\* get_proc returned a process to c.
Served(c) == held[c] = NULL /\ held'[c] # NULL

SlotNext ==
    /\ Next
    /\ \/ \E c \in CPUs : Served(c) /\ CountTurn(prio[held'[c]])
       \/ (\A c \in CPUs : ~Served(c)) /\ UNCHANGED turns

SlotSafety == SlotInit /\ [][SlotNext]_slotVars

(***************************************************************************)
(* sched.c states the policy as the states prio = 0 .. MAX_PRIO with       *)
(* curr_slot = 0 .. (MAX_PRIO - prio), and init_scheduler sets the slot of *)
(* level i to MAX_PRIO - i: a level has that many turns, and then a lower  *)
(* level that waits is served.                                             *)
(***************************************************************************)
SlotBudget == \A l \in Levels : turns[l] <= MAX_PRIO - l
=============================================================================
