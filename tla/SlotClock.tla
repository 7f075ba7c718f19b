----------------------------- MODULE SlotClock -----------------------------
(***************************************************************************)
(* What timer.c promises the threads that use it: a slotted clock.  Every  *)
(* attached device works in the current slot until it calls next_slot      *)
(* (Arrive) or detach_event (Detach); the slot number advances only when   *)
(* no device is still working in the slot (Tick), and that one step        *)
(* releases every device that arrived.  The clock stops (Halt) only when   *)
(* all devices have detached.                                              *)
(*                                                                         *)
(* SlotTimer.tla models the mutexes and condition variables of timer.c and *)
(* is shown to implement this module; OsSim.tla builds the CPU and loader  *)
(* threads on top of it.                                                   *)
(***************************************************************************)
EXTENDS Naturals

CONSTANTS
    Devices,    \* the struct timer_id_t handles that attach_event returned
    Horizon     \* bound: the slot number is counted up to here and then stays

VARIABLES
    time,       \* _time, the number of the current slot
    dev,        \* what each device is doing in the slot
    running     \* the timer thread has not left timer_routine

clockVars == <<time, dev, running>>

Status == {"working", "waiting", "detached"}

\* The state of the clock, as the threads that use it see it.
ClockTypeOK ==
    /\ time \in 0..Horizon
    /\ dev \in [Devices -> Status]
    /\ running \in BOOLEAN

AllIn(S) == \A d \in Devices : dev[d] \in S

(***************************************************************************)
(* The slot number is only ever compared with the start times of the       *)
(* processes, so it need not be counted beyond the latest of them.         *)
(***************************************************************************)
Advance(t) == IF t < Horizon THEN t + 1 ELSE t

ClockInit ==
    /\ time = 0
    /\ dev = [d \in Devices |-> "working"]
    /\ running = TRUE

\* next_slot: the device reports that it is done with the slot and blocks.
Arrive(d) ==
    /\ dev[d] = "working"
    /\ dev' = [dev EXCEPT ![d] = "waiting"]
    /\ UNCHANGED <<time, running>>

\* detach_event: the device takes no further part in any slot.
Detach(d) ==
    /\ dev[d] = "working"
    /\ dev' = [dev EXCEPT ![d] = "detached"]
    /\ UNCHANGED <<time, running>>

\* _time++ and the release of every device that waits for the next slot.
Tick ==
    /\ running
    /\ AllIn({"waiting", "detached"})
    /\ time' = Advance(time)
    /\ dev' = [d \in Devices |->
                  IF dev[d] = "waiting" THEN "working" ELSE dev[d]]
    /\ UNCHANGED running

\* The timer thread leaves its loop.
Halt ==
    /\ running
    /\ AllIn({"detached"})
    /\ running' = FALSE
    /\ UNCHANGED <<time, dev>>

ClockNext ==
    \/ \E d \in Devices : Arrive(d) \/ Detach(d)
    \/ Tick
    \/ Halt

ClockSafety == ClockInit /\ [][ClockNext]_clockVars

(***************************************************************************)
(* The timer never stalls a full slot: once nobody works, it ticks or      *)
(* halts.  Nothing is promised about the devices, which may work for ever. *)
(***************************************************************************)
ClockFairness == WF_clockVars(Tick \/ Halt)
=============================================================================
