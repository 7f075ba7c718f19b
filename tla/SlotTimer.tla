----------------------------- MODULE SlotTimer -----------------------------
(***************************************************************************)
(* timer.c in detail: the timer thread, the device threads that call       *)
(* next_slot and detach_event, and the main thread that calls stop_timer.  *)
(*                                                                         *)
(* Each device has two mutexes and two condition variables.  event_lock    *)
(* guards the report of the device to the timer, timer_lock its release by *)
(* the timer, and the flag done is written under BOTH: set to 1 by the     *)
(* device under event_lock and reset to 0 by the timer under timer_lock.   *)
(* Every critical section is split into the step that acquires the mutex   *)
(* and the step that does the work and releases it, so that a second       *)
(* thread can run between the two.                                         *)
(***************************************************************************)
EXTENDS Naturals

CONSTANTS
    N,          \* number of attached devices
    Horizon     \* bound on the slot number, see SlotClock

ASSUME NAssumption == N \in Nat \ {0}
ASSUME HorizonIsNat == Horizon \in Nat

VARIABLES
    time,       \* _time
    done,       \* timer_id_t.done of each device
    fsh,        \* timer_id_t.fsh of each device
    dpc,        \* control state of each device thread
    tpc,        \* control state of the timer thread
    cursor,     \* position of temp in dev_list; N + 1 is NULL
    nfsh,       \* the local fsh of timer_routine: detached devices counted
    timerStop,  \* timer_stop
    mpc         \* control state of the main thread

timerVars == <<tpc, cursor, nfsh>>
vars == <<time, done, fsh, dpc, timerVars, timerStop, mpc>>

Devices == 1..N     \* in the order of dev_list

(***************************************************************************)
(* Device threads: "work" runs the body of the slot, "post" holds          *)
(* event_lock in next_slot, "armed" wants timer_lock, "test" holds it and  *)
(* looks at done, "sleep" is in pthread_cond_wait on timer_cond, "leave"   *)
(* holds event_lock in detach_event, "exited" has returned from it.        *)
(***************************************************************************)
DeviceStates == {"work", "post", "armed", "test", "sleep", "leave", "exited"}

(***************************************************************************)
(* Timer thread: "loop" is the test of timer_stop, "scan" wants event_lock *)
(* of the device at cursor, "poll" holds it, "sleep" is in                 *)
(* pthread_cond_wait on its event_cond, "release" wants timer_lock of the  *)
(* device at cursor, "clear" holds it, "exited" has called pthread_exit.   *)
(***************************************************************************)
TimerStates == {"loop", "scan", "poll", "sleep", "release", "clear", "exited"}

\* Main: "join" joins the device threads, "stopping" the timer thread in
\* stop_timer, "freed" has destroyed the devices.
MainStates == {"join", "stopping", "freed"}

\* Types of all variables.
TypeOK ==
    /\ time \in 0..Horizon
    /\ done \in [Devices -> {0, 1}]
    /\ fsh \in [Devices -> {0, 1}]
    /\ dpc \in [Devices -> DeviceStates]
    /\ tpc \in TimerStates
    /\ cursor \in 1..(N + 1)
    /\ nfsh \in 0..N
    /\ timerStop \in {0, 1}
    /\ mpc \in MainStates

Init ==
    /\ time = 0
    /\ done = [d \in Devices |-> 0]
    /\ fsh = [d \in Devices |-> 0]
    /\ dpc = [d \in Devices |-> "work"]
    /\ tpc = "loop"
    /\ cursor = 1
    /\ nfsh = 0
    /\ timerStop = 0
    /\ mpc = "join"

-----------------------------------------------------------------------------
(* Mutexes.  A thread owns a mutex exactly between its two steps.          *)

EventHeld(d) == dpc[d] \in {"post", "leave"} \/ (tpc = "poll" /\ cursor = d)

TimerHeld(d) == dpc[d] = "test" \/ (tpc = "clear" /\ cursor = d)

Goto(d, s) == dpc' = [dpc EXCEPT ![d] = s]

\* Faulty variant: the report is not signalled.
SignalTimerMissing(d) == UNCHANGED timerVars

(***************************************************************************)
(* pthread_cond_signal(&event_cond) by the owner of event_lock of d: the   *)
(* timer, if it sleeps there, wakes and must acquire event_lock again.     *)
(***************************************************************************)
SignalTimer(d) ==
    /\ tpc' = IF tpc = "sleep" /\ cursor = d THEN "scan" ELSE tpc
    /\ UNCHANGED <<cursor, nfsh>>

\* Faulty variant: the release is not signalled.
SignalDeviceMissing(d) == UNCHANGED dpc

(***************************************************************************)
(* pthread_cond_signal(&timer_cond): the device, if it sleeps, wakes and   *)
(* must acquire timer_lock again.                                          *)
(***************************************************************************)
SignalDevice(d) ==
    dpc' = IF dpc[d] = "sleep" THEN [dpc EXCEPT ![d] = "armed"] ELSE dpc

-----------------------------------------------------------------------------
(* Device threads.                                                         *)

\* next_slot: pthread_mutex_lock(&event_lock).
NextSlot(d) ==
    /\ dpc[d] = "work"
    /\ ~EventHeld(d)
    /\ Goto(d, "post")
    /\ UNCHANGED <<time, done, fsh, timerVars, timerStop, mpc>>

\* next_slot: done = 1, signal event_cond, unlock.
Post(d) ==
    /\ dpc[d] = "post"
    /\ done' = [done EXCEPT ![d] = 1]
    /\ SignalTimer(d)
    /\ Goto(d, "armed")
    /\ UNCHANGED <<time, fsh, timerStop, mpc>>

\* next_slot: acquire timer_lock, first time or on return from the wait.
Arm(d) ==
    /\ dpc[d] = "armed"
    /\ ~TimerHeld(d)
    /\ Goto(d, "test")
    /\ UNCHANGED <<time, done, fsh, timerVars, timerStop, mpc>>

\* Where the while loop of next_slot goes: wait again or return.
AfterTest(d) == IF done[d] = 1 THEN "sleep" ELSE "work"

\* next_slot: while (done) wait; both outcomes release timer_lock.
Test(d) ==
    /\ dpc[d] = "test"
    /\ Goto(d, AfterTest(d))
    /\ UNCHANGED <<time, done, fsh, timerVars, timerStop, mpc>>

\* detach_event: pthread_mutex_lock(&event_lock).
StartDetach(d) ==
    /\ dpc[d] = "work"
    /\ ~EventHeld(d)
    /\ Goto(d, "leave")
    /\ UNCHANGED <<time, done, fsh, timerVars, timerStop, mpc>>

\* Faulty variant: detach_event does not signal the timer.
LeaveSilently(d) ==
    /\ dpc[d] = "leave"
    /\ fsh' = [fsh EXCEPT ![d] = 1]
    /\ Goto(d, "exited")
    /\ UNCHANGED <<time, done, timerVars, timerStop, mpc>>

\* detach_event: fsh = 1, signal event_cond, unlock; the thread exits.
Leave(d) ==
    /\ dpc[d] = "leave"
    /\ fsh' = [fsh EXCEPT ![d] = 1]
    /\ SignalTimer(d)
    /\ Goto(d, "exited")
    /\ UNCHANGED <<time, done, timerStop, mpc>>

\* Faulty variant: next_slot waits under an if and does not test done again.
SpuriousDeviceReturns(d) ==
    /\ dpc[d] = "sleep"
    /\ Goto(d, "work")
    /\ UNCHANGED <<time, done, fsh, timerVars, timerStop, mpc>>

\* POSIX lets pthread_cond_wait return without a signal.
SpuriousDevice(d) ==
    /\ dpc[d] = "sleep"
    /\ Goto(d, "armed")
    /\ UNCHANGED <<time, done, fsh, timerVars, timerStop, mpc>>

Device(d) ==
    \/ NextSlot(d) \/ Post(d) \/ Arm(d) \/ Test(d)
    \/ StartDetach(d) \/ Leave(d) \/ SpuriousDevice(d)

-----------------------------------------------------------------------------
(* The timer thread.                                                       *)

\* Faulty variant: the count of finished devices is not reset.
StartScanNoReset ==
    /\ tpc = "loop"
    /\ tpc' = IF timerStop = 1 THEN "exited" ELSE "scan"
    /\ cursor' = 1
    /\ UNCHANGED <<time, done, fsh, dpc, nfsh, timerStop, mpc>>

\* while (!timer_stop): leave, or start to collect the devices of the slot.
StartScan ==
    /\ tpc = "loop"
    /\ tpc' = IF timerStop = 1 THEN "exited" ELSE "scan"
    /\ cursor' = 1
    /\ nfsh' = 0
    /\ UNCHANGED <<time, done, fsh, dpc, timerStop, mpc>>

ScanLock ==
    /\ tpc = "scan"
    /\ cursor \in Devices
    /\ ~EventHeld(cursor)
    /\ tpc' = "poll"
    /\ UNCHANGED <<time, done, fsh, dpc, cursor, nfsh, timerStop, mpc>>

\* The device at cursor needs no further wait in this slot.
Reported(d) == done[d] = 1 \/ fsh[d] = 1

\* while (!done && !fsh) wait: pthread_cond_wait releases event_lock.
PollWait ==
    /\ tpc = "poll"
    /\ ~Reported(cursor)
    /\ tpc' = "sleep"
    /\ UNCHANGED <<time, done, fsh, dpc, cursor, nfsh, timerStop, mpc>>

\* Count a detached device, unlock and go to the next one.
PollDone ==
    /\ tpc = "poll"
    /\ Reported(cursor)
    /\ nfsh' = nfsh + fsh[cursor]
    /\ cursor' = cursor + 1
    /\ tpc' = "scan"
    /\ UNCHANGED <<time, done, fsh, dpc, timerStop, mpc>>

\* Faulty variant: the timer waits under an if and goes on to the next device.
SpuriousTimerSkips ==
    /\ tpc = "sleep"
    /\ tpc' = "scan"
    /\ cursor' = cursor + 1
    /\ UNCHANGED <<time, done, fsh, dpc, nfsh, timerStop, mpc>>

SpuriousTimer ==
    /\ tpc = "sleep"
    /\ tpc' = "scan"
    /\ UNCHANGED <<time, done, fsh, dpc, cursor, nfsh, timerStop, mpc>>

Advance(t) == IF t < Horizon THEN t + 1 ELSE t

\* _time++, between the two loops over dev_list.
AdvanceTime ==
    /\ tpc = "scan"
    /\ cursor = N + 1
    /\ time' = Advance(time)
    /\ tpc' = "release"
    /\ cursor' = 1
    /\ UNCHANGED <<done, fsh, dpc, nfsh, timerStop, mpc>>

ReleaseLock ==
    /\ tpc = "release"
    /\ cursor \in Devices
    /\ ~TimerHeld(cursor)
    /\ tpc' = "clear"
    /\ UNCHANGED <<time, done, fsh, dpc, cursor, nfsh, timerStop, mpc>>

\* done = 0, signal timer_cond, unlock timer_lock.
Clear ==
    /\ tpc = "clear"
    /\ done' = [done EXCEPT ![cursor] = 0]
    /\ SignalDevice(cursor)
    /\ cursor' = cursor + 1
    /\ tpc' = "release"
    /\ UNCHANGED <<time, fsh, nfsh, timerStop, mpc>>

\* Faulty variant: one finished device is enough.
SomeFinished == nfsh > 0

\* fsh == event: every device was detached when the slot was collected.
AllFinished == nfsh = N

EndRelease ==
    /\ tpc = "release"
    /\ cursor = N + 1
    /\ tpc' = IF AllFinished THEN "exited" ELSE "loop"
    /\ UNCHANGED <<time, done, fsh, dpc, cursor, nfsh, timerStop, mpc>>

Timer ==
    \/ StartScan \/ ScanLock \/ PollWait \/ PollDone \/ SpuriousTimer
    \/ AdvanceTime \/ ReleaseLock \/ Clear \/ EndRelease

-----------------------------------------------------------------------------
(* The main thread: os.c joins all devices, then calls stop_timer.         *)

StopTimer ==
    /\ mpc = "join"
    /\ \A d \in Devices : dpc[d] = "exited"
    /\ timerStop' = 1
    /\ mpc' = "stopping"
    /\ UNCHANGED <<time, done, fsh, dpc, timerVars>>

\* pthread_join(_timer) returns; the mutexes are destroyed and freed.
DestroyDevices ==
    /\ mpc = "stopping"
    /\ tpc = "exited"
    /\ mpc' = "freed"
    /\ UNCHANGED <<time, done, fsh, dpc, timerVars, timerStop>>

Terminated == mpc = "freed" /\ UNCHANGED vars

Next ==
    \/ \E d \in Devices : Device(d)
    \/ Timer
    \/ StopTimer
    \/ DestroyDevices
    \/ Terminated

(***************************************************************************)
(* Fairness.  A thread that can run does run (WF).  The four lock          *)
(* acquisitions get SF: a mutex that is released again and again is not    *)
(* withheld from its other contender for ever.  A device may work for ever *)
(* in a slot, so NextSlot and StartDetach have none, nor have spurious     *)
(* wake-ups: progress never relies on them.                                *)
(***************************************************************************)
Fairness ==
    /\ \A d \in Devices :
          /\ WF_vars(Post(d)) /\ WF_vars(Test(d)) /\ WF_vars(Leave(d))
          /\ SF_vars(Arm(d))
    /\ WF_vars(StartScan) /\ WF_vars(PollWait) /\ WF_vars(PollDone)
    /\ WF_vars(AdvanceTime) /\ WF_vars(Clear) /\ WF_vars(EndRelease)
    /\ SF_vars(ScanLock) /\ SF_vars(ReleaseLock)
    /\ WF_vars(StopTimer) /\ WF_vars(DestroyDevices)

Safety == Init /\ [][Next]_vars

Spec == Safety /\ Fairness

-----------------------------------------------------------------------------
(* Properties.                                                             *)

(***************************************************************************)
(* No wake-up is lost: a device sleeps on timer_cond only while done is    *)
(* still set, and the timer sleeps on event_cond only while the device at  *)
(* cursor has neither reported nor detached.  Each flag is tested and      *)
(* signalled under one mutex, but done is written under both.              *)
(***************************************************************************)
NoLostWakeup ==
    /\ \A d \in Devices : dpc[d] = "sleep" => done[d] = 1
    /\ tpc = "sleep" => ~Reported(cursor)

(***************************************************************************)
(* The two writers of done never meet: while a device is inside the        *)
(* critical section that sets done (under event_lock) the timer is not     *)
(* inside the one that resets it (under timer_lock, a different mutex).    *)
(***************************************************************************)
NoWriteRace ==
    \A d \in Devices : dpc[d] = "post" => ~(tpc = "clear" /\ cursor = d)

(***************************************************************************)
(* Nobody is released before everybody arrived: the slot number that the   *)
(* loader reads without a lock does not move while some device is between  *)
(* two calls of next_slot.                                                 *)
(***************************************************************************)
TimeStableInSlot ==
    [][time' # time =>
          \A d \in Devices : dpc[d] \notin {"work", "post", "leave"}]_vars

\* The timer has ticked but has not yet reset done of d.
PendingRelease(d) == tpc \in {"release", "clear"} /\ cursor <= d

DeviceStatus(d) ==
    IF fsh[d] = 1 THEN "detached"
    ELSE IF done[d] = 1 /\ ~PendingRelease(d) THEN "waiting" ELSE "working"

Clock == INSTANCE SlotClock
           WITH dev <- [d \in Devices |-> DeviceStatus(d)],
                running <- (tpc # "exited")

(***************************************************************************)
(* timer.c implements the slotted clock: its two loops over the device     *)
(* list, with the mutexes and conditions, act as one atomic Tick, and the  *)
(* timer thread ends only when every device has detached.                  *)
(***************************************************************************)
ImplementsClock == Clock!ClockSafety

(***************************************************************************)
(* A full slot is never stalled: when every device has reported, the timer *)
(* gets past every mutex and condition and ticks, or ends.                 *)
(***************************************************************************)
FullSlotAdvances == Clock!ClockFairness

\* Every device has reported to the timer in this slot, or detached.
SlotFull == \A d \in Devices : DeviceStatus(d) # "working"

(***************************************************************************)
(* A device blocked in next_slot returns from it once the other devices    *)
(* have reported: no release is skipped and no signal is lost.             *)
(***************************************************************************)
ReleasedInTurn ==
    \A d \in Devices : SlotFull /\ DeviceStatus(d) = "waiting"
                         ~> dpc[d] = "work"

(***************************************************************************)
(* Once every device has detached, the timer thread leaves its loop and    *)
(* main gets through stop_timer.                                           *)
(***************************************************************************)
ShutdownCompletes == (\A d \in Devices : dpc[d] = "exited") ~> mpc = "freed"
=============================================================================
