-------------------------- MODULE SlotTimerProofs --------------------------
(***************************************************************************)
(* Proofs about SlotTimer, for every number of devices: the type           *)
(* invariant, the absence of lost wake-ups and of a race on done, and the  *)
(* refinement of SlotClock (safety part).                                  *)
(***************************************************************************)
EXTENDS SlotTimer, TLAPS

USE NAssumption, HorizonIsNat

(***************************************************************************)
(* What the control state of a device says about its flags.                *)
(***************************************************************************)
DeviceInv(d) ==
    /\ fsh[d] = 1 <=> dpc[d] = "exited"
    /\ dpc[d] \in {"work", "post", "leave", "exited"} => done[d] = 0
    /\ dpc[d] = "sleep" => done[d] = 1

(***************************************************************************)
(* While the timer collects the slot, the devices before cursor have       *)
(* reported, and the count of detached ones is no more than their number.  *)
(***************************************************************************)
ScanInv ==
    tpc \in {"scan", "poll", "sleep"} =>
        /\ \A d \in Devices : d < cursor => Reported(d)
        /\ nfsh <= cursor - 1
        /\ nfsh = cursor - 1 => \A d \in Devices : d < cursor => fsh[d] = 1

(***************************************************************************)
(* While it releases the slot, the devices from cursor on still carry      *)
(* their report, and fsh == event only if all have detached.               *)
(***************************************************************************)
ReleaseInv ==
    tpc \in {"release", "clear"} =>
        /\ \A d \in Devices : d >= cursor => Reported(d)
        /\ nfsh = N => \A d \in Devices : fsh[d] = 1

TimerInv ==
    /\ tpc \in {"poll", "sleep", "clear"} => cursor \in Devices
    /\ tpc = "sleep" => ~Reported(cursor)
    /\ tpc = "exited" => \A d \in Devices : fsh[d] = 1
    /\ timerStop = 1 => \A d \in Devices : dpc[d] = "exited"

\* The inductive invariant.
Inv ==
    /\ TypeOK
    /\ \A d \in Devices : DeviceInv(d)
    /\ ScanInv
    /\ ReleaseInv
    /\ TimerInv

LEMMA InitInv == Init => Inv
  BY DEF Init, Inv, TypeOK, DeviceInv, ScanInv, ReleaseInv, TimerInv, Devices,
         DeviceStates, TimerStates, MainStates

(***************************************************************************)
(* One lemma per thread: its steps preserve the inductive invariant.       *)
(***************************************************************************)
LEMMA DeviceStep ==
  ASSUME Inv, NEW e \in Devices, Device(e)
  PROVE  Inv'
<1> USE DEF Inv, TypeOK, DeviceInv, ScanInv, ReleaseInv, TimerInv, Devices,
        DeviceStates, TimerStates, MainStates, Reported, Goto, timerVars,
        EventHeld, TimerHeld
<1>1. CASE NextSlot(e)
  BY <1>1 DEF NextSlot
<1>2. CASE Post(e)
  BY <1>2 DEF Post, SignalTimer
<1>3. CASE Arm(e)
  BY <1>3 DEF Arm
<1>4. CASE Test(e)
  BY <1>4 DEF Test, AfterTest
<1>5. CASE StartDetach(e)
  BY <1>5 DEF StartDetach
<1>6. CASE Leave(e)
  BY <1>6 DEF Leave, SignalTimer
<1>7. CASE SpuriousDevice(e)
  BY <1>7 DEF SpuriousDevice
<1>q. QED
  BY <1>1, <1>2, <1>3, <1>4, <1>5, <1>6, <1>7 DEF Device

LEMMA TimerStep ==
  ASSUME Inv, Timer
  PROVE  Inv'
<1> USE DEF Inv, TypeOK, DeviceInv, ScanInv, ReleaseInv, TimerInv, Devices,
        DeviceStates, TimerStates, MainStates, Reported
<1>1. CASE StartScan
  BY <1>1 DEF StartScan
<1>2. CASE ScanLock
  BY <1>2 DEF ScanLock
<1>3. CASE PollWait
  BY <1>3 DEF PollWait
<1>4. CASE PollDone
  BY <1>4 DEF PollDone
<1>5. CASE SpuriousTimer
  BY <1>5 DEF SpuriousTimer
<1>6. CASE AdvanceTime
  BY <1>6 DEF AdvanceTime, Advance
<1>7. CASE ReleaseLock
  BY <1>7 DEF ReleaseLock
<1>8. CASE Clear
  BY <1>8 DEF Clear, SignalDevice
<1>9. CASE EndRelease
  BY <1>9 DEF EndRelease, AllFinished
<1>q. QED
  BY <1>1, <1>2, <1>3, <1>4, <1>5, <1>6, <1>7, <1>8, <1>9 DEF Timer

LEMMA NextInv == Inv /\ [Next]_vars => Inv'
<1> SUFFICES ASSUME Inv, [Next]_vars
             PROVE  Inv'
  OBVIOUS
<1>1. CASE \E d \in Devices : Device(d)
  BY <1>1, DeviceStep
<1>2. CASE Timer
  BY <1>2, TimerStep
<1>3. CASE StopTimer
  BY <1>3 DEF StopTimer, timerVars, Inv, TypeOK, DeviceInv, ScanInv,
     ReleaseInv, TimerInv, MainStates, Reported
<1>4. CASE DestroyDevices
  BY <1>4 DEF DestroyDevices, timerVars, Inv, TypeOK, DeviceInv, ScanInv,
     ReleaseInv, TimerInv, MainStates, Reported
<1>5. CASE UNCHANGED vars
  BY <1>5 DEF vars, timerVars, Inv, TypeOK, DeviceInv, ScanInv, ReleaseInv,
     TimerInv, Reported
<1>q. QED
  BY <1>1, <1>2, <1>3, <1>4, <1>5 DEF Next, Terminated

\* Inv is an invariant of timer.c.
THEOREM Invariance == Safety => []Inv
  BY InitInv, NextInv, PTL DEF Safety

-----------------------------------------------------------------------------

\* All variables keep their types: cursor never runs past the list and the
\* count of detached devices never past their number.
THEOREM TypeCorrect == Safety => []TypeOK
<1>1. Inv => TypeOK
  BY DEF Inv
<1>q. QED
  BY <1>1, Invariance, PTL

\* No thread of timer.c sleeps on a condition that already holds.
THEOREM WakeupsNotLost == Safety => []NoLostWakeup
<1>1. Inv => NoLostWakeup
  BY DEF Inv, DeviceInv, TimerInv, NoLostWakeup
<1>q. QED
  BY <1>1, Invariance, PTL

\* The device and the timer are never both about to write done.
THEOREM WritesDoNotRace == Safety => []NoWriteRace
<1>1. Inv => NoWriteRace
  <2> SUFFICES ASSUME Inv, NEW d \in Devices, dpc[d] = "post",
                      tpc = "clear", cursor = d
               PROVE  FALSE
    BY DEF NoWriteRace
  <2>1. done[d] = 0 /\ fsh[d] # 1
    BY DEF Inv, DeviceInv
  <2>2. d >= cursor
    BY DEF Devices
  <2>3. Reported(d)
    BY <2>2 DEF Inv, ReleaseInv
  <2>q. QED
    BY <2>1, <2>3 DEF Reported
<1>q. QED
  BY <1>1, Invariance, PTL

-----------------------------------------------------------------------------
(* The slot number moves only when every device has reported.              *)

LEMMA AllReported ==
  ASSUME Inv, AdvanceTime
  PROVE  \A d \in Devices : Reported(d)
  BY DEF AdvanceTime, Inv, ScanInv, Devices

LEMMA TimeStable == Inv /\ [Next]_vars => (time' # time =>
                       \A d \in Devices : dpc[d] \notin {"work", "post", "leave"})
<1> SUFFICES ASSUME Inv, [Next]_vars, time' # time, NEW d \in Devices
             PROVE  dpc[d] \notin {"work", "post", "leave"}
  OBVIOUS
<1>1. AdvanceTime
  BY DEF Next, vars, Device, Timer, NextSlot, Post, Arm, Test, StartDetach,
     Leave, SpuriousDevice, StartScan, ScanLock, PollWait, PollDone,
     SpuriousTimer, ReleaseLock, Clear, EndRelease, StopTimer, DestroyDevices,
     Terminated
<1>2. Reported(d)
  BY <1>1, AllReported
<1>q. QED
  BY <1>2 DEF Reported, Inv, DeviceInv

\* current_time can be read without a lock by a device that works in a slot.
THEOREM TimeIsStableInSlot == Safety => TimeStableInSlot
  BY Invariance, TimeStable, PTL DEF Safety, TimeStableInSlot

-----------------------------------------------------------------------------
(* Refinement of the slotted clock: each thread's step is a step of the    *)
(* clock or leaves it unchanged.                                           *)

LEMMA InitRefines == Init => Clock!ClockInit
  BY DEF Init, Clock!ClockInit, DeviceStatus

LEMMA DeviceRefines ==
  ASSUME Inv, NEW e \in Devices, Device(e)
  PROVE  [Clock!ClockNext]_(Clock!clockVars)
<1> USE DEF DeviceStatus, PendingRelease, Clock!clockVars
<1>1. CASE Post(e)
  <2>1. ~PendingRelease(e) /\ done[e] = 0 /\ fsh[e] # 1
    BY <1>1 DEF Post, Inv, DeviceInv, ReleaseInv, Reported
  <2>2. /\ DeviceStatus(e) = "working"
        /\ DeviceStatus(e)' = "waiting"
        /\ \A d \in Devices \ {e} : DeviceStatus(d)' = DeviceStatus(d)
        /\ tpc' = "exited" <=> tpc = "exited"
    BY <1>1, <2>1 DEF Post, SignalTimer, Inv, TypeOK
  <2>3. Clock!Arrive(e)
    BY <1>1, <2>2 DEF Clock!Arrive, Post
  <2>q. QED
    BY <2>3 DEF Clock!ClockNext
<1>2. CASE Leave(e)
  <2>1. done[e] = 0 /\ fsh[e] # 1
    BY <1>2 DEF Leave, Inv, DeviceInv
  <2>2. /\ DeviceStatus(e) = "working"
        /\ DeviceStatus(e)' = "detached"
        /\ \A d \in Devices \ {e} : DeviceStatus(d)' = DeviceStatus(d)
        /\ tpc' = "exited" <=> tpc = "exited"
    BY <1>2, <2>1 DEF Leave, SignalTimer, Inv, TypeOK
  <2>3. Clock!Detach(e)
    BY <1>2, <2>2 DEF Clock!Detach, Leave
  <2>q. QED
    BY <2>3 DEF Clock!ClockNext
<1>3. CASE ~Post(e) /\ ~Leave(e)
  <2>1. UNCHANGED <<time, done, fsh, tpc, cursor>>
    BY <1>3 DEF Device, NextSlot, Arm, Test, StartDetach, SpuriousDevice,
       timerVars
  <2>2. UNCHANGED Clock!clockVars
    BY <2>1
  <2>q. QED
    BY <2>2
<1>q. QED
  BY <1>1, <1>2, <1>3

LEMMA TimerRefines ==
  ASSUME Inv, Timer
  PROVE  [Clock!ClockNext]_(Clock!clockVars)
<1> USE DEF DeviceStatus, PendingRelease, Clock!clockVars
<1>1. CASE AdvanceTime
  <2>1. \A d \in Devices : Reported(d)
    BY <1>1, AllReported
  <2>2. \A d \in Devices :
           /\ DeviceStatus(d) \in {"waiting", "detached"}
           /\ DeviceStatus(d)' = IF DeviceStatus(d) = "waiting"
                                   THEN "working" ELSE DeviceStatus(d)
    BY <1>1, <2>1 DEF AdvanceTime, Reported, Devices, Inv, TypeOK
  <2>3. Clock!Tick
    BY <1>1, <2>2 DEF AdvanceTime, Advance, Clock!Tick, Clock!AllIn,
       Clock!Advance
  <2>q. QED
    BY <2>3 DEF Clock!ClockNext
<1>2. CASE Clear
  <2>1. \A d \in Devices : DeviceStatus(d)' = DeviceStatus(d)
    BY <1>2 DEF Clear, Inv, TypeOK, TimerInv, Devices
  <2>q. QED
    BY <1>2, <2>1 DEF Clear
<1>3. CASE tpc # "exited" /\ tpc' = "exited"
  <2>1. StartScan \/ EndRelease
    BY <1>3 DEF Timer, ScanLock, PollWait, PollDone, SpuriousTimer,
       AdvanceTime, ReleaseLock, Clear
  <2>2. \A d \in Devices : fsh[d] = 1 /\ fsh'[d] = 1
    BY <1>3, <2>1 DEF StartScan, EndRelease, AllFinished, Inv, TypeOK,
       DeviceInv, ReleaseInv, TimerInv
  <2>3. Clock!Halt
    BY <1>3, <2>1, <2>2 DEF StartScan, EndRelease, Clock!Halt, Clock!AllIn
  <2>q. QED
    BY <2>3 DEF Clock!ClockNext
<1>4. CASE /\ ~AdvanceTime /\ ~Clear
           /\ ~(tpc # "exited" /\ tpc' = "exited")
  <2>1. UNCHANGED <<time, done, fsh>> /\ tpc # "exited" /\ tpc' # "exited"
    BY <1>4 DEF Timer, StartScan, ScanLock, PollWait, PollDone,
       SpuriousTimer, ReleaseLock, EndRelease
  <2>2. \A d \in Devices : PendingRelease(d)' <=> PendingRelease(d)
    BY <1>4 DEF Timer, StartScan, ScanLock, PollWait, PollDone,
       SpuriousTimer, ReleaseLock, EndRelease, Devices
  <2>q. QED
    BY <2>1, <2>2
<1>q. QED
  BY <1>1, <1>2, <1>3, <1>4

LEMMA NextRefines == Inv /\ [Next]_vars => [Clock!ClockNext]_(Clock!clockVars)
<1> SUFFICES ASSUME Inv, [Next]_vars
             PROVE  [Clock!ClockNext]_(Clock!clockVars)
  OBVIOUS
<1>1. CASE \E d \in Devices : Device(d)
  BY <1>1, DeviceRefines
<1>2. CASE Timer
  BY <1>2, TimerRefines
<1>3. CASE StopTimer \/ DestroyDevices \/ UNCHANGED vars
  BY <1>3 DEF StopTimer, DestroyDevices, vars, timerVars, Clock!clockVars,
     DeviceStatus, PendingRelease
<1>q. QED
  BY <1>1, <1>2, <1>3 DEF Next, Terminated

\* timer.c implements the slotted clock, for every number of devices.
THEOREM TimerImplementsClock == Safety => ImplementsClock
  BY InitRefines, NextRefines, Invariance, PTL
     DEF Safety, ImplementsClock, Clock!ClockSafety
=============================================================================
