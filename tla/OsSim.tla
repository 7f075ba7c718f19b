------------------------------- MODULE OsSim -------------------------------
(***************************************************************************)
(* The simulator of os.c: CPU threads (cpu_routine) and the loader thread  *)
(* (ld_routine) share the multi-level ready queue of sched.c (operators of *)
(* ReadyQueues) and run in the slots of timer.c (SlotClock, which          *)
(* SlotTimer implements).                                                  *)
(*                                                                         *)
(* A CPU action reaches from one access to shared state to the next: a     *)
(* get_proc or put_proc, the test of done, or run followed by next_slot.   *)
(* The call of next_slot is part of the action before it: it touches only  *)
(* the device of its caller, and no slot can end before it.                *)
(***************************************************************************)
EXTENDS ReadyQueues, SlotClock, FiniteSets

CONSTANTS
    CPUs,           \* the CPU threads, num_cpus of them
    Loader,         \* the loader thread
    NumProcs,       \* num_processes of the configuration
    Jobs,           \* the process descriptions to consider
    TimeSlot,       \* time_slot of the configuration
    MaxPriority     \* the largest default priority

Procs == 1..NumProcs        \* in the order of the configuration file

JobType ==
    [start : 0..Horizon, prio : Levels, priority : 0..MaxPriority, size : Nat]

ASSUME CPUsAssumption == CPUs # {} /\ Loader \notin CPUs
ASSUME DevicesAssumption == Devices = CPUs \cup {Loader}
ASSUME NumProcsAssumption == NumProcs \in Nat /\ NULL \notin Procs
ASSUME JobsAssumption == \A job \in Jobs : job \in [Procs -> JobType]
ASSUME TimeSlotAssumption == TimeSlot \in Nat \ {0}
ASSUME HorizonAssumption == Horizon \in Nat
ASSUME PriorityAssumption == MaxPriority \in Nat

VARIABLES
    job,            \* start_time, prio, priority and code->size of each process
    mlq,            \* mlq_ready_queue
    currentPrio,    \* static variable of get_mlq_proc
    pc,             \* control state of each CPU thread
    proc,           \* local proc of each CPU thread
    timeLeft,       \* local time_left of each CPU thread
    ppc,            \* pcb_t.pc of each process
    freed,          \* processes whose pcb_t was freed
    nloaded,        \* local i of ld_routine: processes given to add_proc
    doneLoading     \* the global done

schedVars == <<mlq, currentPrio>>
cpuVars == <<pc, proc, timeLeft>>
procVars == <<ppc, freed>>
ldVars == <<nloaded, doneLoading>>
vars == <<job, schedVars, cpuVars, procVars, ldVars, clockVars>>

(***************************************************************************)
(* "top" is the head of the loop, "reget" lies between put_proc or free    *)
(* and the get_proc that follows it, "check" is the recheck of proc and    *)
(* done, "exit" is behind the loop.                                        *)
(***************************************************************************)
CpuStates == {"top", "reget", "check", "exit"}

\* Types of all variables.
TypeOK ==
    /\ job \in [Procs -> JobType]
    /\ mlq \in [Levels -> Seq(Procs)]
    /\ currentPrio \in Levels
    /\ pc \in [CPUs -> CpuStates]
    /\ proc \in [CPUs -> Procs \cup {NULL}]
    /\ timeLeft \in [CPUs -> 0..TimeSlot]
    /\ ppc \in [Procs -> Nat]
    /\ freed \in SUBSET Procs
    /\ nloaded \in 0..NumProcs
    /\ doneLoading \in {0, 1}
    /\ ClockTypeOK

Init ==
    /\ job \in Jobs
    /\ mlq = EmptyMlq
    /\ currentPrio = 0
    /\ pc = [c \in CPUs |-> "top"]
    /\ proc = [c \in CPUs |-> NULL]
    /\ timeLeft = [c \in CPUs |-> 0]
    /\ ppc = [p \in Procs |-> 0]
    /\ freed = {}
    /\ nloaded = 0
    /\ doneLoading = 0
    /\ ClockInit

-----------------------------------------------------------------------------
(* The scheduler calls, each one critical section of queue_lock.           *)

Priority == [p \in Procs |-> job[p].priority]

\* What get_proc returns now, and the queues it leaves.
Got == GetMlqProc(mlq, currentPrio, Priority)

\* proc = get_proc()
GetProc(c) ==
    /\ proc' = [proc EXCEPT ![c] = Got.proc]
    /\ mlq' = Got.mlq
    /\ currentPrio' = Got.currentPrio

\* put_proc(p), add_proc(p)
PutProc(p) ==
    /\ mlq' = Insert(mlq, job[p].prio, p)
    /\ UNCHANGED currentPrio

-----------------------------------------------------------------------------
(* CPU threads.                                                            *)

\* The CPU is not blocked in next_slot and is at the given place.
At(c, s) == pc[c] = s /\ dev[c] = "working"

Goto(c, s) == pc' = [pc EXCEPT ![c] = s]

\* The process of the CPU has executed its last instruction.
AtEnd(c) == ppc[proc[c]] = job[proc[c]].size

\* No process, and get_proc returns none: next_slot, back to the loop head.
IdleSlot(c) ==
    /\ At(c, "top")
    /\ proc[c] = NULL
    /\ Got.proc = NULL
    /\ GetProc(c)
    /\ Arrive(c)
    /\ UNCHANGED <<job, pc, timeLeft, procVars, ldVars>>

\* No process, and get_proc returns one.
FirstLoad(c) ==
    /\ At(c, "top")
    /\ proc[c] = NULL
    /\ Got.proc # NULL
    /\ GetProc(c)
    /\ Goto(c, "check")
    /\ UNCHANGED <<job, timeLeft, procVars, ldVars, clockVars>>

\* Faulty variant: time_left is not reset.
KeepTimeLeft(c) == timeLeft[c]

\* time_left once the process of the CPU was freed.
AfterFree(c) == 0

\* Faulty variant: the CPU does not recheck its process after free.
FinishLoops(c) ==
    /\ At(c, "top")
    /\ proc[c] # NULL
    /\ AtEnd(c)
    /\ freed' = freed \cup {proc[c]}
    /\ timeLeft' = [timeLeft EXCEPT ![c] = AfterFree(c)]
    /\ Goto(c, "top")
    /\ proc' = [proc EXCEPT ![c] = NULL]
    /\ UNCHANGED <<job, schedVars, ppc, ldVars, clockVars>>

\* The process is at its end: free it, with what is left of its quantum.
Finish(c) ==
    /\ At(c, "top")
    /\ proc[c] # NULL
    /\ AtEnd(c)
    /\ freed' = freed \cup {proc[c]}
    /\ timeLeft' = [timeLeft EXCEPT ![c] = AfterFree(c)]
    /\ Goto(c, "reget")
    /\ UNCHANGED <<job, schedVars, proc, ppc, ldVars, clockVars>>

\* Faulty variant: no get_proc after put_proc, the CPU keeps its pointer.
YieldKeeps(c) ==
    /\ At(c, "top")
    /\ proc[c] # NULL
    /\ ~AtEnd(c)
    /\ timeLeft[c] = 0
    /\ PutProc(proc[c])
    /\ Goto(c, "check")
    /\ UNCHANGED <<job, proc, timeLeft, procVars, ldVars, clockVars>>

\* The quantum is used up: put the process back.
Yield(c) ==
    /\ At(c, "top")
    /\ proc[c] # NULL
    /\ ~AtEnd(c)
    /\ timeLeft[c] = 0
    /\ PutProc(proc[c])
    /\ Goto(c, "reget")
    /\ UNCHANGED <<job, proc, timeLeft, procVars, ldVars, clockVars>>

\* proc = get_proc(): up to here proc[c] points to a process given away.
Reget(c) ==
    /\ At(c, "reget")
    /\ GetProc(c)
    /\ Goto(c, "check")
    /\ UNCHANGED <<job, timeLeft, procVars, ldVars, clockVars>>

\* The process has quantum left.
Continue(c) ==
    /\ At(c, "top")
    /\ proc[c] # NULL
    /\ ~AtEnd(c)
    /\ timeLeft[c] # 0
    /\ Goto(c, "check")
    /\ UNCHANGED <<job, schedVars, proc, timeLeft, procVars, ldVars, clockVars>>

\* Faulty variant: the CPU stops whatever it has.
MayStopAnyway(c) == doneLoading = 1

\* When a CPU that found no process may leave its loop.
MayStop(c) == proc[c] = NULL /\ doneLoading = 1

\* No process and the loader is done: leave the loop, detach_event.
Stop(c) ==
    /\ At(c, "check")
    /\ MayStop(c)
    /\ Goto(c, "exit")
    /\ Detach(c)
    /\ UNCHANGED <<job, schedVars, proc, timeLeft, procVars, ldVars>>

\* No process, but there may be one in a later slot: next_slot.
SkipSlot(c) ==
    /\ At(c, "check")
    /\ proc[c] = NULL
    /\ ~MayStop(c)
    /\ Goto(c, "top")
    /\ Arrive(c)
    /\ UNCHANGED <<job, schedVars, proc, timeLeft, procVars, ldVars>>

\* Faulty variant: the last instruction is never reached.
ExecutedShort(p) == IF ppc[p] + 1 < job[p].size THEN ppc[p] + 1 ELSE ppc[p]

\* run(p): one instruction, none behind the end of the code.
Executed(p) == IF ppc[p] < job[p].size THEN ppc[p] + 1 ELSE ppc[p]

\* Faulty variant: the quantum is not renewed.
QuantumNotRenewed(c) == timeLeft[c]

\* The quantum with which the process of the CPU enters this slot.
Quantum(c) == IF timeLeft[c] = 0 THEN TimeSlot ELSE timeLeft[c]

\* Dispatch if the quantum is new, run, time_left--, next_slot.
RunSlot(c) ==
    /\ At(c, "check")
    /\ proc[c] # NULL
    /\ ppc' = [ppc EXCEPT ![proc[c]] = Executed(proc[c])]
    /\ timeLeft' = [timeLeft EXCEPT ![c] = Quantum(c) - 1]
    /\ Goto(c, "top")
    /\ Arrive(c)
    /\ UNCHANGED <<job, schedVars, proc, freed, ldVars>>

Cpu(c) ==
    \/ IdleSlot(c) \/ FirstLoad(c) \/ Finish(c) \/ Yield(c) \/ Reget(c)
    \/ Continue(c) \/ Stop(c) \/ SkipSlot(c) \/ RunSlot(c)

-----------------------------------------------------------------------------
(* The loader thread.                                                      *)

NextJob == nloaded + 1

\* Before the start time of the next process: next_slot.
LoaderWait ==
    /\ dev[Loader] = "working"
    /\ nloaded < NumProcs
    /\ time < job[NextJob].start
    /\ Arrive(Loader)
    /\ UNCHANGED <<job, schedVars, cpuVars, procVars, ldVars>>

\* Faulty variant: no next_slot after add_proc.
LoadProcNoSlot ==
    /\ dev[Loader] = "working"
    /\ nloaded < NumProcs
    /\ time >= job[NextJob].start
    /\ PutProc(NextJob)
    /\ nloaded' = nloaded + 1
    /\ UNCHANGED <<job, cpuVars, procVars, doneLoading, clockVars>>

\* add_proc, i++, next_slot.
LoadProc ==
    /\ dev[Loader] = "working"
    /\ nloaded < NumProcs
    /\ time >= job[NextJob].start
    /\ PutProc(NextJob)
    /\ nloaded' = nloaded + 1
    /\ Arrive(Loader)
    /\ UNCHANGED <<job, cpuVars, procVars, doneLoading>>

\* All processes are loaded: done = 1, detach_event.
LoaderExit ==
    /\ dev[Loader] = "working"
    /\ nloaded = NumProcs
    /\ doneLoading' = 1
    /\ Detach(Loader)
    /\ UNCHANGED <<job, schedVars, cpuVars, procVars, nloaded>>

LoaderThread == LoaderWait \/ LoadProc \/ LoaderExit

-----------------------------------------------------------------------------

\* The timer thread.
Timer ==
    /\ Tick \/ Halt
    /\ UNCHANGED <<job, schedVars, cpuVars, procVars, ldVars>>

\* main has joined all threads and returns.
Terminated == ~running /\ UNCHANGED vars

Next ==
    \/ \E c \in CPUs : Cpu(c)
    \/ LoaderThread
    \/ Timer
    \/ Terminated

(***************************************************************************)
(* Every thread that can run does run, and the timer does what SlotTimer   *)
(* is shown to do (ClockFairness).                                         *)
(***************************************************************************)
Fairness ==
    /\ \A c \in CPUs : WF_vars(Cpu(c))
    /\ WF_vars(LoaderThread)
    /\ WF_vars(Timer)

Safety == Init /\ [][Next]_vars

Spec == Safety /\ Fairness

-----------------------------------------------------------------------------
(* Properties.                                                             *)

Loaded == 1..nloaded

\* The CPU may use its pointer: it has not put the process back or freed it.
Owns(c) == proc[c] # NULL /\ pc[c] \notin {"reget", "exit"}

Sched == INSTANCE MlqScheduler
           WITH prio <- [p \in Procs |-> job[p].prio],
                priority <- Priority,
                held <- [c \in CPUs |-> IF Owns(c) THEN proc[c] ELSE NULL],
                new <- Procs \ Loaded,
                finished <- freed

(***************************************************************************)
(* The threads use the scheduler as its module assumes: a CPU asks for a   *)
(* process only when it has none, and puts back or frees only one that it  *)
(* has, although its pointer lives on between put_proc and get_proc; the   *)
(* loader adds each process once.                                          *)
(***************************************************************************)
UsesScheduler == Sched!Safety

(***************************************************************************)
(* No two CPUs run or free the same process, and no queue leads to one     *)
(* that a CPU owns or has freed: a use after free, or a double free, of a  *)
(* pcb_t would need such a state.                                          *)
(***************************************************************************)
OneOwner == Sched!OneOwner

(***************************************************************************)
(* No process is lost: a loaded process is queued, owned by a CPU that     *)
(* goes on, or has been freed at its end.                                  *)
(***************************************************************************)
NoProcessLost == Sched!NoProcessLost

\* The CPU will call get_proc again before it can stop.
Fetches(c) == pc[c] # "exit" /\ ~(pc[c] = "check" /\ proc[c] = NULL)

(***************************************************************************)
(* No orphan: once the loader is done, unfinished work means that some CPU *)
(* is bound to ask for a process again, so not all of them are about to    *)
(* stop.  It rests on the next_slot between the last add_proc and done = 1 *)
(* in ld_routine.                                                          *)
(***************************************************************************)
NoOrphan ==
    doneLoading = 1 /\ Loaded \ freed # {} => \E c \in CPUs : Fetches(c)

(***************************************************************************)
(* A process starts with a full quantum: when a CPU takes over another     *)
(* process nothing is left of the quantum of the one before.               *)
(***************************************************************************)
FreshQuantum ==
    [][\A c \in CPUs : proc'[c] # proc[c] => timeLeft'[c] = 0]_vars

\* Every process of the configuration is executed to its end and freed.
AllJobsFinish == <>(freed = Procs)

(***************************************************************************)
(* A CPU that owns a process when the loader is done stops in the end: its *)
(* last get_proc that finds nothing is followed by the test of done.       *)
(***************************************************************************)
BusyCpuStops ==
    \A c \in CPUs : doneLoading = 1 /\ Owns(c) ~> pc[c] = "exit"

(***************************************************************************)
(* main waits "for CPU and loader finishing": every CPU thread ends and    *)
(* the simulation stops.                                                   *)
(***************************************************************************)
SimulationEnds == <>~running
=============================================================================
