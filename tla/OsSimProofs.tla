----------------------------- MODULE OsSimProofs -----------------------------
(***************************************************************************)
(* Proofs about OsSim, for every number of CPUs and processes, every       *)
(* quantum and every configuration: the threads keep the contract of the   *)
(* scheduler, so what MlqSchedulerProofs proves holds of the simulator,    *)
(* no process stays behind, and a process starts with a full quantum.      *)
(***************************************************************************)
EXTENDS OsSim, ReadyQueuesProofs, FiniteSetTheorems

USE CPUsAssumption, DevicesAssumption, NumProcsAssumption, JobsAssumption,
    TimeSlotAssumption, HorizonAssumption, PriorityAssumption,
    LevelsAssumption, CapacityAssumption

-----------------------------------------------------------------------------
(* Types, and the level at which get_mlq_proc starts.                      *)

TypeInv == TypeOK /\ currentPrio = 0

LEMMA PriorityType == TypeOK => Priority \in [Procs -> 0..MaxPriority]
  BY DEF TypeOK, Priority, JobType

\* get_proc returns a process or NULL and leaves well-typed queues.
LEMMA GetType ==
  ASSUME TypeInv, NEW c \in CPUs, GetProc(c)
  PROVE  /\ proc' \in [CPUs -> Procs \cup {NULL}]
         /\ mlq' \in [Levels -> Seq(Procs)]
         /\ currentPrio' = 0
<1> USE DEF TypeInv, TypeOK
<1>1. CASE AllEmpty(mlq)
  <2>1. Got = [proc |-> NULL, mlq |-> mlq, currentPrio |-> currentPrio]
    BY <1>1, GetNothing DEF Got
  <2>q. QED
    BY <2>1 DEF GetProc
<1>2. CASE ~AllEmpty(mlq)
  <2>1. PICK l \in Levels :
           /\ mlq[l] # <<>>
           /\ \A m \in Levels : m < l => mlq[m] = <<>>
           /\ GetMlqProc(mlq, 0, Priority).proc = Front(mlq[l], Priority)
           /\ GetMlqProc(mlq, 0, Priority).mlq
                 = [mlq EXCEPT ![l] = Rest(mlq[l], Priority)]
           /\ GetMlqProc(mlq, 0, Priority).currentPrio = 0
    BY <1>2, GetServesFirst
  <2>2. mlq[l] \in Seq(Procs) /\ Priority \in [Procs -> 0..MaxPriority]
    BY PriorityType
  <2>3. Front(mlq[l], Priority) \in Procs /\ Rest(mlq[l], Priority) \in Seq(Procs)
    BY <2>1, <2>2, RestRemoves
  <2>4. /\ proc' = [proc EXCEPT ![c] = Front(mlq[l], Priority)]
        /\ mlq' = [mlq EXCEPT ![l] = Rest(mlq[l], Priority)]
        /\ currentPrio' = 0
    BY <2>1 DEF GetProc, Got
  <2>q. QED
    BY <2>3, <2>4
<1>q. QED
  BY <1>1, <1>2

\* get_proc returns NULL only when all levels are empty.
LEMMA GotNull == ASSUME TypeInv, Got.proc = NULL PROVE AllEmpty(mlq)
<1> SUFFICES ASSUME ~AllEmpty(mlq)
             PROVE  FALSE
  OBVIOUS
<1>1. mlq \in [Levels -> Seq(Procs)] /\ Priority \in [Procs -> 0..MaxPriority]
  BY PriorityType DEF TypeInv, TypeOK
<1>2. PICK l \in Levels :
         /\ mlq[l] # <<>>
         /\ \A m \in Levels : m < l => mlq[m] = <<>>
         /\ GetMlqProc(mlq, 0, Priority).proc = Front(mlq[l], Priority)
         /\ GetMlqProc(mlq, 0, Priority).mlq
               = [mlq EXCEPT ![l] = Rest(mlq[l], Priority)]
         /\ GetMlqProc(mlq, 0, Priority).currentPrio = 0
  BY <1>1, GetServesFirst DEF TypeInv, TypeOK
<1>3. Front(mlq[l], Priority) \in Procs
  BY <1>1, <1>2, RestRemoves
<1>q. QED
  BY <1>2, <1>3 DEF Got, TypeInv

LEMMA PutType ==
  ASSUME TypeInv, NEW p \in Procs, PutProc(p)
  PROVE  mlq' \in [Levels -> Seq(Procs)] /\ currentPrio' = 0
<1>1. job[p].prio \in Levels /\ mlq[job[p].prio] \in Seq(Procs)
  BY DEF TypeInv, TypeOK, JobType
<1>2. Enqueue(mlq[job[p].prio], p) \in Seq(Procs)
  BY <1>1, EnqueueKeeps
<1>q. QED
  BY <1>1, <1>2 DEF TypeInv, TypeOK, PutProc, Insert

LEMMA ClockType ==
  ASSUME TypeInv, NEW d \in Devices,
         Arrive(d) \/ Detach(d) \/ Tick \/ Halt \/ UNCHANGED clockVars
  PROVE  ClockTypeOK'
<1> USE DEF TypeInv, TypeOK, ClockTypeOK, Status
<1>1. CASE Arrive(d)
  BY <1>1 DEF Arrive
<1>2. CASE Detach(d)
  BY <1>2 DEF Detach
<1>3. CASE Tick
  BY <1>3 DEF Tick, Advance
<1>4. CASE Halt
  BY <1>4 DEF Halt
<1>5. CASE UNCHANGED clockVars
  BY <1>5 DEF clockVars
<1>q. QED
  BY <1>1, <1>2, <1>3, <1>4, <1>5

LEMMA InitType == Init => TypeInv
<1> SUFFICES ASSUME Init
             PROVE  TypeInv
  OBVIOUS
<1>1. mlq \in [Levels -> Seq(Procs)]
  BY DEF Init, EmptyMlq
<1>2. ClockTypeOK
  BY DEF Init, ClockInit, ClockTypeOK, Status
<1>q. QED
  BY <1>1, <1>2 DEF Init, TypeInv, TypeOK, CpuStates, Levels

LEMMA NextType == TypeInv /\ [Next]_vars => TypeInv'
<1> SUFFICES ASSUME TypeInv, [Next]_vars
             PROVE  TypeInv'
  OBVIOUS
<1>0. TypeOK /\ currentPrio = 0 /\ Loader \in Devices /\ CPUs \subseteq Devices
  BY DEF TypeInv
<1>1. CASE UNCHANGED vars
  BY <1>0, <1>1 DEF vars, TypeInv, TypeOK, ClockTypeOK, schedVars, cpuVars,
     procVars, ldVars, clockVars
<1>2. ASSUME NEW c \in CPUs, Cpu(c)
      PROVE  TypeInv'
  <2> USE <1>0 DEF TypeOK, schedVars, cpuVars, procVars, ldVars, Goto, CpuStates
  <2>1. CASE IdleSlot(c)
    <3>1. ClockTypeOK'
      BY <2>1, ClockType DEF IdleSlot
    <3>2. proc' \in [CPUs -> Procs \cup {NULL}] /\ mlq' \in [Levels -> Seq(Procs)] /\ currentPrio' = 0
      BY <2>1, GetType DEF IdleSlot
    <3>q. QED
      BY <2>1, <3>1, <3>2 DEF IdleSlot, TypeInv
  <2>2. CASE FirstLoad(c)
    <3>1. ClockTypeOK'
      BY <2>2, ClockType DEF FirstLoad
    <3>2. proc' \in [CPUs -> Procs \cup {NULL}] /\ mlq' \in [Levels -> Seq(Procs)] /\ currentPrio' = 0
      BY <2>2, GetType DEF FirstLoad
    <3>q. QED
      BY <2>2, <3>1, <3>2 DEF FirstLoad, TypeInv
  <2>3. CASE Finish(c)
    <3>1. ClockTypeOK'
      BY <2>3, ClockType DEF Finish
    <3>2. proc[c] \in Procs /\ 0 \in 0..TimeSlot
      BY <2>3 DEF Finish
    <3>q. QED
      BY <2>3, <3>1, <3>2 DEF Finish, TypeInv, AfterFree
  <2>4. CASE Yield(c)
    <3>1. ClockTypeOK'
      BY <2>4, ClockType DEF Yield
    <3>2. proc[c] \in Procs
      BY <2>4 DEF Yield
    <3>3. mlq' \in [Levels -> Seq(Procs)] /\ currentPrio' = 0
      BY <2>4, <3>2, PutType DEF Yield
    <3>q. QED
      BY <2>4, <3>1, <3>3 DEF Yield, TypeInv
  <2>5. CASE Reget(c)
    <3>1. ClockTypeOK'
      BY <2>5, ClockType DEF Reget
    <3>2. proc' \in [CPUs -> Procs \cup {NULL}] /\ mlq' \in [Levels -> Seq(Procs)] /\ currentPrio' = 0
      BY <2>5, GetType DEF Reget
    <3>q. QED
      BY <2>5, <3>1, <3>2 DEF Reget, TypeInv
  <2>6. CASE Continue(c)
    <3>1. ClockTypeOK'
      BY <2>6, ClockType DEF Continue
    <3>q. QED
      BY <2>6, <3>1 DEF Continue, TypeInv
  <2>7. CASE Stop(c)
    <3>1. ClockTypeOK'
      BY <2>7, ClockType DEF Stop
    <3>q. QED
      BY <2>7, <3>1 DEF Stop, TypeInv
  <2>8. CASE SkipSlot(c)
    <3>1. ClockTypeOK'
      BY <2>8, ClockType DEF SkipSlot
    <3>q. QED
      BY <2>8, <3>1 DEF SkipSlot, TypeInv
  <2>9. CASE RunSlot(c)
    <3>1. ClockTypeOK'
      BY <2>9, ClockType DEF RunSlot
    <3>2. Executed(proc[c]) \in Nat
      BY <2>9 DEF RunSlot, Executed
    <3>3. Quantum(c) - 1 \in 0..TimeSlot
      BY DEF Quantum
    <3>q. QED
      BY <2>9, <3>1, <3>2, <3>3 DEF RunSlot, TypeInv
  <2>q. QED
    BY <1>2, <2>1, <2>2, <2>3, <2>4, <2>5, <2>6, <2>7, <2>8, <2>9 DEF Cpu
<1>3. CASE LoaderThread
  <2> USE <1>0 DEF TypeOK, schedVars, cpuVars, procVars, ldVars
  <2>1. CASE LoaderWait
    <3>1. ClockTypeOK'
      BY <2>1, ClockType DEF LoaderWait
    <3>q. QED
      BY <2>1, <3>1 DEF LoaderWait, TypeInv
  <2>2. CASE LoadProc
    <3>1. ClockTypeOK'
      BY <2>2, ClockType DEF LoadProc
    <3>2. NextJob \in Procs
      BY <2>2 DEF LoadProc, NextJob, Procs
    <3>3. mlq' \in [Levels -> Seq(Procs)] /\ currentPrio' = 0
      BY <2>2, <3>2, PutType DEF LoadProc
    <3>q. QED
      BY <2>2, <3>1, <3>3 DEF LoadProc, TypeInv
  <2>3. CASE LoaderExit
    <3>1. ClockTypeOK'
      BY <2>3, ClockType DEF LoaderExit
    <3>q. QED
      BY <2>3, <3>1 DEF LoaderExit, TypeInv
  <2>q. QED
    BY <1>3, <2>1, <2>2, <2>3 DEF LoaderThread
<1>4. CASE Timer
  <2>1. ClockTypeOK'
    BY <1>0, <1>4, ClockType DEF Timer
  <2>q. QED
    BY <1>0, <1>4, <2>1 DEF Timer, TypeInv, TypeOK, schedVars, cpuVars, procVars, ldVars
<1>q. QED
  BY <1>1, <1>2, <1>3, <1>4 DEF Next, Terminated

LEMMA TypeInvariance == Safety => []TypeInv
  BY InitType, NextType, PTL DEF Safety

\* The variables of the simulator keep their types, and time_left stays
\* within the quantum.
THEOREM TypeCorrect == Safety => []TypeOK
<1>1. TypeInv => TypeOK
  BY DEF TypeInv
<1>q. QED
  BY <1>1, TypeInvariance, PTL
-----------------------------------------------------------------------------
(* The threads keep the contract of the scheduler.                         *)

\* What MlqScheduler calls held.
Held == [c \in CPUs |-> IF Owns(c) THEN proc[c] ELSE NULL]

(* The instance has its own copies of the operators of ReadyQueues.        *)

LEMMA SchedQueues ==
  /\ Sched!Levels = Levels
  /\ Sched!EmptyMlq = EmptyMlq
  /\ \A m, l, p : Sched!Insert(m, l, p) = Insert(m, l, p)
<1>1. Sched!Levels = Levels
  BY DEF Sched!Levels, Levels
<1>2. Sched!EmptyMlq = EmptyMlq
  BY <1>1, Zenon DEF Sched!EmptyMlq, EmptyMlq
<1>3. ASSUME NEW m, NEW l, NEW p
      PROVE  Sched!Insert(m, l, p) = Insert(m, l, p)
  BY DEF Sched!Insert, Insert, Sched!Enqueue, Enqueue
<1>q. QED
  BY <1>1, <1>2, <1>3

LEMMA SchedGets == Sched!GetMlqProc(mlq, currentPrio, Priority) = Got
<1>1. \A q : Sched!Empty(q) = Empty(q)
  BY DEF Sched!Empty, Empty
<1>2. \A cur, a : Sched!Level(cur, a) = Level(cur, a)
  BY DEF Sched!Level, Level
<1>3. \A cur, a : Sched!SlotLeft(cur, a) = SlotLeft(cur, a)
  BY DEF Sched!SlotLeft, SlotLeft
<1>4. \A q, pri : Sched!HighestIndex(q, pri) = HighestIndex(q, pri)
  BY Zenon DEF Sched!HighestIndex, HighestIndex
<1>5. \A q, pri : Sched!Front(q, pri) = Front(q, pri)
  BY <1>4, Zenon DEF Sched!Front, Front
<1>6. \A q, pri : Sched!Rest(q, pri) = Rest(q, pri)
  BY <1>4, Zenon DEF Sched!Rest, Rest
<1>7. \A m : Sched!AllEmpty(m) = AllEmpty(m)
  BY <1>1, SchedQueues, Zenon DEF Sched!AllEmpty, AllEmpty
<1>8. \A m, cur : Sched!Attempt(m, cur) = Attempt(m, cur)
  BY SchedQueues, Zenon DEF Sched!Attempt, Attempt, Sched!Level, Level, Sched!Empty, Empty,
                            Sched!Levels, Levels
<1>q. QED
  BY <1>2, <1>3, <1>5, <1>6, <1>7, <1>8, Zenon DEF Sched!GetMlqProc, GetMlqProc, Got

LEMMA InitIsSched == Init => Sched!Init
<1> SUFFICES ASSUME Init
             PROVE  Sched!Init
  OBVIOUS
<1>1. job \in [Procs -> JobType]
  BY DEF Init
<1>2. [p \in Procs |-> job[p].prio] \in [Procs -> Levels]
  BY <1>1 DEF JobType
<1>3. Priority \in [Procs -> 0..MaxPriority]
  BY <1>1 DEF JobType, Priority
<1>4. Loaded = {}
  BY DEF Init, Loaded
<1>5. \A c \in CPUs : ~Owns(c)
  BY DEF Init, Owns
<1>q. QED
  BY <1>2, <1>3, <1>4, <1>5, SchedQueues DEF Init, Sched!Init

LEMMA GetIsSched ==
  ASSUME TypeInv, NEW c \in CPUs, GetProc(c), ~Owns(c), pc[c] \in {"top", "reget"},
         \A d \in CPUs \ {c} : pc'[d] = pc[d],
         pc'[c] \in {"top", "check"},
         UNCHANGED <<job, freed, nloaded>>
  PROVE  Sched!GetProc(c)
<1>1. proc' = [proc EXCEPT ![c] = Got.proc]
  BY DEF GetProc
<1>2. \A d \in CPUs \ {c} : proc'[d] = proc[d]
  BY <1>1 DEF TypeInv, TypeOK
<1>3. proc'[c] = Got.proc
  BY <1>1 DEF TypeInv, TypeOK
<1>4. Held[c] = NULL
  BY DEF Held
<1>5. Held' = [Held EXCEPT ![c] = Got.proc]
  <2>1. \A d \in CPUs \ {c} : Held'[d] = Held[d]
    BY <1>2 DEF Held, Owns
  <2>2. Held'[c] = Got.proc
    BY <1>3 DEF Held, Owns
  <2>q. QED
    BY <2>1, <2>2 DEF Held
<1>q. QED
  BY <1>4, <1>5, SchedGets DEF GetProc, Held, Sched!GetProc, Priority, Loaded

LEMMA StepIsSched == TypeInv /\ [Next]_vars => [Sched!Next]_(Sched!vars)
<1> SUFFICES ASSUME TypeInv, [Next]_vars
             PROVE  [Sched!Next]_(Sched!vars)
  OBVIOUS
<1>0. TypeOK
  BY DEF TypeInv
<1> USE DEF schedVars, cpuVars, procVars, ldVars, Goto
<1>1. ASSUME UNCHANGED <<job, mlq, currentPrio, freed, nloaded>>, Held' = Held
      PROVE  UNCHANGED Sched!vars
  BY <1>1 DEF Sched!vars, Held, Loaded, Priority
<1>2. CASE UNCHANGED vars
  BY <1>1, <1>2 DEF vars, Held, Owns
<1>3. ASSUME NEW c \in CPUs, Cpu(c)
      PROVE  [Sched!Next]_(Sched!vars)
  <2>1. CASE IdleSlot(c)
    <3>1. Sched!GetProc(c)
      BY <2>1, GetIsSched DEF IdleSlot, At, Owns
    <3>q. QED
      BY <3>1 DEF Sched!Next
  <2>2. CASE FirstLoad(c)
    <3>1. Sched!GetProc(c)
      BY <1>0, <2>2, GetIsSched DEF FirstLoad, At, Owns, TypeOK
    <3>q. QED
      BY <3>1 DEF Sched!Next
  <2>3. CASE Finish(c)
    <3>1. Held[c] = proc[c] /\ Held[c] # NULL
      BY <2>3 DEF Finish, At, Held, Owns
    <3>2. Held' = [Held EXCEPT ![c] = NULL]
      BY <1>0, <2>3 DEF Finish, Held, Owns, TypeOK
    <3>3. Sched!FinishProc(c)
      BY <2>3, <3>1, <3>2 DEF Finish, Sched!FinishProc, Held, Priority, Loaded
    <3>q. QED
      BY <3>3 DEF Sched!Next
  <2>4. CASE Yield(c)
    <3>1. Held[c] = proc[c] /\ Held[c] # NULL
      BY <2>4 DEF Yield, At, Held, Owns
    <3>2. Held' = [Held EXCEPT ![c] = NULL]
      BY <1>0, <2>4 DEF Yield, Held, Owns, TypeOK
    <3>3. proc[c] \in Procs
      BY <1>0, <2>4 DEF Yield, TypeOK
    <3>4. mlq' = Insert(mlq, [p \in Procs |-> job[p].prio][Held[c]], Held[c])
      BY <2>4, <3>1, <3>3 DEF Yield, PutProc
    <3>5. Sched!PutProc(c)
      BY <2>4, <3>1, <3>2, <3>4, SchedQueues DEF Yield, PutProc, Sched!PutProc, Held, Priority, Loaded
    <3>q. QED
      BY <3>5 DEF Sched!Next
  <2>5. CASE Reget(c)
    <3>1. Sched!GetProc(c)
      BY <1>0, <2>5, GetIsSched DEF Reget, At, Owns, TypeOK
    <3>q. QED
      BY <3>1 DEF Sched!Next
  <2>6. CASE Continue(c)
    <3>1. Held' = Held
      BY <1>0, <2>6 DEF Continue, At, Held, Owns, TypeOK
    <3>q. QED
      BY <1>1, <2>6, <3>1 DEF Continue
  <2>7. CASE Stop(c)
    <3>1. Held' = Held
      BY <1>0, <2>7 DEF Stop, MayStop, At, Held, Owns, TypeOK
    <3>q. QED
      BY <1>1, <2>7, <3>1 DEF Stop
  <2>8. CASE SkipSlot(c)
    <3>1. Held' = Held
      BY <1>0, <2>8 DEF SkipSlot, At, Held, Owns, TypeOK
    <3>q. QED
      BY <1>1, <2>8, <3>1 DEF SkipSlot
  <2>9. CASE RunSlot(c)
    <3>1. Held' = Held
      BY <1>0, <2>9 DEF RunSlot, At, Held, Owns, TypeOK
    <3>q. QED
      BY <1>1, <2>9, <3>1 DEF RunSlot
  <2>q. QED
    BY <1>3, <2>1, <2>2, <2>3, <2>4, <2>5, <2>6, <2>7, <2>8, <2>9 DEF Cpu
<1>4. CASE LoaderWait
  BY <1>1, <1>4 DEF LoaderWait, Held, Owns
<1>5. CASE LoadProc
  <2>1. /\ NextJob \in Procs \ Loaded
        /\ Procs \ Loaded' = (Procs \ Loaded) \ {NextJob}
    BY <1>0, <1>5 DEF LoadProc, NextJob, Procs, Loaded, TypeOK
  <2>2. mlq' = Insert(mlq, [p \in Procs |-> job[p].prio][NextJob], NextJob)
    BY <1>5, <2>1 DEF LoadProc, PutProc
  <2>3. Sched!AddProc(NextJob)
    BY <1>5, <2>1, <2>2, SchedQueues DEF LoadProc, PutProc, Sched!AddProc, Owns, Priority
  <2>q. QED
    BY <2>1, <2>3 DEF Sched!Next
<1>6. CASE LoaderExit
  BY <1>1, <1>6 DEF LoaderExit, Held, Owns
<1>7. CASE Timer
  BY <1>1, <1>7 DEF Timer, Held, Owns
<1>q. QED
  BY <1>2, <1>3, <1>4, <1>5, <1>6, <1>7 DEF Next, LoaderThread, Terminated

\* Although proc lives on between put_proc or free and the next get_proc, the
\* CPU threads and the loader only make the calls that MlqScheduler allows.
THEOREM ThreadsUseScheduler == Safety => UsesScheduler
  BY InitIsSched, StepIsSched, TypeInvariance, PTL
     DEF Safety, UsesScheduler, Sched!Safety

-----------------------------------------------------------------------------
(* What MlqSchedulerProofs shows of the scheduler holds of the simulator.  *)

SP == INSTANCE MlqSchedulerProofs
        WITH prio <- [p \in Procs |-> job[p].prio],
             priority <- Priority,
             held <- [c \in CPUs |-> IF Owns(c) THEN proc[c] ELSE NULL],
             new <- Procs \ Loaded,
             finished <- freed

(* Both instances of the scheduler expand to the same formulas.            *)

LEMMA SameInit == Sched!Init => SP!Init
  BY Zenon DEF Sched!Init, SP!Init, Sched!Levels, SP!Levels, Sched!EmptyMlq,
                SP!EmptyMlq

LEMMA SameNext == [Sched!Next]_(Sched!vars) => [SP!Next]_(SP!vars)
  BY Zenon DEF Sched!AddProc, SP!AddProc, Sched!GetProc, SP!GetProc,
                Sched!PutProc, SP!PutProc, Sched!FinishProc, SP!FinishProc,
                Sched!Next, SP!Next, Sched!vars, SP!vars, Sched!Levels,
                SP!Levels, Sched!Insert, SP!Insert, Sched!Enqueue,
                SP!Enqueue, Sched!GetMlqProc, SP!GetMlqProc, Sched!Attempt,
                SP!Attempt, Sched!Level, SP!Level, Sched!Empty, SP!Empty,
                Sched!AllEmpty, SP!AllEmpty, Sched!SlotLeft, SP!SlotLeft,
                Sched!Front, SP!Front, Sched!Rest, SP!Rest,
                Sched!HighestIndex, SP!HighestIndex

LEMMA SchedulerRuns == Safety => SP!Safety
  BY ThreadsUseScheduler, SameInit, SameNext, PTL
     DEF UsesScheduler, Sched!Safety, SP!Safety

LEMMA SchedAssumptions ==
  SP!LevelsAssumption /\ SP!CapacityAssumption /\ SP!ProcsAssumption /\ SP!MaxPriorityAssumption
<1>1. IsFiniteSet(Procs)
  BY FS_Interval DEF Procs
<1>2. SP!IsFiniteSet(Procs)
  BY <1>1, Zenon DEF IsFiniteSet, SP!IsFiniteSet
<1>3. SP!LevelsAssumption
  BY DEF SP!LevelsAssumption
<1>4. SP!CapacityAssumption
  BY DEF SP!CapacityAssumption
<1>5. SP!ProcsAssumption
  BY <1>2 DEF SP!ProcsAssumption
<1>6. SP!MaxPriorityAssumption
  BY DEF SP!MaxPriorityAssumption
<1>q. QED
  BY <1>3, <1>4, <1>5, <1>6

\* No two CPUs run or free the same process, and no queue leads to a process
\* that a CPU runs or has freed.
THEOREM OwnersAreUnique == Safety => []OneOwner
<1>1. SP!OneOwner => OneOwner
  BY Zenon DEF OneOwner, Sched!OneOwner, SP!OneOwner, Sched!Levels, SP!Levels,
                Sched!Positions, SP!Positions, Sched!InQueue, SP!InQueue
<1>q. QED
  BY <1>1, SchedulerRuns, SchedAssumptions, SP!OwnersAreUnique, PTL

\* A queue has room for all processes of the configuration.
CapacitySuffices == NumProcs <= MAX_QUEUE_SIZE

LEMMA Capacities == CapacitySuffices => SP!CapacitySuffices
<1>1. Cardinality(Procs) = NumProcs
  BY FS_Interval DEF Procs
<1>2. SP!Cardinality(Procs) = Cardinality(Procs)
  BY Zenon DEF Cardinality, SP!Cardinality
<1>q. QED
  BY <1>1, <1>2 DEF CapacitySuffices, SP!CapacitySuffices

\* If a queue can hold all processes, a loaded process is queued, owned by a
\* CPU that goes on, or has been freed at its end.
THEOREM NothingIsLost == CapacitySuffices /\ Safety => []NoProcessLost
<1>1. SP!NoProcessLost => NoProcessLost
  BY Zenon DEF NoProcessLost, Sched!NoProcessLost, SP!NoProcessLost, Sched!Levels,
                SP!Levels, Sched!Positions, SP!Positions, Sched!InQueue,
                SP!InQueue
<1>q. QED
  BY <1>1, Capacities, SchedulerRuns, SchedAssumptions, SP!NothingIsLost, PTL

\* If a queue can hold all processes, the threads of the simulator take
\* processes from a pool and put them back: no matter which thread runs when,
\* a CPU gets a process of the best level.
THEOREM SimulatorImplementsPool == CapacitySuffices /\ Safety => SP!ImplementsPool
  BY Capacities, SchedulerRuns, SchedAssumptions, SP!SchedulerImplementsPool, PTL

\* Whichever CPUs put processes back, those of one level and default priority
\* run in the order in which they were queued.
THEOREM ProcessesTakeTurns == Safety => SP!NoOvertaking
  BY SchedulerRuns, SchedAssumptions, SP!TurnsAreTaken, PTL

-----------------------------------------------------------------------------
(* The quantum.                                                            *)

\* Nothing is left of a quantum where get_proc is about to be called.
QuantumInv == \A c \in CPUs : pc[c] = "reget" \/ proc[c] = NULL => timeLeft[c] = 0

LEMMA QuantumNext ==
  ASSUME TypeInv, QuantumInv, [Next]_vars
  PROVE  /\ QuantumInv'
         /\ \A c \in CPUs : proc'[c] # proc[c] => timeLeft'[c] = 0
<1> USE DEF TypeInv, TypeOK, QuantumInv, schedVars, cpuVars, procVars, ldVars, Goto
<1>1. CASE UNCHANGED <<pc, proc, timeLeft>>
  BY <1>1
<1>2. ASSUME NEW c \in CPUs, Cpu(c)
      PROVE  /\ QuantumInv'
             /\ \A d \in CPUs : proc'[d] # proc[d] => timeLeft'[d] = 0
  <2>1. CASE IdleSlot(c)
    BY <2>1 DEF IdleSlot, GetProc
  <2>2. CASE FirstLoad(c)
    BY <2>2 DEF FirstLoad, GetProc, At
  <2>3. CASE Finish(c)
    BY <2>3 DEF Finish, AfterFree
  <2>4. CASE Yield(c)
    BY <2>4 DEF Yield
  <2>5. CASE Reget(c)
    BY <2>5 DEF Reget, GetProc, At
  <2>6. CASE Continue(c)
    BY <2>6 DEF Continue
  <2>7. CASE Stop(c)
    BY <2>7 DEF Stop, MayStop
  <2>8. CASE SkipSlot(c)
    BY <2>8 DEF SkipSlot
  <2>9. CASE RunSlot(c)
    BY <2>9 DEF RunSlot
  <2>q. QED
    BY <1>2, <2>1, <2>2, <2>3, <2>4, <2>5, <2>6, <2>7, <2>8, <2>9 DEF Cpu
<1>q. QED
  BY <1>1, <1>2 DEF Next, LoaderThread, LoaderWait, LoadProc, LoaderExit, Timer,
                    Terminated, vars

\* A process starts with a full quantum: when a CPU takes over another
\* process, nothing is left of the quantum of the one before.
THEOREM QuantumIsFresh == Safety => FreshQuantum
<1> DEFINE Fresh == \A c \in CPUs : proc'[c] # proc[c] => timeLeft'[c] = 0
<1>1. Init => QuantumInv
  BY DEF Init, QuantumInv
<1>2. TypeInv /\ QuantumInv /\ [Next]_vars => QuantumInv' /\ [Fresh]_vars
  BY QuantumNext
<1>3. Safety => [][Fresh]_vars
  BY <1>1, <1>2, TypeInvariance, PTL DEF Safety
<1>q. QED
  BY <1>3 DEF FreshQuantum

-----------------------------------------------------------------------------
(* No orphan.                                                              *)

\* How far the threads are when a device waits or has detached.
ThreadInv ==
    /\ doneLoading = 1 <=> dev[Loader] = "detached"
    /\ doneLoading = 1 => nloaded = NumProcs
    /\ \A c \in CPUs : /\ dev[c] = "waiting" => pc[c] = "top"
                       /\ dev[c] = "detached" => doneLoading = 1

(***************************************************************************)
(* NoOrphan with a premise that holds earlier: in the slot after that of   *)
(* the last add_proc, before done is set.  Each CPU has passed the head of *)
(* its loop since the process was queued.                                  *)
(***************************************************************************)
OrphanInv ==
    nloaded = NumProcs /\ dev[Loader] # "waiting" /\ Loaded \ freed # {} =>
        \E c \in CPUs : Fetches(c)

LEMMA ThreadNext ==
  ASSUME TypeInv, ThreadInv, [Next]_vars
  PROVE  ThreadInv'
<1> USE DEF TypeInv, TypeOK, ClockTypeOK, ThreadInv, Goto, At, schedVars, cpuVars, procVars,
            ldVars, clockVars
<1>1. CASE UNCHANGED vars
  BY <1>1 DEF vars
<1>2. ASSUME NEW c \in CPUs, Cpu(c)
      PROVE  ThreadInv'
  <2>1. CASE IdleSlot(c)
    BY <2>1 DEF IdleSlot, Arrive
  <2>2. CASE FirstLoad(c)
    BY <2>2 DEF FirstLoad
  <2>3. CASE Finish(c)
    BY <2>3 DEF Finish
  <2>4. CASE Yield(c)
    BY <2>4 DEF Yield
  <2>5. CASE Reget(c)
    BY <2>5 DEF Reget
  <2>6. CASE Continue(c)
    BY <2>6 DEF Continue
  <2>7. CASE Stop(c)
    BY <2>7 DEF Stop, MayStop, Detach
  <2>8. CASE SkipSlot(c)
    BY <2>8 DEF SkipSlot, Arrive
  <2>9. CASE RunSlot(c)
    BY <2>9 DEF RunSlot, Arrive
  <2>q. QED
    BY <1>2, <2>1, <2>2, <2>3, <2>4, <2>5, <2>6, <2>7, <2>8, <2>9 DEF Cpu
<1>3. CASE LoaderThread
  BY <1>3 DEF LoaderThread, LoaderWait, LoadProc, LoaderExit, Arrive, Detach
<1>4. CASE Timer
  BY <1>4 DEF Timer, Tick, Halt
<1>q. QED
  BY <1>1, <1>2, <1>3, <1>4 DEF Next, Terminated

LEMMA OrphanNext ==
  ASSUME TypeInv, ThreadInv, OrphanInv, NoProcessLost, [Next]_vars
  PROVE  OrphanInv'
<1> SUFFICES ASSUME nloaded' = NumProcs, dev'[Loader] # "waiting",
                    (Loaded \ freed)' # {}
             PROVE  \E c \in CPUs : Fetches(c)'
  BY DEF OrphanInv
<1> USE DEF TypeInv, TypeOK, ClockTypeOK, Goto, At, schedVars, cpuVars, procVars,
            ldVars, clockVars, Fetches
<1>1. CASE UNCHANGED vars
  BY <1>1 DEF vars, OrphanInv, Loaded
<1>2. ASSUME NEW c \in CPUs, Cpu(c)
      PROVE  \E d \in CPUs : Fetches(d)'
  <2>1. /\ nloaded' = nloaded
        /\ freed \subseteq freed'
        /\ dev'[Loader] = dev[Loader]
        /\ \A d \in CPUs \ {c} : pc'[d] = pc[d] /\ proc'[d] = proc[d]
    BY <1>2 DEF Cpu, IdleSlot, FirstLoad, Finish, Yield, Reget, Continue, Stop,
                SkipSlot, RunSlot, Arrive, Detach, GetProc
  <2>2. PICK b \in CPUs : Fetches(b)
    BY <2>1 DEF OrphanInv, Loaded
  <2>3. CASE b # c
    BY <2>1, <2>2, <2>3
  <2>4. CASE b = c /\ pc'[c] # "exit" /\ ~(pc'[c] = "check" /\ proc'[c] = NULL)
    BY <2>4
  <2>5. CASE b = c /\ ~(pc'[c] # "exit" /\ ~(pc'[c] = "check" /\ proc'[c] = NULL))
    <3>1. Reget(c) /\ Got.proc = NULL
      BY <1>2, <2>2, <2>5 DEF Cpu, IdleSlot, FirstLoad, Finish, Yield, Reget, Continue,
                              Stop, MayStop, SkipSlot, RunSlot, GetProc
    <3>2. AllEmpty(mlq)
      BY <3>1, GotNull
    <3>3. PICK p \in Loaded \ freed : TRUE
      BY <2>1 DEF Loaded
    <3>4. ~Sched!InQueue(p)
      BY <3>2, SchedQueues DEF Sched!InQueue, Sched!Positions, AllEmpty, Empty
    <3>5. p \in Procs \ ((Procs \ Loaded) \cup freed)
      BY <3>3 DEF Loaded, Procs
    <3>6. PICK d \in CPUs : Held[d] = p
      BY <3>4, <3>5 DEF NoProcessLost, Sched!NoProcessLost, Held
    <3>7. p # NULL
      BY <3>5
    <3>8. Owns(d) /\ d # c
      BY <3>1, <3>6, <3>7 DEF Held, Owns, Reget
    <3>q. QED
      BY <2>1, <3>8 DEF Owns
  <2>q. QED
    BY <2>3, <2>4, <2>5
<1>3. CASE LoaderThread
  BY <1>3 DEF LoaderThread, LoaderWait, LoadProc, LoaderExit, Arrive, Detach,
              OrphanInv, Loaded
<1>4. CASE Timer
  <2>1. CASE dev[Loader] # "waiting"
    BY <1>4, <2>1 DEF Timer, OrphanInv, Loaded
  <2>2. CASE dev[Loader] = "waiting"
    <3>1. Tick
      BY <1>4, <2>2 DEF Timer, Halt, AllIn
    <3>2. \A c \in CPUs : pc[c] = "top"
      BY <2>2, <3>1 DEF Tick, AllIn, ThreadInv
    <3>q. QED
      BY <1>4, <3>2 DEF Timer
  <2>q. QED
    BY <2>1, <2>2
<1>q. QED
  BY <1>1, <1>2, <1>3, <1>4 DEF Next, Terminated

\* If a queue can hold all processes, then once the loader is done, unfinished
\* work means that some CPU will ask for a process again.
THEOREM NobodyIsOrphaned == CapacitySuffices /\ Safety => []NoOrphan
<1>1. Init => ThreadInv /\ OrphanInv
  BY DEF Init, ClockInit, ThreadInv, OrphanInv, Loaded
<1>2. TypeInv /\ ThreadInv /\ [Next]_vars => ThreadInv'
  BY ThreadNext
<1>3. TypeInv /\ ThreadInv /\ OrphanInv /\ NoProcessLost /\ [Next]_vars => OrphanInv'
  BY OrphanNext
<1>4. ThreadInv /\ OrphanInv => NoOrphan
  BY DEF ThreadInv, OrphanInv, NoOrphan
<1>q. QED
  BY <1>1, <1>2, <1>3, <1>4, TypeInvariance, NothingIsLost, PTL DEF Safety
-----------------------------------------------------------------------------
(* Slots and instructions.                                                 *)

\* A CPU has run the process and waits for the next slot.
RanInSlot(p) == \E c \in CPUs : proc[c] = p /\ pc[c] = "top" /\ dev[c] = "waiting"

(***************************************************************************)
(* run and next_slot of cpu_routine: a process that one CPU has run in     *)
(* this slot is not run again, by any CPU, before the clock ticks.         *)
(***************************************************************************)
OncePerSlot ==
    [][/\ \A c \in CPUs : RunSlot(c) => ~RanInSlot(proc[c]) /\ RanInSlot(proc[c])'
       /\ \A p \in Procs : RanInSlot(p) => RanInSlot(p)' \/ Tick]_vars

(***************************************************************************)
(* A process is freed at the end of its code and no earlier, and one that  *)
(* the loader has not added yet, before its start time, has not run.       *)
(***************************************************************************)
WorkIsExact ==
    /\ \A p \in Procs : ppc[p] <= job[p].size
    /\ \A p \in freed : ppc[p] = job[p].size
    /\ \A p \in Procs \ Loaded : ppc[p] = 0
    /\ \A p \in Loaded : job[p].start <= time

\* The slots in which the process could have been run.
SlotsSoFar(p) ==
    IF RanInSlot(p) THEN (time - job[p].start) + 1 ELSE time - job[p].start

(***************************************************************************)
(* Whatever the number of CPUs, and however often a process changes from   *)
(* one to another, it executes at most one instruction in each slot since  *)
(* its start (as far as the slots are counted).                            *)
(***************************************************************************)
OneCpuSpeed == time < Horizon => \A p \in Loaded : ppc[p] <= SlotsSoFar(p)

(***************************************************************************)
(* A pcb_t that was freed is not run and not freed again: cpu_routine has  *)
(* only the stale pointer, and calls get_proc before it uses it.           *)
(***************************************************************************)
FreedForGood ==
    [][\A p \in freed : /\ p \in freed' /\ ppc'[p] = ppc[p]
                        /\ \A c \in CPUs : RunSlot(c) \/ Finish(c) => proc[c] # p]_vars

\* What OneOwner says of the CPUs: whom they own is theirs alone, and alive.
LEMMA OwnersAlive ==
  ASSUME TypeInv, OneOwner
  PROVE  /\ \A c, d \in CPUs : Owns(c) /\ Owns(d) /\ proc[c] = proc[d] => c = d
         /\ \A c \in CPUs : Owns(c) => proc[c] \in Loaded \ freed
<1>1. \A c \in CPUs : Held[c] = IF Owns(c) THEN proc[c] ELSE NULL
  BY DEF Held
<1>2. \A c \in CPUs : Held[c] # NULL =>
         /\ Held[c] \notin (Procs \ Loaded) \cup freed
         /\ \A d \in CPUs : Held[d] = Held[c] => d = c
  BY Zenon DEF OneOwner, Sched!OneOwner, Held
<1>3. \A c \in CPUs : Owns(c) => proc[c] # NULL /\ proc[c] \in Procs
  BY DEF Owns, TypeInv, TypeOK
<1>q. QED
  BY <1>1, <1>2, <1>3

\* A step of a CPU that waits for nothing leaves those that wait alone.
LEMMA WaitersStay ==
  ASSUME TypeInv, NEW c \in CPUs, Cpu(c), NEW p, RanInSlot(p)
  PROVE  RanInSlot(p)'
<1>1. PICK d \in CPUs : proc[d] = p /\ pc[d] = "top" /\ dev[d] = "waiting"
  BY DEF RanInSlot
<1>2. dev[c] = "working"
  BY DEF Cpu, IdleSlot, FirstLoad, Finish, Yield, Reget, Continue, Stop, SkipSlot, RunSlot, At
<1>3. proc'[d] = proc[d] /\ pc'[d] = pc[d] /\ dev'[d] = dev[d]
  BY <1>1, <1>2 DEF TypeInv, TypeOK, ClockTypeOK, Cpu, IdleSlot, FirstLoad, Finish, Yield, Reget,
                    Continue, Stop, SkipSlot, RunSlot, Goto, GetProc, Arrive, Detach, clockVars
<1>q. QED
  BY <1>1, <1>3 DEF RanInSlot

LEMMA RunOnce ==
  ASSUME TypeInv, OneOwner, NEW c \in CPUs, RunSlot(c)
  PROVE  /\ proc[c] \in Loaded \ freed
         /\ ~RanInSlot(proc[c]) /\ RanInSlot(proc[c])'
<1>1. Owns(c) /\ dev[c] = "working"
  BY DEF RunSlot, At, Owns
<1>2. ~RanInSlot(proc[c])
  <2>1. ASSUME NEW d \in CPUs, proc[d] = proc[c], pc[d] = "top", dev[d] = "waiting"
        PROVE  FALSE
    <3>1. Owns(d)
      BY <1>1, <2>1 DEF Owns
    <3>q. QED
      BY <1>1, <2>1, <3>1, OwnersAlive
  <2>q. QED
    BY <2>1 DEF RanInSlot
<1>3. proc'[c] = proc[c] /\ pc'[c] = "top" /\ dev'[c] = "waiting"
  BY DEF RunSlot, Goto, Arrive, TypeInv, TypeOK, ClockTypeOK
<1>q. QED
  BY <1>1, <1>2, <1>3, OwnersAlive DEF RanInSlot

\* No process gets more than one instruction out of a slot: the CPU that ran
\* it keeps it until the next one.
THEOREM RunsAreOncePerSlot == Safety => OncePerSlot
<1> DEFINE Once == /\ \A c \in CPUs : RunSlot(c) => ~RanInSlot(proc[c]) /\ RanInSlot(proc[c])'
                   /\ \A p \in Procs : RanInSlot(p) => RanInSlot(p)' \/ Tick
<1>1. ASSUME TypeInv, OneOwner, [Next]_vars
      PROVE  [Once]_vars
  <2>1. \A c \in CPUs : RunSlot(c) => ~RanInSlot(proc[c]) /\ RanInSlot(proc[c])'
    BY <1>1, RunOnce
  <2>2. ASSUME NEW p \in Procs, RanInSlot(p)
        PROVE  RanInSlot(p)' \/ Tick
    <3>1. CASE UNCHANGED vars
      BY <2>2, <3>1 DEF vars, cpuVars, clockVars, RanInSlot
    <3>2. ASSUME NEW c \in CPUs, Cpu(c)
          PROVE  RanInSlot(p)'
      BY <1>1, <2>2, <3>2, WaitersStay
    <3>3. CASE LoaderThread
      BY <1>1, <2>2, <3>3
      DEF LoaderThread, LoaderWait, LoadProc, LoaderExit, Arrive, Detach, RanInSlot, cpuVars,
          TypeInv, TypeOK, ClockTypeOK
    <3>4. CASE Timer
      BY <1>1, <2>2, <3>4 DEF Timer, Halt, RanInSlot, cpuVars
    <3>q. QED
      BY <1>1, <3>1, <3>2, <3>3, <3>4 DEF Next, Terminated
  <2>q. QED
    BY <2>1, <2>2
<1>2. Safety => [][Once]_vars
  BY <1>1, TypeInvariance, OwnersAreUnique, PTL DEF Safety
<1>q. QED
  BY <1>2 DEF OncePerSlot

WorkInv == WorkIsExact /\ OneCpuSpeed

\* The numbers that WorkInv compares.
LEMMA WorkType ==
  ASSUME TypeInv, NEW p \in Procs
  PROVE  ppc[p] \in Nat /\ job[p].size \in Nat /\ job[p].start \in 0..Horizon /\ time \in 0..Horizon
  BY DEF TypeInv, TypeOK, JobType, ClockTypeOK

LEMMA WorkNext ==
  ASSUME TypeInv, OneOwner, WorkInv, [Next]_vars
  PROVE  WorkInv'
<1> USE DEF WorkInv
<1>1. CASE UNCHANGED vars
  BY <1>1 DEF vars, cpuVars, procVars, ldVars, clockVars, WorkIsExact, OneCpuSpeed, SlotsSoFar,
              RanInSlot, Loaded
<1>2. ASSUME NEW c \in CPUs, RunSlot(c)
      PROVE  WorkInv'
  <2>1. /\ proc[c] \in Loaded \ freed /\ proc[c] \in Procs
        /\ \A p : p = proc[c] => ~RanInSlot(p) /\ RanInSlot(p)'
    <3>1. proc' = proc /\ proc[c] \in Procs
      BY <1>2 DEF RunSlot, TypeInv, TypeOK
    <3>2. proc[c] \in Loaded \ freed /\ ~RanInSlot(proc[c]) /\ RanInSlot(proc[c])'
      BY <1>2, RunOnce
    <3>q. QED
      BY <3>1, <3>2 DEF RanInSlot
  <2>2. /\ ppc'[proc[c]] = Executed(proc[c])
        /\ \A p \in Procs : p # proc[c] => ppc'[p] = ppc[p]
    BY <1>2, <2>1 DEF RunSlot, TypeInv, TypeOK
  <2>3. UNCHANGED <<job, freed, nloaded, time>>
    BY <1>2 DEF RunSlot, ldVars, Arrive
  <2>4. \A p : RanInSlot(p) => RanInSlot(p)'
    BY <1>2, WaitersStay DEF Cpu
  <2>5. WorkIsExact'
    <3>1. /\ \A p \in Procs : ppc[p] <= job[p].size
          /\ \A p \in freed : p \in Procs /\ ppc[p] = job[p].size
      BY DEF WorkIsExact, TypeInv, TypeOK
    <3>2. \A p \in Procs : ppc'[p] <= job[p].size
      BY <2>1, <2>2, <3>1, WorkType DEF Executed
    <3>3. /\ \A p \in freed : ppc'[p] = job[p].size
          /\ \A p \in Procs \ Loaded : ppc'[p] = 0
      BY <2>1, <2>2, <3>1 DEF WorkIsExact
    <3>q. QED
      BY <2>3, <3>2, <3>3 DEF WorkIsExact, Loaded
  <2>6. ASSUME time' < Horizon, NEW p \in Loaded'
        PROVE  ppc'[p] <= SlotsSoFar(p)'
    <3>1. p \in Procs /\ p \in Loaded /\ time < Horizon
      BY <2>3, <2>6 DEF Loaded, Procs, TypeInv, TypeOK
    <3>2. ppc[p] <= SlotsSoFar(p) /\ job[p].start <= time
      BY <3>1 DEF OneCpuSpeed, WorkIsExact
    <3>3. ppc[p] \in Nat /\ job[p].start \in Nat /\ time \in Nat
      BY <3>1, WorkType
    <3>4. CASE p = proc[c]
      BY <2>1, <2>2, <2>3, <3>2, <3>3, <3>4 DEF SlotsSoFar, Executed
    <3>5. CASE p # proc[c]
      BY <2>2, <2>3, <2>4, <3>1, <3>2, <3>3, <3>5 DEF SlotsSoFar
    <3>q. QED
      BY <3>4, <3>5
  <2>q. QED
    BY <2>5, <2>6 DEF OneCpuSpeed
<1>3. ASSUME NEW c \in CPUs, Cpu(c), ~RunSlot(c)
      PROVE  WorkInv'
  <2>1. UNCHANGED <<job, ppc, nloaded, time>>
    BY <1>3 DEF Cpu, IdleSlot, FirstLoad, Finish, Yield, Reget, Continue, Stop, SkipSlot,
                procVars, ldVars, clockVars, Arrive, Detach
  <2>2. \A p \in freed' : p \in freed \/ (p = proc[c] /\ AtEnd(c))
    BY <1>3 DEF Cpu, IdleSlot, FirstLoad, Finish, Yield, Reget, Continue, Stop, SkipSlot,
                procVars
  <2>3. \A p : RanInSlot(p) => RanInSlot(p)'
    BY <1>3, WaitersStay
  <2>4. WorkIsExact'
    BY <2>1, <2>2 DEF WorkIsExact, Loaded, AtEnd
  <2>5. ASSUME time' < Horizon, NEW p \in Loaded'
        PROVE  ppc'[p] <= SlotsSoFar(p)'
    <3>1. p \in Procs /\ p \in Loaded /\ time < Horizon
      BY <2>1, <2>5 DEF Loaded, Procs, TypeInv, TypeOK
    <3>2. ppc[p] <= SlotsSoFar(p)
      BY <3>1 DEF OneCpuSpeed
    <3>3. ppc[p] \in Nat /\ job[p].start \in Nat /\ time \in Nat
      BY <3>1, WorkType
    <3>q. QED
      BY <2>1, <2>3, <3>2, <3>3 DEF SlotsSoFar
  <2>q. QED
    BY <2>4, <2>5 DEF OneCpuSpeed
<1>4. CASE LoaderThread
  <2>1. UNCHANGED <<job, ppc, freed, time>>
    BY <1>4 DEF LoaderThread, LoaderWait, LoadProc, LoaderExit, procVars, Arrive, Detach
  <2>2. \A p : RanInSlot(p) => RanInSlot(p)'
    BY <1>4 DEF LoaderThread, LoaderWait, LoadProc, LoaderExit, cpuVars, Arrive, Detach, RanInSlot,
                TypeInv, TypeOK, ClockTypeOK
  <2>3. \/ nloaded' = nloaded
        \/ nloaded < NumProcs /\ nloaded' = nloaded + 1 /\ job[NextJob].start <= time
    <3>1. CASE LoadProc
      <4>1. NextJob \in Procs
        BY <3>1 DEF LoadProc, NextJob, Procs, TypeInv, TypeOK
      <4>2. job[NextJob].start <= time
        BY <3>1, <4>1, WorkType DEF LoadProc
      <4>q. QED
        BY <3>1, <4>2 DEF LoadProc
    <3>q. QED
      BY <1>4, <3>1 DEF LoaderThread, LoaderWait, LoaderExit, ldVars
  <2>4. \A p \in Loaded' : p \in Procs /\ (p \in Loaded \/ (p = NextJob /\ p \notin Loaded /\ job[p].start <= time))
    BY <2>3 DEF Loaded, Procs, NextJob, TypeInv, TypeOK
  <2>5. Loaded \subseteq Loaded'
    BY <2>3 DEF Loaded, TypeInv, TypeOK
  <2>6. WorkIsExact'
    BY <2>1, <2>4, <2>5 DEF WorkIsExact
  <2>7. ASSUME time' < Horizon, NEW p \in Loaded'
        PROVE  ppc'[p] <= SlotsSoFar(p)'
    <3>1. p \in Procs /\ time < Horizon
      BY <2>1, <2>4, <2>7
    <3>2. ppc[p] \in Nat /\ job[p].start \in Nat /\ time \in Nat
      BY <3>1, WorkType
    <3>3. ppc[p] <= SlotsSoFar(p) \/ (ppc[p] = 0 /\ job[p].start <= time)
      BY <2>4, <3>1 DEF OneCpuSpeed, WorkIsExact
    <3>q. QED
      BY <2>1, <2>2, <3>2, <3>3 DEF SlotsSoFar
  <2>q. QED
    BY <2>6, <2>7 DEF OneCpuSpeed
<1>5. CASE Timer
  <2>1. /\ UNCHANGED <<job, ppc, freed, nloaded, pc, proc>>
        /\ \/ Tick
           \/ time' = time /\ dev' = dev
    BY <1>5 DEF Timer, Halt, procVars, ldVars, cpuVars
  <2>2. time' \in 0..Horizon /\ time <= time' /\ time \in 0..Horizon
    BY <2>1 DEF Tick, Advance, TypeInv, TypeOK, ClockTypeOK
  <2>3. WorkIsExact'
    <3>1. \A p \in Loaded : p \in Procs /\ job[p].start \in Nat /\ job[p].start <= time'
      BY <2>2, WorkType DEF WorkIsExact, Loaded, Procs, TypeInv, TypeOK
    <3>q. QED
      BY <2>1, <3>1 DEF WorkIsExact, Loaded
  <2>4. ASSUME time' < Horizon, NEW p \in Loaded'
        PROVE  ppc'[p] <= SlotsSoFar(p)'
    <3>1. p \in Procs /\ p \in Loaded /\ time < Horizon
      BY <2>1, <2>2, <2>4 DEF Loaded, Procs, TypeInv, TypeOK
    <3>2. ppc[p] <= SlotsSoFar(p)
      BY <3>1 DEF OneCpuSpeed
    <3>3. ppc[p] \in Nat /\ job[p].start \in Nat /\ time \in Nat
      BY <3>1, WorkType
    <3>4. CASE Tick
      <4>1. time' = time + 1
        BY <3>1, <3>4 DEF Tick, Advance
      <4>q. QED
        BY <2>1, <3>2, <3>3, <4>1 DEF SlotsSoFar
    <3>5. CASE time' = time /\ dev' = dev
      BY <2>1, <3>2, <3>5 DEF SlotsSoFar, RanInSlot
    <3>q. QED
      BY <2>1, <3>4, <3>5
  <2>q. QED
    BY <2>3, <2>4 DEF OneCpuSpeed
<1>q. QED
  BY <1>1, <1>2, <1>3, <1>4, <1>5 DEF Next, Terminated

\* A process runs from its start time on, to the end of its code, and on one
\* CPU's worth of slots, however many CPUs share the queues.
THEOREM WorkIsDone == Safety => [](WorkIsExact /\ OneCpuSpeed)
<1>1. Init => WorkInv
  BY DEF Init, ClockInit, WorkInv, WorkIsExact, OneCpuSpeed, Loaded, JobType
<1>2. TypeInv /\ OneOwner /\ WorkInv /\ [Next]_vars => WorkInv'
  BY WorkNext
<1>3. WorkInv => WorkIsExact /\ OneCpuSpeed
  BY DEF WorkInv
<1>q. QED
  BY <1>1, <1>2, <1>3, TypeInvariance, OwnersAreUnique, PTL DEF Safety

\* A freed process is never run or freed again, by any CPU.
THEOREM FreedStaysFreed == Safety => FreedForGood
<1> DEFINE Stays == \A p \in freed : /\ p \in freed' /\ ppc'[p] = ppc[p]
                                     /\ \A c \in CPUs : RunSlot(c) \/ Finish(c) => proc[c] # p
<1>1. ASSUME TypeInv, OneOwner, Next
      PROVE  Stays
  <2>1. \A c \in CPUs : RunSlot(c) \/ Finish(c) => proc[c] \notin freed
    BY <1>1, OwnersAlive DEF RunSlot, Finish, Owns, At
  <2>2. \A p \in freed : p \in Procs
    BY <1>1 DEF TypeInv, TypeOK
  <2>3. \/ UNCHANGED ppc
        \/ \E c \in CPUs : RunSlot(c)
    BY <1>1 DEF Next, Cpu, IdleSlot, FirstLoad, Finish, Yield, Reget, Continue, Stop, SkipSlot,
                LoaderThread, LoaderWait, LoadProc, LoaderExit, Timer, Terminated, vars, procVars
  <2>4. freed \subseteq freed'
    BY <1>1 DEF Next, Cpu, IdleSlot, FirstLoad, Finish, Yield, Reget, Continue, Stop, SkipSlot,
                RunSlot, LoaderThread, LoaderWait, LoadProc, LoaderExit, Timer, Terminated, vars,
                procVars
  <2>5. \A p \in freed : ppc'[p] = ppc[p]
    BY <1>1, <2>1, <2>2, <2>3 DEF RunSlot, TypeInv, TypeOK
  <2>q. QED
    BY <2>1, <2>4, <2>5
<1>2. Safety => [][Stays]_vars
  BY <1>1, TypeInvariance, OwnersAreUnique, PTL DEF Safety
<1>q. QED
  BY <1>2 DEF FreedForGood
=============================================================================
