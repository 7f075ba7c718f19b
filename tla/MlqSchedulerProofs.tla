------------------------- MODULE MlqSchedulerProofs -------------------------
(***************************************************************************)
(* Proofs about MlqScheduler, for every set of processes and CPUs, every   *)
(* number of levels, capacity, level and default priority: each process    *)
(* has one owner, turns are taken in a level, no CPU idles while a process *)
(* is ready and, if a queue can hold all processes, none is lost and the   *)
(* scheduler implements the pool of ReadyPool.                             *)
(***************************************************************************)
EXTENDS MlqScheduler, ReadyQueuesProofs, FiniteSetTheorems

USE ProcsAssumption, MaxPriorityAssumption, LevelsAssumption, CapacityAssumption

\* A queue has room for every process of the configuration.
CapacitySuffices == Cardinality(Procs) <= MAX_QUEUE_SIZE

-----------------------------------------------------------------------------
(* The inductive invariant.                                                *)

\* A queue holds processes of its own level, each at most once.
QueueInv ==
    \A l \in Levels :
        /\ Distinct(mlq[l])
        /\ \A i \in 1..Len(mlq[l]) : prio[mlq[l][i]] = l

\* A process is in at most one of: a queue, a CPU, new, finished.
OwnerInv ==
    /\ \A c \in CPUs : held[c] # NULL =>
          /\ ~InQueue(held[c])
          /\ held[c] \notin new \cup finished
          /\ \A d \in CPUs : held[d] = held[c] => d = c
    /\ \A p \in new \cup finished : ~InQueue(p)
    /\ new \cap finished = {}

\* The level at which get_mlq_proc starts never moves.
Inv == TypeOK /\ currentPrio = 0 /\ QueueInv /\ OwnerInv

-----------------------------------------------------------------------------
(* What the queues contain.                                                *)

LEMMA InQueueOccurs ==
  ASSUME TypeOK, NEW p
  PROVE  InQueue(p) <=> \E l \in Levels : Occurs(p, mlq[l])
<1>1. \A l \in Levels : Positions(l) = 1..Len(mlq[l])
  BY DEF TypeOK, Positions
<1>q. QED
  BY <1>1 DEF InQueue, Occurs

LEMMA InQueueLevel ==
  ASSUME TypeOK, QueueInv, NEW p
  PROVE  /\ InQueue(p) => p \in Procs /\ Occurs(p, mlq[prio[p]])
         /\ \A l \in Levels : Occurs(p, mlq[l]) => InQueue(p) /\ prio[p] = l
<1>1. ASSUME NEW l \in Levels, Occurs(p, mlq[l])
      PROVE  p \in Procs /\ prio[p] = l
  BY <1>1 DEF TypeOK, QueueInv, Occurs
<1>q. QED
  BY <1>1, InQueueOccurs

(***************************************************************************)
(* A process that is not in a queue finds room there: the others are fewer *)
(* than the capacity.                                                      *)
(***************************************************************************)
LEMMA RoomForOther ==
  ASSUME CapacitySuffices, NEW q \in Seq(Procs), Distinct(q),
         NEW p \in Procs, ~Occurs(p, q)
  PROVE  Len(q) < MAX_QUEUE_SIZE
<1> DEFINE Others == Procs \ {p}
<1>1. IsFiniteSet(Others) /\ Cardinality(Others) = Cardinality(Procs) - 1
  BY FS_RemoveElement
<1>2. Cardinality(Procs) \in Nat
  BY FS_CardinalityType
<1>3. q \in Injection(1..Len(q), Others)
  BY DEF Injection, IsInjective, Distinct, Occurs
<1>4. Cardinality(1..Len(q)) <= Cardinality(Others)
  BY <1>1, <1>3, FS_Injection
<1>5. Cardinality(1..Len(q)) = Len(q)
  <2>1. 1 \in Int /\ Len(q) \in Int /\ Len(q) \in Nat
    OBVIOUS
  <2>2. Cardinality(1..Len(q)) = IF 1 > Len(q) THEN 0 ELSE Len(q) - 1 + 1
    BY <2>1, FS_Interval, Zenon
  <2>q. QED
    BY <2>1, <2>2
<1>q. QED
  BY <1>1, <1>2, <1>4, <1>5 DEF CapacitySuffices

\* put_mlq_proc and add_mlq_proc.
LEMMA InsertEffect ==
  ASSUME TypeOK, QueueInv, NEW p \in Procs, ~InQueue(p),
         mlq' = Insert(mlq, prio[p], p), prio' = prio
  PROVE  /\ mlq' \in [Levels -> Seq(Procs)]
         /\ \A l \in Levels : Len(mlq'[l]) <= MAX_QUEUE_SIZE
         /\ QueueInv'
         /\ \A x : x # p => (InQueue(x)' <=> InQueue(x))
         /\ CapacitySuffices => InQueue(p)'
<1> DEFINE k == prio[p]
           q == mlq[k]
<1>1. k \in Levels /\ q \in Seq(Procs) /\ Len(q) <= MAX_QUEUE_SIZE /\ Distinct(q)
  BY DEF TypeOK, QueueInv
<1>2. ~Occurs(p, q)
  BY <1>1, InQueueLevel
<1>3. /\ Enqueue(q, p) \in Seq(Procs)
      /\ Len(Enqueue(q, p)) <= MAX_QUEUE_SIZE
      /\ Len(Enqueue(q, p)) >= Len(q)
      /\ \A i \in 1..Len(q) : Enqueue(q, p)[i] = q[i]
      /\ \A i \in 1..Len(Enqueue(q, p)) : i <= Len(q) \/ Enqueue(q, p)[i] = p
      /\ Len(q) < MAX_QUEUE_SIZE => Occurs(p, Enqueue(q, p))
  BY <1>1, EnqueueKeeps, Zenon
<1>4. Distinct(Enqueue(q, p))
  BY <1>1, <1>2, EnqueueDistinct
<1>5. /\ mlq' \in [Levels -> Seq(Procs)]
      /\ mlq'[k] = Enqueue(q, p)
      /\ \A l \in Levels \ {k} : mlq'[l] = mlq[l]
  BY <1>1, <1>3 DEF TypeOK, Insert
<1> HIDE DEF q
<1>6. \A l \in Levels : Len(mlq'[l]) <= MAX_QUEUE_SIZE
  BY <1>3, <1>5 DEF TypeOK
<1>7. \A i \in 1..Len(Enqueue(q, p)) : prio[Enqueue(q, p)[i]] = k
  <2>1. \A i \in 1..Len(q) : prio[q[i]] = k
    BY <1>1 DEF QueueInv, q
  <2>2. \A i \in 1..Len(Enqueue(q, p)) : i \in 1..Len(q) \/ Enqueue(q, p)[i] = p
    BY <1>1, <1>3
  <2>q. QED
    BY <1>3, <2>1, <2>2
<1>8. QueueInv'
  BY <1>4, <1>5, <1>7 DEF QueueInv
<1>9. ASSUME NEW x, x # p
      PROVE  InQueue(x)' <=> InQueue(x)
  <2>1. Occurs(x, Enqueue(q, p)) <=> Occurs(x, q)
    <3>1. ASSUME NEW i \in 1..Len(Enqueue(q, p)), Enqueue(q, p)[i] = x
          PROVE  i \in 1..Len(q) /\ q[i] = x
      BY <1>1, <1>3, <1>9, <3>1
    <3>2. ASSUME NEW i \in 1..Len(q), q[i] = x
          PROVE  i \in 1..Len(Enqueue(q, p)) /\ Enqueue(q, p)[i] = x
      BY <1>1, <1>3, <3>2
    <3>q. QED
      BY <3>1, <3>2 DEF Occurs
  <2>2. (\E l \in Levels : Occurs(x, mlq'[l])) <=> \E l \in Levels : Occurs(x, mlq[l])
    BY <1>5, <2>1 DEF q
  <2>3. InQueue(x)' <=> \E l \in Levels : Occurs(x, mlq'[l])
    <3>1. \A l \in Levels : DOMAIN mlq'[l] = 1..Len(mlq'[l])
      BY <1>5
    <3>q. QED
      BY <3>1 DEF InQueue, Positions, Occurs
  <2>q. QED
    BY <2>2, <2>3, InQueueOccurs
<1>10. CapacitySuffices => InQueue(p)'
  <2> SUFFICES ASSUME CapacitySuffices
               PROVE  InQueue(p)'
    OBVIOUS
  <2>1. Len(q) < MAX_QUEUE_SIZE
    BY <1>1, <1>2, RoomForOther DEF q
  <2>2. Occurs(p, mlq'[k])
    BY <1>3, <1>5, <2>1
  <2>3. DOMAIN mlq'[k] = 1..Len(mlq'[k])
    BY <1>1, <1>5
  <2>q. QED
    BY <1>1, <2>2, <2>3 DEF InQueue, Positions, Occurs
<1>q. QED
  BY <1>5, <1>6, <1>8, <1>9, <1>10

\* get_mlq_proc at the level l that it serves.
LEMMA RemoveEffect ==
  ASSUME TypeOK, QueueInv, NEW l \in Levels, mlq[l] # <<>>,
         mlq' = [mlq EXCEPT ![l] = Rest(mlq[l], priority)], prio' = prio,
         NEW p, p = Front(mlq[l], priority)
  PROVE  /\ mlq' \in [Levels -> Seq(Procs)]
         /\ \A m \in Levels : Len(mlq'[m]) <= MAX_QUEUE_SIZE
         /\ QueueInv'
         /\ p \in Procs /\ prio[p] = l /\ InQueue(p) /\ ~InQueue(p)'
         /\ \A x : x # p => (InQueue(x)' <=> InQueue(x))
<1> DEFINE q == mlq[l]
           r == Rest(q, priority)
<1>1. /\ q \in Seq(Procs) /\ q # <<>> /\ Len(q) <= MAX_QUEUE_SIZE /\ Distinct(q)
      /\ priority \in [Procs -> 0..MaxPriority]
  BY DEF TypeOK, QueueInv
<1>2. /\ p \in Procs /\ Occurs(p, q)
      /\ r \in Seq(Procs) /\ Len(r) = Len(q) - 1
  <2>1. MaxPriority \in Nat
    BY MaxPriorityAssumption
  <2>2. /\ Front(q, priority) \in Procs /\ Occurs(Front(q, priority), q)
        /\ Rest(q, priority) \in Seq(Procs)
        /\ Len(Rest(q, priority)) = Len(q) - 1
    <3> HIDE DEF q
    <3>q. QED
      BY ONLY <1>1, <2>1, RestRemoves
  <2>q. QED
    BY <2>2
<1>3. /\ Distinct(r) /\ ~Occurs(p, r)
      /\ \A x : x # p => (Occurs(x, r) <=> Occurs(x, q))
  <2>1. /\ Distinct(r) /\ ~Occurs(Front(q, priority), r)
        /\ \A x : x # Front(q, priority) => (Occurs(x, r) <=> Occurs(x, q))
    BY <1>1, RestDistinct
  <2>q. QED
    BY <2>1, Zenon
<1>4. /\ mlq' \in [Levels -> Seq(Procs)]
      /\ mlq'[l] = r
      /\ \A m \in Levels \ {l} : mlq'[m] = mlq[m]
  BY <1>2 DEF TypeOK
<1> HIDE DEF r
<1>5. InQueue(p) /\ prio[p] = l
  BY <1>2, InQueueLevel
<1>6. \A i \in 1..Len(r) : prio[r[i]] = l
  <2> SUFFICES ASSUME NEW i \in 1..Len(r)
               PROVE  prio[r[i]] = l
    OBVIOUS
  <2>1. Occurs(r[i], r)
    BY DEF Occurs
  <2>2. Occurs(r[i], q)
    BY <1>2, <1>3, <2>1
  <2>q. QED
    BY <2>2, InQueueLevel
<1>7. QueueInv'
  BY <1>3, <1>4, <1>6 DEF QueueInv
<1>8. \A m \in Levels : Len(mlq'[m]) <= MAX_QUEUE_SIZE
  BY <1>1, <1>2, <1>4 DEF TypeOK
<1>9. \A x : InQueue(x)' <=> \E m \in Levels : Occurs(x, mlq'[m])
  <2>1. \A m \in Levels : DOMAIN mlq'[m] = 1..Len(mlq'[m])
    BY <1>4
  <2>q. QED
    BY <2>1 DEF InQueue, Positions, Occurs
<1>10. ~InQueue(p)'
  <2>1. \A m \in Levels \ {l} : ~Occurs(p, mlq[m])
    BY <1>5, InQueueLevel
  <2>q. QED
    BY <1>3, <1>4, <1>9, <2>1
<1>11. \A x : x # p => (InQueue(x)' <=> InQueue(x))
  BY <1>3, <1>4, <1>9, InQueueOccurs
<1>q. QED
  BY <1>2, <1>4, <1>5, <1>7, <1>8, <1>10, <1>11

(***************************************************************************)
(* A get_proc finds nothing and changes nothing, or takes the front of the *)
(* first non-empty level.                                                  *)
(***************************************************************************)
LEMMA GetCases ==
  ASSUME Inv, NEW c \in CPUs, GetProc(c)
  PROVE  \/ AllEmpty(mlq) /\ UNCHANGED vars
         \/ \E l \in Levels :
               /\ mlq[l] # <<>>
               /\ \A m \in Levels : m < l => mlq[m] = <<>>
               /\ mlq' = [mlq EXCEPT ![l] = Rest(mlq[l], priority)]
               /\ held' = [held EXCEPT ![c] = Front(mlq[l], priority)]
               /\ UNCHANGED <<prio, priority, currentPrio, new, finished>>
<1>1. CASE AllEmpty(mlq)
  <2>1. GetMlqProc(mlq, currentPrio, priority) =
           [proc |-> NULL, mlq |-> mlq, currentPrio |-> currentPrio]
    BY <1>1, GetNothing
  <2>2. held' = [held EXCEPT ![c] = NULL] /\ held[c] = NULL
    BY <2>1 DEF GetProc
  <2>3. held' = held
    BY <2>2 DEF Inv, TypeOK
  <2>q. QED
    BY <1>1, <2>1, <2>3 DEF GetProc, vars
<1>2. CASE ~AllEmpty(mlq)
  <2>1. currentPrio = 0
    BY DEF Inv
  <2>2. PICK l \in Levels :
           /\ mlq[l] # <<>>
           /\ \A m \in Levels : m < l => mlq[m] = <<>>
           /\ GetMlqProc(mlq, 0, priority).proc = Front(mlq[l], priority)
           /\ GetMlqProc(mlq, 0, priority).mlq
                 = [mlq EXCEPT ![l] = Rest(mlq[l], priority)]
           /\ GetMlqProc(mlq, 0, priority).currentPrio = 0
    BY <1>2, GetServesFirst
  <2>q. QED
    BY <2>1, <2>2 DEF GetProc
<1>q. QED
  BY <1>1, <1>2

-----------------------------------------------------------------------------
(* The invariant holds initially and is preserved, one lemma per action.   *)

LEMMA InitInv == Init => Inv
<1> SUFFICES ASSUME Init
             PROVE  Inv
  OBVIOUS
<1>1. mlq \in [Levels -> Seq(Procs)] /\ \A l \in Levels : mlq[l] = <<>>
  BY DEF Init, EmptyMlq
<1>2. \A p : ~InQueue(p)
  BY <1>1 DEF InQueue, Positions
<1>q. QED
  BY <1>1, <1>2 DEF Init, Inv, TypeOK, QueueInv, OwnerInv, Distinct, Levels

LEMMA AddInv ==
  ASSUME Inv, NEW p \in Procs, AddProc(p)
  PROVE  Inv'
<1>1. ~InQueue(p)
  BY DEF Inv, OwnerInv, AddProc
<1>2. /\ mlq' \in [Levels -> Seq(Procs)]
      /\ \A l \in Levels : Len(mlq'[l]) <= MAX_QUEUE_SIZE
      /\ QueueInv'
      /\ \A x : x # p => (InQueue(x)' <=> InQueue(x))
  BY <1>1, InsertEffect DEF Inv, AddProc
<1>3. TypeOK' /\ currentPrio' = 0
  BY <1>2 DEF Inv, TypeOK, AddProc
<1>4. OwnerInv'
  BY <1>2 DEF Inv, TypeOK, OwnerInv, AddProc
<1>q. QED
  BY <1>2, <1>3, <1>4 DEF Inv

LEMMA GetInv ==
  ASSUME Inv, NEW c \in CPUs, GetProc(c)
  PROVE  Inv'
<1>1. CASE UNCHANGED vars
  BY <1>1 DEF vars, Inv, TypeOK, QueueInv, OwnerInv, InQueue, Positions
<1>2. CASE ~(UNCHANGED vars)
  <2>1. PICK l \in Levels :
           /\ mlq[l] # <<>>
           /\ mlq' = [mlq EXCEPT ![l] = Rest(mlq[l], priority)]
           /\ held' = [held EXCEPT ![c] = Front(mlq[l], priority)]
           /\ UNCHANGED <<prio, priority, currentPrio, new, finished>>
    BY <1>2, GetCases
  <2>a. PICK p : p = Front(mlq[l], priority)
    OBVIOUS
  <2>2. /\ mlq' \in [Levels -> Seq(Procs)]
        /\ \A m \in Levels : Len(mlq'[m]) <= MAX_QUEUE_SIZE
        /\ QueueInv'
        /\ p \in Procs /\ InQueue(p) /\ ~InQueue(p)'
        /\ \A x : x # p => (InQueue(x)' <=> InQueue(x))
    BY <2>1, <2>a, RemoveEffect DEF Inv
  <2>3. held' = [held EXCEPT ![c] = p]
    BY <2>1, <2>a
  <2>4. TypeOK' /\ currentPrio' = 0
    BY <2>1, <2>2, <2>3 DEF Inv, TypeOK
  <2>5. OwnerInv'
    BY <2>1, <2>2, <2>3 DEF Inv, TypeOK, OwnerInv
  <2>q. QED
    BY <2>2, <2>4, <2>5 DEF Inv
<1>q. QED
  BY <1>1, <1>2

LEMMA PutInv ==
  ASSUME Inv, NEW c \in CPUs, PutProc(c)
  PROVE  Inv'
<1> DEFINE p == held[c]
<1>1. p \in Procs /\ ~InQueue(p)
  BY DEF Inv, TypeOK, OwnerInv, PutProc
<1>2. /\ mlq' \in [Levels -> Seq(Procs)]
      /\ \A l \in Levels : Len(mlq'[l]) <= MAX_QUEUE_SIZE
      /\ QueueInv'
      /\ \A x : x # p => (InQueue(x)' <=> InQueue(x))
  BY <1>1, InsertEffect DEF Inv, PutProc
<1>3. TypeOK' /\ currentPrio' = 0
  BY <1>2 DEF Inv, TypeOK, PutProc
<1>4. OwnerInv'
  BY <1>2 DEF Inv, TypeOK, OwnerInv, PutProc
<1>q. QED
  BY <1>2, <1>3, <1>4 DEF Inv

LEMMA FinishInv ==
  ASSUME Inv, NEW c \in CPUs, FinishProc(c)
  PROVE  Inv'
<1>1. \A x : InQueue(x)' <=> InQueue(x)
  BY DEF FinishProc, InQueue, Positions
<1>2. TypeOK' /\ currentPrio' = 0 /\ QueueInv'
  BY DEF Inv, TypeOK, QueueInv, FinishProc
<1>3. OwnerInv'
  BY <1>1 DEF Inv, TypeOK, OwnerInv, FinishProc
<1>q. QED
  BY <1>2, <1>3 DEF Inv

LEMMA NextInv == Inv /\ [Next]_vars => Inv'
<1> SUFFICES ASSUME Inv, [Next]_vars
             PROVE  Inv'
  OBVIOUS
<1>1. CASE UNCHANGED vars
  BY <1>1 DEF vars, Inv, TypeOK, QueueInv, OwnerInv, InQueue, Positions
<1>q. QED
  BY <1>1, AddInv, GetInv, PutInv, FinishInv DEF Next

\* Inv is an invariant of sched.c, however its callers interleave.
THEOREM Invariance == Safety => []Inv
  BY InitInv, NextInv, PTL DEF Safety
\* The variables of sched.c and of its callers keep their types; a queue never
\* holds more than MAX_QUEUE_SIZE processes.
THEOREM TypeCorrect == Safety => []TypeOK
<1>1. Inv => TypeOK
  BY DEF Inv
<1>q. QED
  BY <1>1, Invariance, PTL

-----------------------------------------------------------------------------
(* One owner.                                                              *)

LEMMA InvOneOwner == Inv => OneOwner
<1> SUFFICES ASSUME Inv
             PROVE  OneOwner
  OBVIOUS
<1>1. ASSUME NEW l \in Levels, NEW m \in Levels,
             NEW i \in Positions(l), NEW j \in Positions(m), mlq[l][i] = mlq[m][j]
      PROVE  l = m /\ i = j
  <2>1. i \in 1..Len(mlq[l]) /\ j \in 1..Len(mlq[m])
    BY DEF Inv, TypeOK, Positions
  <2>2. prio[mlq[l][i]] = l /\ prio[mlq[m][j]] = m
    BY <2>1 DEF Inv, QueueInv
  <2>3. l = m
    BY <1>1, <2>2
  <2>q. QED
    BY <1>1, <2>1, <2>3 DEF Inv, QueueInv, Distinct
<1>q. QED
  BY <1>1 DEF Inv, OwnerInv, OneOwner

\* No two queue entries, CPUs or final states own one process, however the
\* callers of sched.c interleave and even if queues overflow.
THEOREM OwnersAreUnique == Safety => []OneOwner
  BY InvOneOwner, Invariance, PTL

-----------------------------------------------------------------------------
(* No idling.                                                              *)

LEMMA InvNoIdle == Inv => NoIdleWhileReady
<1> SUFFICES ASSUME Inv, ~AllEmpty(mlq)
             PROVE  GetMlqProc(mlq, currentPrio, priority).proc # NULL
  BY DEF NoIdleWhileReady
<1>1. PICK l \in Levels :
         /\ mlq[l] # <<>>
         /\ \A m \in Levels : m < l => mlq[m] = <<>>
         /\ GetMlqProc(mlq, 0, priority).proc = Front(mlq[l], priority)
         /\ GetMlqProc(mlq, 0, priority).mlq
               = [mlq EXCEPT ![l] = Rest(mlq[l], priority)]
         /\ GetMlqProc(mlq, 0, priority).currentPrio = 0
  BY GetServesFirst
<1>2. mlq[l] \in Seq(Procs) /\ priority \in [Procs -> 0..MaxPriority]
  BY DEF Inv, TypeOK
<1>3. Front(mlq[l], priority) \in Procs
  BY <1>1, <1>2, RestRemoves
<1>q. QED
  BY <1>1, <1>3 DEF Inv

\* get_mlq_proc, called in any reachable state, finds a process if there is
\* one: the exit of its loop at slot <= 0 is never taken.
THEOREM NoIdling == Safety => []NoIdleWhileReady
  BY InvNoIdle, Invariance, PTL

-----------------------------------------------------------------------------
(* No process is lost.                                                     *)

LostInv == CapacitySuffices => NoProcessLost

LEMMA LostInit == Init => LostInv
  BY DEF Init, LostInv, NoProcessLost

LEMMA LostNext == Inv /\ LostInv /\ [Next]_vars => LostInv'
<1> SUFFICES ASSUME Inv, LostInv, [Next]_vars, CapacitySuffices
             PROVE  NoProcessLost'
  BY DEF LostInv, CapacitySuffices
<1>0. NoProcessLost
  BY DEF LostInv
<1>1. CASE UNCHANGED vars
  BY <1>0, <1>1 DEF vars, NoProcessLost, InQueue, Positions
<1>2. ASSUME NEW p \in Procs, AddProc(p)
      PROVE  NoProcessLost'
  <2>1. ~InQueue(p)
    BY <1>2 DEF Inv, OwnerInv, AddProc
  <2>2. /\ \A x : x # p => (InQueue(x)' <=> InQueue(x))
        /\ InQueue(p)'
    BY <1>2, <2>1, InsertEffect DEF Inv, AddProc
  <2>q. QED
    BY <1>0, <1>2, <2>2 DEF NoProcessLost, AddProc
<1>3. ASSUME NEW c \in CPUs, GetProc(c)
      PROVE  NoProcessLost'
  <2>1. CASE UNCHANGED vars
    BY <1>1, <2>1
  <2>2. CASE ~(UNCHANGED vars)
    <3>1. PICK l \in Levels :
             /\ mlq[l] # <<>>
             /\ mlq' = [mlq EXCEPT ![l] = Rest(mlq[l], priority)]
             /\ held' = [held EXCEPT ![c] = Front(mlq[l], priority)]
             /\ UNCHANGED <<prio, priority, currentPrio, new, finished>>
      BY <1>3, <2>2, GetCases
    <3>2. PICK p : p = Front(mlq[l], priority)
      OBVIOUS
    <3>3. \A x : x # p => (InQueue(x)' <=> InQueue(x))
      BY <3>1, <3>2, RemoveEffect DEF Inv
    <3>4. held' = [held EXCEPT ![c] = p] /\ held[c] = NULL
      BY <1>3, <3>1, <3>2 DEF GetProc
    <3>5. held'[c] = p /\ \A d \in CPUs : held[d] # NULL => held'[d] = held[d]
      BY <3>4 DEF Inv, TypeOK
    <3>q. QED
      BY <1>0, <3>1, <3>3, <3>5 DEF NoProcessLost
  <2>q. QED
    BY <2>1, <2>2
<1>4. ASSUME NEW c \in CPUs, PutProc(c)
      PROVE  NoProcessLost'
  <2>1. PICK p : p = held[c]
    OBVIOUS
  <2>2. p \in Procs /\ ~InQueue(p)
    BY <1>4, <2>1 DEF Inv, TypeOK, OwnerInv, PutProc
  <2>3. mlq' = Insert(mlq, prio[p], p) /\ prio' = prio
    BY <1>4, <2>1 DEF PutProc
  <2>4. /\ \A x : x # p => (InQueue(x)' <=> InQueue(x))
        /\ InQueue(p)'
    BY <2>2, <2>3, InsertEffect DEF Inv
  <2>5. \A d \in CPUs : held[d] # p => held'[d] = held[d]
    BY <1>4, <2>1 DEF Inv, TypeOK, PutProc
  <2>6. new' = new /\ finished' = finished
    BY <1>4 DEF PutProc
  <2>q. QED
    BY <1>0, <2>4, <2>5, <2>6 DEF NoProcessLost
<1>5. ASSUME NEW c \in CPUs, FinishProc(c)
      PROVE  NoProcessLost'
  <2>1. \A x : InQueue(x)' <=> InQueue(x)
    BY <1>5 DEF FinishProc, InQueue, Positions
  <2>q. QED
    BY <1>0, <1>5, <2>1 DEF Inv, TypeOK, NoProcessLost, FinishProc
<1>q. QED
  BY <1>1, <1>2, <1>3, <1>4, <1>5 DEF Next

\* With no more processes than a queue holds, the silent drop in enqueue is
\* never reached: every process that was added is queued, held or freed.
THEOREM NothingIsLost == CapacitySuffices /\ Safety => []NoProcessLost
<1>1. Init => LostInv
  BY LostInit
<1>2. Inv /\ Inv' /\ LostInv /\ [Next]_vars => LostInv'
  BY LostNext
<1>3. Safety => []LostInv
  BY <1>1, <1>2, Invariance, PTL DEF Safety
<1>4. CASE CapacitySuffices
  <2>1. LostInv => NoProcessLost
    BY <1>4 DEF LostInv
  <2>q. QED
    BY <1>3, <2>1, PTL
<1>q. QED
  BY <1>4
-----------------------------------------------------------------------------
(* Turns are taken in a level.                                             *)

LEMMA InsertKeepsOrder ==
  ASSUME TypeOK, NEW p \in Procs, mlq' = Insert(mlq, prio[p], p),
         NEW l \in Levels, NEW x, NEW y, Queued(l, x, y)
  PROVE  Queued(l, x, y)'
<1>1. PICK q : q = mlq[l]
  OBVIOUS
<1>2. q \in Seq(Procs) /\ Len(q) \in Nat
  BY <1>1 DEF TypeOK
<1>3. \E i, j \in 1..Len(q) : i < j /\ q[i] = x /\ q[j] = y
  BY <1>1, <1>2 DEF Queued, Positions
<1>4. CASE l = prio[p]
  <2>1. PICK e : e = Enqueue(q, p)
    OBVIOUS
  <2>2. /\ Enqueue(q, p) \in Seq(Procs)
        /\ Len(Enqueue(q, p)) >= Len(q)
        /\ \A k \in 1..Len(q) : Enqueue(q, p)[k] = q[k]
    BY <1>2, EnqueueKeeps, Zenon
  <2>3. /\ e \in Seq(Procs)
        /\ Len(e) >= Len(q)
        /\ \A k \in 1..Len(q) : e[k] = q[k]
    BY <2>1, <2>2, Zenon
  <2>4. mlq'[l] = e
    BY <1>1, <1>4, <2>1 DEF TypeOK, Insert
  <2>5. \A i \in 1..Len(q) : i \in 1..Len(e)
    BY <1>2, <2>3
  <2>6. \E i, j \in 1..Len(e) : i < j /\ e[i] = x /\ e[j] = y
    BY <1>3, <2>3, <2>5
  <2>7. DOMAIN e = 1..Len(e)
    BY <2>3
  <2>q. QED
    BY <2>4, <2>6, <2>7 DEF Queued, Positions
<1>5. CASE l # prio[p]
  <2>1. mlq'[l] = mlq[l]
    BY <1>5 DEF TypeOK, Insert
  <2>q. QED
    BY <2>1 DEF Queued, Positions
<1>q. QED
  BY <1>4, <1>5

\* RestKeepsOrder for the queues of this module.
LEMMA OlderStaysAhead ==
  ASSUME NEW s \in Seq(Procs), s # <<>>, NEW pri \in [Procs -> 0..MaxPriority]
  PROVE  \A i, j \in 1..Len(s) :
            i < j /\ pri[s[i]] = pri[s[j]] /\ s[i] # Front(s, pri) =>
               \E k, m \in 1..Len(Rest(s, pri)) :
                  k < m /\ Rest(s, pri)[k] = s[i] /\ Rest(s, pri)[m] = s[j]
  BY RestKeepsOrder

\* What NoOvertaking says of one step.
KeepsTurns ==
    \A l \in Levels : \A p, q \in Procs :
        Queued(l, p, q) /\ priority[p] = priority[q] =>
            Queued(l, p, q)' \/ ~InQueue(p)'

LEMMA StepKeepsTurns == Inv /\ [Next]_vars => KeepsTurns \/ UNCHANGED vars
<1> SUFFICES ASSUME Inv, Next, ~(UNCHANGED vars),
                    NEW l \in Levels, NEW p \in Procs, NEW q \in Procs,
                    Queued(l, p, q), priority[p] = priority[q]
             PROVE  Queued(l, p, q)' \/ ~InQueue(p)'
  BY DEF KeepsTurns
<1>1. ASSUME NEW x \in Procs, AddProc(x)
      PROVE  Queued(l, p, q)'
  BY <1>1, InsertKeepsOrder DEF Inv, AddProc
<1>2. ASSUME NEW c \in CPUs, PutProc(c)
      PROVE  Queued(l, p, q)'
  <2>1. PICK x : x = held[c]
    OBVIOUS
  <2>2. x \in Procs /\ mlq' = Insert(mlq, prio[x], x)
    BY <1>2, <2>1 DEF Inv, TypeOK, PutProc
  <2>q. QED
    BY <2>2, InsertKeepsOrder DEF Inv
<1>3. ASSUME NEW c \in CPUs, FinishProc(c)
      PROVE  Queued(l, p, q)'
  BY <1>3 DEF FinishProc, Queued, Positions
<1>4. ASSUME NEW c \in CPUs, GetProc(c)
      PROVE  Queued(l, p, q)' \/ ~InQueue(p)'
  <2>1. PICK k \in Levels :
           /\ mlq[k] # <<>>
           /\ mlq' = [mlq EXCEPT ![k] = Rest(mlq[k], priority)]
           /\ UNCHANGED <<prio, priority, currentPrio, new, finished>>
    BY <1>4, GetCases
  <2>2. CASE k # l
    <3>1. mlq'[l] = mlq[l]
      BY <2>1, <2>2 DEF Inv, TypeOK
    <3>q. QED
      BY <3>1 DEF Queued, Positions
  <2>3. CASE k = l /\ p = Front(mlq[l], priority)
    BY <2>1, <2>3, RemoveEffect DEF Inv
  <2>4. CASE k = l /\ p # Front(mlq[l], priority)
    <3>1. PICK r : r = Rest(mlq[l], priority)
      OBVIOUS
    <3>2. mlq'[l] = r
      BY <2>1, <2>4, <3>1 DEF Inv, TypeOK
    <3>3. mlq[l] \in Seq(Procs) /\ priority \in [Procs -> 0..MaxPriority]
      BY DEF Inv, TypeOK
    <3>4. r \in Seq(Procs)
      BY <2>1, <2>4, <3>1, <3>3, RestRemoves
    <3>5. PICK i \in 1..Len(mlq[l]), j \in 1..Len(mlq[l]) :
             i < j /\ mlq[l][i] = p /\ mlq[l][j] = q
      BY <3>3 DEF Queued, Positions
    <3>6. \E a, b \in 1..Len(r) : a < b /\ r[a] = p /\ r[b] = q
      <4>1. PICK s, pri : s = mlq[l] /\ pri = priority
        OBVIOUS
      <4>2. s \in Seq(Procs) /\ s # <<>> /\ pri \in [Procs -> 0..MaxPriority]
        BY <2>1, <2>4, <3>3, <4>1
      <4>3. /\ i \in 1..Len(s) /\ j \in 1..Len(s) /\ i < j
            /\ pri[s[i]] = pri[s[j]] /\ s[i] # Front(s, pri)
        BY <2>4, <3>5, <4>1
      <4>4. \A f, g \in 1..Len(s) :
               f < g /\ pri[s[f]] = pri[s[g]] /\ s[f] # Front(s, pri) =>
                  \E a, b \in 1..Len(Rest(s, pri)) :
                     a < b /\ Rest(s, pri)[a] = s[f] /\ Rest(s, pri)[b] = s[g]
        BY <4>2, OlderStaysAhead
      <4>5. \E a, b \in 1..Len(Rest(s, pri)) :
               a < b /\ Rest(s, pri)[a] = s[i] /\ Rest(s, pri)[b] = s[j]
        BY <4>3, <4>4, Zenon
      <4>q. QED
        BY <3>1, <3>5, <4>1, <4>5, Zenon
    <3>7. DOMAIN r = 1..Len(r)
      BY <3>4
    <3>q. QED
      BY <3>2, <3>6, <3>7 DEF Queued, Positions
  <2>q. QED
    BY <2>2, <2>3, <2>4
<1>q. QED
  BY <1>1, <1>2, <1>3, <1>4 DEF Next

\* The strict comparison in dequeue and its shift keep first come, first
\* served among processes of equal level and equal default priority.
THEOREM TurnsAreTaken == Safety => NoOvertaking
<1>1. Inv /\ [Next]_vars => [KeepsTurns]_vars
  BY StepKeepsTurns
<1>2. Safety => [][KeepsTurns]_vars
  BY <1>1, Invariance, PTL DEF Safety
<1>q. QED
  BY <1>2 DEF NoOvertaking, KeepsTurns
-----------------------------------------------------------------------------
(* The scheduler implements the pool.                                      *)

Ready == {p \in Procs : InQueue(p)}

LEMMA InitMapsToPool == Init => Pool!PoolInit
<1> SUFFICES ASSUME Init
             PROVE  Pool!PoolInit
  OBVIOUS
<1>1. \A p : ~InQueue(p)
  BY DEF Init, EmptyMlq, InQueue, Positions
<1>q. QED
  BY <1>1 DEF Init, Pool!PoolInit

\* The process at the front of the first non-empty level is the best one.
LEMMA FrontIsPreferred ==
  ASSUME Inv, NEW l \in Levels, mlq[l] # <<>>,
         \A m \in Levels : m < l => mlq[m] = <<>>
  PROVE  Front(mlq[l], priority) \in Pool!Preferred(Ready)
<1>1. PICK s, f : s = mlq[l] /\ f = Front(mlq[l], priority)
  OBVIOUS
<1>2. s \in Seq(Procs) /\ priority \in [Procs -> 0..MaxPriority]
  BY <1>1 DEF Inv, TypeOK
<1>3. /\ f \in Procs /\ Occurs(f, s)
      /\ \A j \in 1..Len(s) : priority[s[j]] <= priority[f]
  BY <1>1, <1>2, RestRemoves
<1>4. f \in Ready /\ prio[f] = l
  BY <1>1, <1>3, InQueueLevel DEF Inv, Ready
<1>5. ASSUME NEW q \in Ready
      PROVE  /\ prio[f] <= prio[q]
             /\ prio[q] = prio[f] => priority[q] <= priority[f]
  <2>1. q \in Procs /\ Occurs(q, mlq[prio[q]])
    BY InQueueLevel DEF Inv, Ready
  <2>2. mlq[prio[q]] # <<>> /\ prio[q] \in Levels
    BY <2>1 DEF Inv, TypeOK, Occurs
  <2>3. prio[f] <= prio[q]
    BY <1>4, <2>2 DEF Levels
  <2>4. ASSUME prio[q] = prio[f]
        PROVE  priority[q] <= priority[f]
    BY <1>1, <1>3, <1>4, <2>1, <2>4 DEF Occurs
  <2>q. QED
    BY <2>3, <2>4
<1>6. ASSUME NEW q \in Ready, \A r \in Ready : prio[q] <= prio[r]
      PROVE  prio[q] = prio[f]
  <2>1. prio[q] <= prio[f] /\ prio[f] <= prio[q]
    BY <1>4, <1>5, <1>6
  <2>2. prio[q] \in Nat /\ prio[f] \in Nat
    BY <1>4 DEF Inv, TypeOK, Levels, Ready
  <2>q. QED
    BY <2>1, <2>2
<1>q. QED
  BY <1>1, <1>4, <1>5, <1>6 DEF Pool!Preferred, Pool!Best

LEMMA StepMapsToPool ==
  CapacitySuffices /\ Inv /\ [Next]_vars => [Pool!PoolNext]_(Pool!poolVars)
<1> SUFFICES ASSUME CapacitySuffices, Inv, [Next]_vars
             PROVE  [Pool!PoolNext]_(Pool!poolVars)
  OBVIOUS
<1>1. CASE UNCHANGED vars
  BY <1>1 DEF vars, Pool!poolVars, InQueue, Positions
<1>2. ASSUME NEW p \in Procs, AddProc(p)
      PROVE  Pool!PoolAdd(p)
  <2>1. ~InQueue(p)
    BY <1>2 DEF Inv, OwnerInv, AddProc
  <2>2. /\ \A x : x # p => (InQueue(x)' <=> InQueue(x))
        /\ InQueue(p)'
    BY <1>2, <2>1, InsertEffect DEF Inv, AddProc
  <2>3. Ready' = Ready \cup {p}
    BY <2>2 DEF Ready
  <2>q. QED
    BY <1>2, <2>3 DEF Ready, Pool!PoolAdd, AddProc
<1>3. ASSUME NEW c \in CPUs, GetProc(c), ~(UNCHANGED vars)
      PROVE  Pool!PoolGet(c)
  <2>1. PICK l \in Levels :
           /\ mlq[l] # <<>>
           /\ \A m \in Levels : m < l => mlq[m] = <<>>
           /\ mlq' = [mlq EXCEPT ![l] = Rest(mlq[l], priority)]
           /\ held' = [held EXCEPT ![c] = Front(mlq[l], priority)]
           /\ UNCHANGED <<prio, priority, currentPrio, new, finished>>
    BY <1>3, GetCases
  <2>2. PICK p : p = Front(mlq[l], priority)
    OBVIOUS
  <2>3. p \in Pool!Preferred(Ready)
    BY <2>1, <2>2, FrontIsPreferred
  <2>4. /\ InQueue(p) /\ ~InQueue(p)'
        /\ \A x : x # p => (InQueue(x)' <=> InQueue(x))
    BY <2>1, <2>2, RemoveEffect DEF Inv
  <2>5. Ready' = Ready \ {p}
    BY <2>4 DEF Ready
  <2>6. held[c] = NULL /\ held' = [held EXCEPT ![c] = p]
    BY <1>3, <2>1, <2>2 DEF GetProc
  <2>q. QED
    BY <2>1, <2>3, <2>5, <2>6 DEF Ready, Pool!PoolGet
<1>4. ASSUME NEW c \in CPUs, PutProc(c)
      PROVE  Pool!PoolPut(c)
  <2>1. PICK p : p = held[c]
    OBVIOUS
  <2>2. p \in Procs /\ ~InQueue(p)
    BY <1>4, <2>1 DEF Inv, TypeOK, OwnerInv, PutProc
  <2>3. mlq' = Insert(mlq, prio[p], p) /\ prio' = prio
    BY <1>4, <2>1 DEF PutProc
  <2>4. /\ \A x : x # p => (InQueue(x)' <=> InQueue(x))
        /\ InQueue(p)'
    BY <2>2, <2>3, InsertEffect DEF Inv
  <2>5. Ready' = Ready \cup {p}
    BY <2>2, <2>4 DEF Ready
  <2>q. QED
    BY <1>4, <2>1, <2>5 DEF Ready, Pool!PoolPut, PutProc
<1>5. ASSUME NEW c \in CPUs, FinishProc(c)
      PROVE  Pool!PoolFinish(c)
  <2>1. \A x : InQueue(x)' <=> InQueue(x)
    BY <1>5 DEF FinishProc, InQueue, Positions
  <2>q. QED
    BY <1>5, <2>1 DEF Pool!PoolFinish, FinishProc
<1>q. QED
  BY <1>1, <1>2, <1>3, <1>4, <1>5 DEF Next, Pool!PoolNext

\* With enough capacity, the arrays, the level scan and the slots of sched.c
\* implement the pool: get_proc returns a process of the best level and, in
\* it, of the highest default priority, and nothing leaves the pool otherwise.
THEOREM SchedulerImplementsPool == CapacitySuffices /\ Safety => ImplementsPool
<1>1. Init => Pool!PoolInit
  BY InitMapsToPool
<1>2. CapacitySuffices /\ Inv /\ [Next]_vars => [Pool!PoolNext]_(Pool!poolVars)
  BY StepMapsToPool
<1>3. CASE CapacitySuffices
  <2>1. Inv /\ [Next]_vars => [Pool!PoolNext]_(Pool!poolVars)
    BY <1>2, <1>3
  <2>2. Safety => Pool!PoolSafety
    BY <1>1, <2>1, Invariance, PTL DEF Safety, Pool!PoolSafety
  <2>q. QED
    BY <2>2 DEF ImplementsPool
<1>q. QED
  BY <1>3
=============================================================================
