---------------------------- MODULE ReadyQueues ----------------------------
(***************************************************************************)
(* The data structure of the scheduler: the bounded arrays of queue.c and  *)
(* the multi-level queue that sched.c builds from them.  Only operators;   *)
(* MlqScheduler.tla and OsSim.tla call them from the critical sections of  *)
(* sched.c, one call per critical section.                                 *)
(*                                                                         *)
(* A queue is a sequence of processes, oldest first: proc[0 .. size-1].    *)
(***************************************************************************)
EXTENDS Naturals, Sequences

CONSTANTS
    MAX_PRIO,           \* number of priority levels
    MAX_QUEUE_SIZE,     \* capacity of the array of one queue
    NULL                \* the null pointer, no process

ASSUME LevelsAssumption == MAX_PRIO \in Nat \ {0}
ASSUME CapacityAssumption == MAX_QUEUE_SIZE \in Nat \ {0}

Levels == 0..(MAX_PRIO - 1)

-----------------------------------------------------------------------------
(* queue.c                                                                 *)

Empty(q) == q = <<>>

\* Faulty variant: the last element of the array is not used.
EnqueueShort(q, p) == IF Len(q) < MAX_QUEUE_SIZE - 1 THEN Append(q, p) ELSE q

\* A full queue silently drops the process: there is no error to report it.
Enqueue(q, p) == IF Len(q) < MAX_QUEUE_SIZE THEN Append(q, p) ELSE q

\* Faulty variant: first in, first out, whatever the priorities.
OldestIndex(q, pri) == 1

\* Faulty variant: >= instead of >, the youngest wins.
YoungestIndex(q, pri) ==
    CHOOSE i \in 1..Len(q) :
        /\ \A j \in 1..Len(q) : pri[q[j]] <= pri[q[i]]
        /\ \A j \in (i + 1)..Len(q) : pri[q[j]] < pri[q[i]]

(***************************************************************************)
(* The scan of dequeue with the strict > on the default priority of the    *)
(* processes (pri): the oldest among those of highest priority.            *)
(***************************************************************************)
HighestIndex(q, pri) ==
    CHOOSE i \in 1..Len(q) :
        /\ \A j \in 1..Len(q) : pri[q[j]] <= pri[q[i]]
        /\ \A j \in 1..(i - 1) : pri[q[j]] < pri[q[i]]

\* The process that dequeue returns.
Front(q, pri) == q[HighestIndex(q, pri)]

\* Faulty variant: size is not decremented.
RestSameSize(q, pri) ==
    LET h == HighestIndex(q, pri)
    IN  [i \in 1..Len(q) |-> IF i < h \/ i = Len(q) THEN q[i] ELSE q[i + 1]]

\* The queue that dequeue leaves: the younger ones shift down by one.
Rest(q, pri) ==
    LET h == HighestIndex(q, pri)
    IN  [i \in 1..(Len(q) - 1) |-> IF i < h THEN q[i] ELSE q[i + 1]]

-----------------------------------------------------------------------------
(* sched.c: mlq is mlq_ready_queue, one queue per level; cur is the static *)
(* currentPrio of get_mlq_proc.                                            *)

EmptyMlq == [l \in Levels |-> <<>>]

AllEmpty(mlq) == \A l \in Levels : Empty(mlq[l])

\* put_mlq_proc and add_mlq_proc have the same body.
Insert(mlq, l, p) == [mlq EXCEPT ![l] = Enqueue(@, p)]

\* The level looked at in the given attempt of the loop of get_mlq_proc.
Level(cur, attempt) == (cur + attempt) % MAX_PRIO

\* The attempt that finds the first non-empty level.
Attempt(mlq, cur) ==
    CHOOSE a \in Levels :
        /\ ~Empty(mlq[Level(cur, a)])
        /\ \A b \in 0..(a - 1) : Empty(mlq[Level(cur, b)])

\* Faulty variant: one slot too few.
SlotLeftShort(cur, attempt) == (MAX_PRIO - cur) - attempt - 1

\* slot, after "slot -= attempt".
SlotLeft(cur, attempt) == (MAX_PRIO - cur) - attempt

(***************************************************************************)
(* get_mlq_proc: the process it returns, and what it leaves behind.        *)
(***************************************************************************)
GetMlqProc(mlq, cur, pri) ==
    LET a == Attempt(mlq, cur)
        l == Level(cur, a)
    IN  IF AllEmpty(mlq)
        THEN [proc |-> NULL, mlq |-> mlq, currentPrio |-> cur]
        ELSE IF SlotLeft(cur, a) > 0
        THEN [proc |-> Front(mlq[l], pri),
              mlq |-> [mlq EXCEPT ![l] = Rest(@, pri)],
              currentPrio |-> cur]
        ELSE [proc |-> NULL, mlq |-> mlq, currentPrio |-> (l + 1) % MAX_PRIO]
=============================================================================
