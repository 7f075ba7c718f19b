---------------------------- MODULE MlqScheduler ----------------------------
(***************************************************************************)
(* sched.c and its callers.  Every scheduler operation is one critical     *)
(* section of queue_lock, hence one action; the callers may interleave     *)
(* them in any order: the loader adds processes, a CPU gets one, later     *)
(* puts it back or frees it.  OsSim.tla has the order in which cpu_routine *)
(* really makes these calls.                                               *)
(***************************************************************************)
EXTENDS ReadyQueues, FiniteSets

CONSTANTS
    Procs,          \* the processes of the configuration
    CPUs,           \* the CPU threads
    MaxPriority     \* the largest default priority

ASSUME ProcsAssumption == IsFiniteSet(Procs) /\ NULL \notin Procs
ASSUME MaxPriorityAssumption == MaxPriority \in Nat

VARIABLES
    prio,           \* pcb_t.prio, from the configuration file
    priority,       \* pcb_t.priority, from the process file
    mlq,            \* mlq_ready_queue
    currentPrio,    \* static variable of get_mlq_proc
    held,           \* local proc of each CPU, NULL if it has none
    new,            \* processes not yet given to add_proc
    finished        \* processes freed by a CPU

vars == <<prio, priority, mlq, currentPrio, held, new, finished>>

\* Types of all variables.
TypeOK ==
    /\ prio \in [Procs -> Levels]
    /\ priority \in [Procs -> 0..MaxPriority]
    /\ mlq \in [Levels -> Seq(Procs)]
    /\ \A l \in Levels : Len(mlq[l]) <= MAX_QUEUE_SIZE
    /\ currentPrio \in Levels
    /\ held \in [CPUs -> Procs \cup {NULL}]
    /\ new \in SUBSET Procs
    /\ finished \in SUBSET Procs

Init ==
    /\ prio \in [Procs -> Levels]
    /\ priority \in [Procs -> 0..MaxPriority]
    /\ mlq = EmptyMlq
    /\ currentPrio = 0
    /\ held = [c \in CPUs |-> NULL]
    /\ new = Procs
    /\ finished = {}

-----------------------------------------------------------------------------

\* The loader calls add_proc.
AddProc(p) ==
    /\ p \in new
    /\ new' = new \ {p}
    /\ mlq' = Insert(mlq, prio[p], p)
    /\ UNCHANGED <<prio, priority, currentPrio, held, finished>>

\* Faulty variant: the level moves on after a dispatch, without a modulo.
GetProcMovesOn(c) ==
    LET r == GetMlqProc(mlq, currentPrio, priority)
    IN  /\ held[c] = NULL
        /\ held' = [held EXCEPT ![c] = r.proc]
        /\ mlq' = r.mlq
        /\ currentPrio' = IF r.proc = NULL THEN currentPrio ELSE currentPrio + 1
        /\ UNCHANGED <<prio, priority, new, finished>>

\* A CPU without a process calls get_proc.
GetProc(c) ==
    LET r == GetMlqProc(mlq, currentPrio, priority)
    IN  /\ held[c] = NULL
        /\ held' = [held EXCEPT ![c] = r.proc]
        /\ mlq' = r.mlq
        /\ currentPrio' = r.currentPrio
        /\ UNCHANGED <<prio, priority, new, finished>>

\* A CPU calls put_proc for its process, which it must not touch any more.
PutProc(c) ==
    /\ held[c] # NULL
    /\ mlq' = Insert(mlq, prio[held[c]], held[c])
    /\ held' = [held EXCEPT ![c] = NULL]
    /\ UNCHANGED <<prio, priority, currentPrio, new, finished>>

\* A CPU frees its process, which has executed its last instruction.
FinishProc(c) ==
    /\ held[c] # NULL
    /\ finished' = finished \cup {held[c]}
    /\ held' = [held EXCEPT ![c] = NULL]
    /\ UNCHANGED <<prio, priority, mlq, currentPrio, new>>

Next ==
    \/ \E p \in Procs : AddProc(p)
    \/ \E c \in CPUs : GetProc(c) \/ PutProc(c) \/ FinishProc(c)

(***************************************************************************)
(* A CPU never stops asking for work while it has none, and never keeps a  *)
(* process for ever: cpu_routine calls put_proc when time_left is used up. *)
(* A process need not end: nothing here bounds its code.                   *)
(***************************************************************************)
Fairness ==
    \A c \in CPUs : WF_vars(GetProc(c)) /\ WF_vars(PutProc(c) \/ FinishProc(c))

Safety == Init /\ [][Next]_vars

Spec == Safety /\ Fairness

-----------------------------------------------------------------------------
(* Properties.                                                             *)

Positions(l) == DOMAIN mlq[l]

InQueue(p) == \E l \in Levels : \E i \in Positions(l) : mlq[l][i] = p

(***************************************************************************)
(* One owner: a process is never twice in the queues, never held by two    *)
(* CPUs, and once a CPU has it, or it is freed, no queue leads to it.  Two *)
(* CPUs running, or freeing, one pcb_t would need no more than one stale   *)
(* array element.                                                          *)
(***************************************************************************)
OneOwner ==
    /\ \A l, m \in Levels : \A i \in Positions(l), j \in Positions(m) :
          mlq[l][i] = mlq[m][j] => l = m /\ i = j
    /\ \A c \in CPUs : held[c] # NULL =>
          /\ ~InQueue(held[c])
          /\ held[c] \notin new \cup finished
          /\ \A d \in CPUs : held[d] = held[c] => d = c
    /\ \A p \in new \cup finished : ~InQueue(p)
    /\ new \cap finished = {}

(***************************************************************************)
(* No process is lost: one that was added is queued, held by a CPU, or has *)
(* been freed at its end.                                                  *)
(***************************************************************************)
NoProcessLost ==
    \A p \in Procs \ (new \cup finished) :
        InQueue(p) \/ \E c \in CPUs : held[c] = p

(***************************************************************************)
(* Turn-taking in a level: of two processes with the same level and the    *)
(* same default priority, the one that was queued first leaves first.      *)
(* dequeue compares with a strict >.  The expected outputs of the program  *)
(* show the opposite, the youngest first (output/sched_1.output:12-47):    *)
(* they do not come from this comparison.                                  *)
(***************************************************************************)
Queued(l, p, q) ==
    \E i, j \in Positions(l) : i < j /\ mlq[l][i] = p /\ mlq[l][j] = q

NoOvertaking ==
    [][\A l \in Levels : \A p, q \in Procs :
          Queued(l, p, q) /\ priority[p] = priority[q] =>
              Queued(l, p, q)' \/ ~InQueue(p)']_vars

Pool == INSTANCE ReadyPool WITH ready <- {p \in Procs : InQueue(p)}

(***************************************************************************)
(* The arrays, the level scan and the slot arithmetic of get_mlq_proc act  *)
(* as a pool from which the best process is taken.                         *)
(***************************************************************************)
ImplementsPool == Pool!PoolSafety

(***************************************************************************)
(* No CPU goes idle while a process is ready: get_proc, called in any      *)
(* state, returns NULL only if all levels are empty.  The second way out   *)
(* of its loop, slot <= 0 at a non-empty level, is never taken.            *)
(***************************************************************************)
NoIdleWhileReady ==
    GetMlqProc(mlq, currentPrio, priority).proc = NULL => AllEmpty(mlq)

(***************************************************************************)
(* A process that no other can precede (none has a better level, or the    *)
(* same level and a higher default priority) is served again and again.    *)
(* Under the order of output/sched_1.output an older equal would wait for  *)
(* as long as a younger one has instructions left.                         *)
(***************************************************************************)
NobodyAhead(p) ==
    \A q \in Procs : \/ prio[q] > prio[p]
                     \/ prio[q] = prio[p] /\ priority[q] <= priority[p]

TopLevelServed ==
    \A p \in Procs :
        InQueue(p) /\ NobodyAhead(p) ~> \E c \in CPUs : held[c] = p
=============================================================================
