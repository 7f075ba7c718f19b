----------------------------- MODULE ReadyPool -----------------------------
(***************************************************************************)
(* What the scheduler promises its callers: a pool of ready processes.     *)
(* A process that is added or put back is in the pool until a CPU gets it, *)
(* and a CPU gets one of the best level and, in that level, of the highest *)
(* default priority.  MlqScheduler.tla is shown to implement this as long  *)
(* as no queue overflows.                                                  *)
(***************************************************************************)
EXTENDS Naturals

CONSTANTS Procs, CPUs, NULL

VARIABLES
    prio,       \* the level of each process; 0 is the best
    priority,   \* the default priority of each process
    ready,      \* the pool
    new,        \* processes that the loader has not added yet
    held        \* the process of each CPU, NULL if it has none

poolVars == <<prio, priority, ready, new, held>>

PoolInit ==
    /\ ready = {}
    /\ new = Procs
    /\ held = [c \in CPUs |-> NULL]

Best(S) == {p \in S : \A q \in S : prio[p] <= prio[q]}

Preferred(S) == {p \in Best(S) : \A q \in Best(S) : priority[q] <= priority[p]}

PoolAdd(p) ==
    /\ p \in new
    /\ ready' = ready \cup {p}
    /\ new' = new \ {p}
    /\ UNCHANGED <<prio, priority, held>>

PoolGet(c) ==
    /\ held[c] = NULL
    /\ \E p \in Preferred(ready) :
          /\ held' = [held EXCEPT ![c] = p]
          /\ ready' = ready \ {p}
    /\ UNCHANGED <<prio, priority, new>>

PoolPut(c) ==
    /\ held[c] # NULL
    /\ held' = [held EXCEPT ![c] = NULL]
    /\ ready' = ready \cup {held[c]}
    /\ UNCHANGED <<prio, priority, new>>

PoolFinish(c) ==
    /\ held[c] # NULL
    /\ held' = [held EXCEPT ![c] = NULL]
    /\ UNCHANGED <<prio, priority, ready, new>>

PoolNext ==
    \/ \E p \in Procs : PoolAdd(p)
    \/ \E c \in CPUs : PoolGet(c) \/ PoolPut(c) \/ PoolFinish(c)

PoolSafety == PoolInit /\ [][PoolNext]_poolVars
=============================================================================
