------------------------------ MODULE MCOsSim ------------------------------
(***************************************************************************)
(* Model values for OsSim: two CPUs with a quantum of two slots, and the   *)
(* configurations of NumProcs processes that start in slot 0 and, from the *)
(* second or the third on, in slot 2, each on one of two levels and with   *)
(* no instruction, fewer or more than a quantum.                           *)
(***************************************************************************)
EXTENDS OsSim

CONSTANTS c1, c2

MCCPUs == {c1, c2}
MCDevices == {c1, c2, Loader}

\* The start slots: the loader adds a process in each slot, or waits for one.
MCStarts == {[p \in Procs |-> IF p < second THEN 0 ELSE 2] : second \in {2, 3}}

MCJobs ==
    {[p \in Procs |-> [start |-> starts[p], prio |-> levels[p], priority |-> 0,
                       size |-> sizes[p]]] :
        starts \in MCStarts, levels \in [Procs -> {0, 1}], sizes \in [Procs -> {0, 1, 3}]}
=============================================================================
