--------------------------- MODULE MCMlqSlots -------------------------------
(***************************************************************************)
(* Model values for MlqSlots: three processes of any level and default     *)
(* priority on two CPUs.  Init gives the processes every combination of    *)
(* levels and priorities and nothing else tells processes, or CPUs, apart, *)
(* so permuting them is a symmetry (used in the safety runs only).         *)
(***************************************************************************)
EXTENDS MlqSlots, TLC

CONSTANTS p1, p2, p3, c1, c2

MCProcs == {p1, p2, p3}
MCCPUs == {c1, c2}
MCSymmetry == Permutations(MCProcs) \cup Permutations(MCCPUs)
=============================================================================
