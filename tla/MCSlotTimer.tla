---------------------------- MODULE MCSlotTimer ----------------------------
(***************************************************************************)
(* Model values for SlotTimer: three devices, the configuration of two     *)
(* CPUs and a loader, and a slot number counted up to 2.                   *)
(***************************************************************************)
EXTENDS SlotTimer

MCN == 3
MCHorizon == 2
=============================================================================
