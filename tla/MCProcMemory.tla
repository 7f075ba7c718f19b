---------------------------- MODULE MCProcMemory ----------------------------
(***************************************************************************)
(* Model values for ProcMemory: pages of 4 bytes and ints of 6 bits, so    *)
(* that rounding a size to pages overflows within reach, every symbol of a *)
(* table of three and the registers around its end, and two swap frames.   *)
(***************************************************************************)
EXTENDS ProcMemory

MCIntMax == 31
MCRegisters == -1..4
MCSizes == {-1, 0, 1, 4, 5, 28, 29, 31}
MCOffsets == {-1, 0, 5}
MCCrash == 1
=============================================================================
