----------------------------- MODULE MCPageMap -----------------------------
(***************************************************************************)
(* Model values for PageMap: two processes with three pages each, two      *)
(* frames of RAM and two of swap, fewer than the pages, so that each list  *)
(* runs empty in the middle of a call.  vm_map_ram maps one page, more     *)
(* than there are frames, or not from the first page on.                   *)
(***************************************************************************)
EXTENDS PageMap

CONSTANTS p1, p2

MCProcesses == {p1, p2}
MCMapArguments == {<<0, 1>>, <<0, 3>>, <<1, 2>>}
MCCallSets == {{"map"}, {"map", "page"}, {"map", "page", "free"}}
=============================================================================
