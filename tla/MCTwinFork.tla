----------------------------- MODULE MCTwinFork -----------------------------
(* One fork, with two repeated polls before its deadline.                   *)
EXTENDS TwinFork
=============================================================================
