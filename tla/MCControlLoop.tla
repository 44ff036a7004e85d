---------------------------- MODULE MCControlLoop ----------------------------
(* Small instances of ControlLoop for TLC. *)
EXTENDS ControlLoop, TLC

CONSTANTS p1, p2

MCPlans == {p1, p2}
MCPlaybookPlans == {p2}
=============================================================================
