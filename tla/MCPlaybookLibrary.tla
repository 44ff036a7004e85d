------------------------- MODULE MCPlaybookLibrary -------------------------
(* A small library: two incidents and a command of the operator over two   *)
(* signatures and two plans, and a seed file of one playbook that may be   *)
(* loaded twice.                                                           *)
EXTENDS PlaybookLibrary, TLC

CONSTANTS r1, r2, w1, s1, planA, planB, sigA, sigB

Symmetry == Permutations(Runs) \cup Permutations(Plans) \cup Permutations(Signatures)
=============================================================================
