---------------------------- MODULE MCSingleWriter ----------------------------
(* Small instances of SingleWriter for TLC. *)
EXTENDS SingleWriter, TLC

CONSTANTS i1, i2, r1

Two == {i1, i2}

(* All plans are for one Deployment, or each for the Deployment of its own *)
(* incident; either way the incidents are interchangeable.                 *)
Deployments == Incidents \cup {r1}
Shared      == [i \in Incidents |-> {r1}]
Own         == [i \in Incidents |-> {i}]
Alike       == Permutations(Incidents)
=============================================================================
