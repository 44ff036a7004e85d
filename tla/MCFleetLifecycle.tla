--------------------------- MODULE MCFleetLifecycle ---------------------------
(* An incident a, handled up to twice, and an incident b, whose identifier *)
(* extends a's: the databases of b have the prefix of a's.                 *)
EXTENDS FleetLifecycle

CONSTANTS a, b, a1, b1

OneEach  == [t \in {a1, b1} |-> IF t = b1 THEN b ELSE a]

AgainOnce == [i \in {a, b} |-> IF i = a THEN 2 ELSE 1]

Extends == [i \in {a, b} |-> IF i = a THEN {a, b} ELSE {b}]
===============================================================================
