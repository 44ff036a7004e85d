---- MODULE MCTournament ----
(* Two candidates: one mutates data, on which the gateway depends, the other *)
(* does nothing.                                                             *)
EXTENDS Tournament

MCTarget == [p \in Plans |-> IF p = 0 THEN "data" ELSE "none"]
MCCalls == {<<"gateway", "data">>}
MCShare == [s \in {"gateway", "data"} |-> IF s = "gateway" THEN 40 ELSE 20]
MCTraffic == {Quick, Slow, Failing}
====
