---------------------------- MODULE ShadowTraffic ----------------------------
(***************************************************************************)
(* What a twin may see of production's traffic, whatever queues, workers   *)
(* and timeouts lie between: a request that was mirrored to it, at most    *)
(* once, in any order, or never.                                           *)
(***************************************************************************)
EXTENDS Naturals

CONSTANTS Twins, Requests

VARIABLES
    mirrored,  \* the requests mirrored to each twin so far
    copies     \* how often each twin has received each request

vars == <<mirrored, copies>>

Init ==
    /\ mirrored = [t \in Twins |-> {}]
    /\ copies = [t \in Twins |-> [r \in Requests |-> 0]]

(* Production gets a request, and some twins a copy.                       *)
Mirror(r) ==
    /\ \A t \in Twins : r \notin mirrored[t]
    /\ \E some \in SUBSET Twins :
          mirrored' = [t \in Twins |-> IF t \in some THEN mirrored[t] \cup {r} ELSE mirrored[t]]
    /\ UNCHANGED copies

Receive(t, r) ==
    /\ r \in mirrored[t] /\ copies[t][r] = 0
    /\ copies' = [copies EXCEPT ![t][r] = 1]
    /\ UNCHANGED mirrored

Next == \E r \in Requests : Mirror(r) \/ \E t \in Twins : Receive(t, r)

Spec == Init /\ [][Next]_vars
==============================================================================
