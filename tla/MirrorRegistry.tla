---------------------------- MODULE MirrorRegistry ----------------------------
(***************************************************************************)
(* The HTTP client of the mirror gateway (HttpMirrorRegistry), the         *)
(* gateway's endpoints, and the comparison behind `ust mirror compare`:    *)
(* is what a twin was sent the traffic production got?                     *)
(*                                                                         *)
(* The comparison asks the gateway three times, once for the counters of   *)
(* all twins, once for those of production, and for every twin once more   *)
(* for its paths.  Requests, registrations and a restart of the gateway    *)
(* fall between the answers, and any call but the first may fail without   *)
(* the comparison failing.  A call that changes the gateway may lose its   *)
(* answer; what the caller then does is in ControlLoop.                    *)
(***************************************************************************)
EXTENDS MirrorGateway, FiniteSetsExt

CONSTANTS
    Paths,
    PathOf,    \* the path of each request
    Compared   \* the twins of the incident that is compared: their ids contain its id

ASSUME RegistryAssumption == PathOf \in [Requests -> Paths] /\ Compared \subseteq Twins

VARIABLES
    started,   \* how many requests production got before the gateway's last start
    answered,  \* requests each registration counts as delivered (its paths)
    comparison

registryVars == <<vars, started, answered, comparison>>

Idle == [step |-> "idle", todo |-> {}, stats |-> [t \in Compared |-> <<0, 0>>],
         prod |-> {}, prodDelivered |-> 0, prodRead |-> FALSE, restarted |-> FALSE]

RegistryInit ==
    /\ Init
    /\ started = 0
    /\ answered = [t \in Twins |-> {}]
    /\ comparison = Idle

-------------------------------------------------------------------------------
(* What changes the gateway, with the paths and the counters it keeps.     *)
Register(t) ==
    /\ RegisterTwin(t)
    /\ answered' = [answered EXCEPT ![t] = {}]
    /\ UNCHANGED <<started, comparison>>

(* A twin that is not registered answers 404, which the client takes for   *)
(* an unregistration.                                                      *)
Unregister(t) ==
    /\ UnregisterTwin(t)
    /\ answered' = [answered EXCEPT ![t] = {}]
    /\ UNCHANGED <<started, comparison>>

Restart ==
    /\ Close
    /\ started' = proxied
    /\ answered' = [t \in Twins |-> {}]
    /\ comparison' = [comparison EXCEPT !.restarted = comparison.step # "idle"]

ProxyRequest == DispatchToTwins /\ UNCHANGED <<started, answered, comparison>>

WorkerRuns(t) ==
    /\ WorkerStep(t)
    /\ answered' = IF twins'[t].delivered > twins[t].delivered
                   THEN [answered EXCEPT ![t] = @ \cup {twins[t].sending}]
                   ELSE answered
    /\ UNCHANGED <<started, comparison>>

Arrives(t, r) == Arrive(t, r) /\ UNCHANGED <<started, answered, comparison>>

-------------------------------------------------------------------------------
(***************************************************************************)
(* evaluate_twin_fidelity, in whole numbers: within two per cent of        *)
(* production, at most five per cent dropped, and the share of every path  *)
(* within two per cent of its share in production.                         *)
(***************************************************************************)
Count(requests, p) == Cardinality({r \in requests : PathOf[r] = p})

Apart(a, b) == IF a < b THEN b - a ELSE a - b

CountsMatch(prod, twin) ==
    IF prod = 0 THEN twin = 0 ELSE Apart(prod, twin) * 100 <= 2 * prod

FewDropped(delivered, dropped) == dropped * 100 <= 5 * (delivered + dropped)

(* prod and twin are the totals the shares are taken of.                   *)
SharesMatch(prod, prodPaths, twin, twinPaths) ==
    IF prod = 0 THEN twin = 0
    ELSE \A p \in Paths :
           LET pc == Count(prodPaths, p)
               tc == Count(twinPaths, p)
           IN  IF pc > 0
               THEN IF twin > 0 THEN Apart(pc * twin, tc * prod) * 100 <= 2 * prod * twin
                                ELSE pc * 100 <= 2 * prod
               ELSE tc = 0

(* Mutant: fidelity is judged by the drop ratio alone.                     *)
Fidelity_DropsOnly(prod, prodPaths, stats, twinPaths) ==
    IF FewDropped(stats[1], stats[2]) THEN "OK" ELSE "DEGRADED"

Fidelity(prod, prodPaths, stats, twinPaths) ==
    IF /\ CountsMatch(prod, stats[1])
       /\ FewDropped(stats[1], stats[2])
       /\ SharesMatch(prod, prodPaths, stats[1], twinPaths)
    THEN "OK" ELSE "DEGRADED"

-------------------------------------------------------------------------------
(* get_fidelity_reports.  The twins' counters come first; without them, or *)
(* without a registered twin of the incident, there is no report.          *)
GetAllStats ==
    /\ comparison.step = "idle"
    /\ \E t \in Compared : Registered(t)
    /\ comparison' = [Idle EXCEPT
          !.step = "prod", !.todo = {t \in Compared : Registered(t)},
          !.stats = [t \in Compared |-> <<twins[t].delivered, twins[t].dropped>>]]
    /\ UNCHANGED <<vars, started, answered>>

ProdCounted == {r \in Requests : started < r /\ r <= proxied}

(* Failing the counters of production, it is said to have got as much as   *)
(* the twin that got most.                                                 *)
GetProdStats ==
    /\ comparison.step = "prod"
    /\ \/ comparison' = [comparison EXCEPT
             !.step = "paths", !.prodRead = TRUE,
             !.prod = ProdCounted, !.prodDelivered = Cardinality(ProdCounted)]
       \/ comparison' = [comparison EXCEPT
             !.step = "paths", !.prodDelivered = Max({comparison.stats[t][1] : t \in comparison.todo})]
    /\ UNCHANGED <<vars, started, answered>>

Report(t, twinPaths) ==
    Fidelity(comparison.prodDelivered, comparison.prod, comparison.stats[t], twinPaths)

(* The paths of one twin, or none if the call fails or answers 404; after  *)
(* the last twin the reports are printed.                                  *)
GetTwinPaths(t, twinPaths) ==
    /\ comparison.step = "paths" /\ t \in comparison.todo
    /\ twinPaths \in {answered[t], {}}
    /\ comparison' = IF comparison.todo = {t} THEN Idle
                     ELSE [comparison EXCEPT !.todo = @ \ {t}, !.stats[t] = <<0, 0>>]
    /\ UNCHANGED <<vars, started, answered>>

Compare ==
    \/ GetAllStats \/ GetProdStats
    \/ \E t \in Compared, twinPaths \in SUBSET Requests : GetTwinPaths(t, twinPaths)

RegistryNext ==
    \/ ProxyRequest \/ Restart \/ Compare
    \/ \E t \in Twins : Register(t) \/ Unregister(t) \/ WorkerRuns(t)
    \/ \E t \in Twins, r \in Requests : Arrives(t, r)

RegistrySpec == RegistryInit /\ [][RegistryNext]_registryVars

(* The event loop runs every worker that can go on (FairSpec).             *)
RegistryFairSpec == RegistrySpec /\ \A t \in Twins : WF_registryVars(WorkerRuns(t))

-------------------------------------------------------------------------------
(* A twin reported OK against the counters of production lacks at most two *)
(* per cent of the requests they count, whatever was proxied, dropped or   *)
(* registered anew between the answers the comparison is made of: only a   *)
(* restart of the gateway half-way can make it err (HttpMirrorRegistry.    *)
(* get_fidelity_reports, _drain_worker).                                   *)
OkMeansShadowed ==
    [][\A t \in Compared, twinPaths \in SUBSET Requests :
          /\ GetTwinPaths(t, twinPaths) /\ Report(t, twinPaths) = "OK"
          /\ comparison.prodRead /\ ~comparison.restarted
          => Cardinality(comparison.prod \ Received(t)) * 100
               <= 2 * Cardinality(comparison.prod)]_registryVars
===============================================================================
