---------------------------- MODULE MirrorGateway ----------------------------
(***************************************************************************)
(* The mirror gateway: a request to production is put into the bounded     *)
(* queue of every registered twin, or dropped and counted; a worker per    *)
(* twin sends what is queued, one request at a time, within a timeout.     *)
(* The orchestrator registers and unregisters twins at any time and takes  *)
(* the two counters of a twin for the fidelity of its evidence.            *)
(*                                                                         *)
(* The gateway is one event loop: between two awaits nothing interferes.   *)
(* A request that was sent stays on the wire until it arrives, which may   *)
(* be after the worker gave it up or was cancelled, or never.              *)
(***************************************************************************)
EXTENDS Naturals, Sequences, SequencesExt, FiniteSets

CONSTANTS
    Twins,
    QueueMax,    \* queue_maxsize
    MaxRequests  \* bound on the requests production gets

ASSUME GatewayAssumption == QueueMax \in Nat \ {0} /\ MaxRequests \in Nat

VARIABLES
    proxied,   \* how many requests production got: its last one has this number
    twins,     \* _twins: a registration for each twin
    wire,      \* requests sent to each twin that may still arrive
    copies,    \* how often each twin has received each request
    mirrored   \* history: requests that found each twin registered

vars == <<proxied, twins, wire, copies, mirrored>>

Requests == 1 .. MaxRequests

(* A worker waits for a request, sends one, or has died of an exception;   *)
(* a twin that is not registered has none. since is a history: the         *)
(* requests that production had got when the twin was registered.          *)
Registration(worker, since) ==
    [queue |-> <<>>, worker |-> worker, sending |-> 0, delivered |-> 0, dropped |-> 0,
     since |-> since]

Unregistered == Registration("none", 0)

Registered(t) == twins[t].worker # "none"

Init ==
    /\ proxied = 0
    /\ twins = [t \in Twins |-> Unregistered]
    /\ wire = [t \in Twins |-> {}]
    /\ copies = [t \in Twins |-> [r \in Requests |-> 0]]
    /\ mirrored = [t \in Twins |-> {}]

-------------------------------------------------------------------------------
(* A twin that is registered again is unregistered first: its worker is    *)
(* cancelled, its queue and its counters are gone.                         *)
RegisterTwin(t) ==
    /\ twins' = [twins EXCEPT ![t] = Registration("waiting", proxied)]
    /\ UNCHANGED <<proxied, wire, copies, mirrored>>

UnregisterTwin(t) ==
    /\ Registered(t)
    /\ twins' = [twins EXCEPT ![t] = Unregistered]
    /\ UNCHANGED <<proxied, wire, copies, mirrored>>

(* The gateway is restarted: it knows no twin until one is registered.     *)
Close ==
    /\ twins' = [t \in Twins |-> Unregistered]
    /\ UNCHANGED <<proxied, wire, copies, mirrored>>

(* Mutant: a full queue drops the request without counting it.             *)
Offer_DropsSilently(reg, r) ==
    IF Len(reg.queue) < QueueMax THEN [reg EXCEPT !.queue = Append(@, r)] ELSE reg

(* Mutant: the queue has no bound.                                         *)
Offer_Unbounded(reg, r) == [reg EXCEPT !.queue = Append(@, r)]

(* put_nowait, or QueueFull.                                               *)
Offer(reg, r) ==
    IF Len(reg.queue) < QueueMax
    THEN [reg EXCEPT !.queue = Append(@, r)]
    ELSE [reg EXCEPT !.dropped = @ + 1]

(* proxy_request up to its first await: production is asked afterwards.    *)
DispatchToTwins ==
    /\ proxied < MaxRequests
    /\ proxied' = proxied + 1
    /\ twins' = [t \in Twins |-> IF Registered(t) THEN Offer(twins[t], proxied') ELSE twins[t]]
    /\ mirrored' = [t \in Twins |-> IF Registered(t) THEN mirrored[t] \cup {proxied'}
                                    ELSE mirrored[t]]
    /\ UNCHANGED <<wire, copies>>

-------------------------------------------------------------------------------
(* _drain_worker.                                                          *)
Send(t) ==
    /\ twins[t].worker = "waiting" /\ twins[t].queue # <<>>
    /\ LET r == Head(twins[t].queue)
       IN  /\ twins' = [twins EXCEPT ![t].queue = Tail(@), ![t].worker = "sending",
                                     ![t].sending = r]
           /\ wire' = [wire EXCEPT ![t] = @ \cup {r}]
    /\ UNCHANGED <<proxied, copies, mirrored>>

Arrive(t, r) ==
    /\ r \in wire[t]
    /\ copies' = [copies EXCEPT ![t][r] = @ + 1]
    /\ wire' = [wire EXCEPT ![t] = @ \ {r}]
    /\ UNCHANGED <<proxied, twins, mirrored>>

(* Any response is a delivery, whatever its status.                        *)
Deliver(t) ==
    /\ twins[t].worker = "sending"
    /\ twins[t].sending \notin wire[t]
    /\ twins' = [twins EXCEPT ![t].worker = "waiting", ![t].sending = 0, ![t].delivered = @ + 1]
    /\ UNCHANGED <<proxied, wire, copies, mirrored>>

(* Mutant: a delivery that fails is sent again.                            *)
Fail_Retries(t) ==
    /\ twins[t].worker = "sending"
    /\ twins' = [twins EXCEPT ![t].worker = "waiting", ![t].sending = 0,
                              ![t].queue = <<twins[t].sending>> \o @]
    /\ UNCHANGED <<proxied, wire, copies, mirrored>>

(* The timeout, or an error of the client.                                 *)
Fail(t) ==
    /\ twins[t].worker = "sending"
    /\ twins' = [twins EXCEPT ![t].worker = "waiting", ![t].sending = 0, ![t].dropped = @ + 1]
    /\ UNCHANGED <<proxied, wire, copies, mirrored>>

(* An exception that is none of those caught ends the worker: the twin     *)
(* stays registered and its queue fills.                                   *)
Die(t) ==
    /\ twins[t].worker = "sending"
    /\ twins' = [twins EXCEPT ![t].worker = "dead"]
    /\ UNCHANGED <<proxied, wire, copies, mirrored>>

(* Mutant: the client sets no timeout.                                     *)
WorkerStep_Patient(t) == Send(t) \/ Deliver(t)

WorkerStep(t) == Send(t) \/ Deliver(t) \/ Fail(t) \/ Die(t)

TwinStep(t) ==
    \/ RegisterTwin(t) \/ UnregisterTwin(t)
    \/ WorkerStep(t)
    \/ \E r \in Requests : Arrive(t, r)

Next == DispatchToTwins \/ Close \/ \E t \in Twins : TwinStep(t)

Spec == Init /\ [][Next]_vars

(* The event loop runs every worker that can go on, and a request that the *)
(* twin does not answer times out.                                         *)
FairSpec == Spec /\ \A t \in Twins : WF_vars(WorkerStep(t))

-------------------------------------------------------------------------------
Registrations ==
    [queue : Seq(Requests), worker : {"none", "waiting", "sending", "dead"},
     sending : 0 .. MaxRequests, delivered : Nat, dropped : Nat, since : 0 .. MaxRequests]

(* Every variable has its type, and no queue exceeds its bound.            *)
TypeOK ==
    /\ proxied \in 0 .. MaxRequests
    /\ twins \in [Twins -> Registrations]
    /\ \A t \in Twins : Len(twins[t].queue) <= QueueMax
    /\ wire \in [Twins -> SUBSET Requests]
    /\ copies \in [Twins -> [Requests -> Nat]]
    /\ mirrored \in [Twins -> SUBSET Requests]

(* The requests of a registration, those its worker holds, and those the   *)
(* twin has received.                                                      *)
Offered(t) == IF Registered(t) THEN twins[t].since + 1 .. proxied ELSE {}

Held(t) == ToSet(twins[t].queue) \cup ({twins[t].sending} \ {0})

Received(t) == {r \in Requests : copies[t][r] > 0}

(* Every request mirrored to a registered twin is in exactly one place:    *)
(* delivered, dropped, queued, or in the hands of the worker. So the drop  *)
(* ratio that _build_stats computes misses what is held and nothing else.  *)
EachAccountedFor ==
    \A t \in Twins : Registered(t) =>
        twins[t].delivered + twins[t].dropped + Cardinality(Held(t)) = Cardinality(Offered(t))

(* A queued request does not stay queued: a twin that never answers costs  *)
(* the ones behind it a timeout each, unless its worker dies.              *)
QueuesDrain ==
    \A t \in Twins, r \in Requests :
        r \in ToSet(twins[t].queue) ~> (r \notin ToSet(twins[t].queue) \/ twins[t].worker = "dead")

(* A twin receives a request of production at most once, and only one that *)
(* was mirrored to it: whatever times out, is cancelled or registered anew.*)
Shadow == INSTANCE ShadowTraffic
ShadowsProduction == Shadow!Spec
=============================================================================
