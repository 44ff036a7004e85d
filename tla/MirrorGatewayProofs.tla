------------------------- MODULE MirrorGatewayProofs -------------------------
(***************************************************************************)
(* Proofs about the mirror gateway and the comparison of what it sent, for *)
(* any twins, any bound of the queues and any number of requests.          *)
(***************************************************************************)
EXTENDS MirrorRegistry, SequenceTheorems, FiniteSetTheorems, TLAPS

LEMMA BlankRegistration ==
    ASSUME NEW worker \in {"none", "waiting"}, NEW since \in 0 .. MaxRequests
    PROVE  /\ Registration(worker, since) \in Registrations
           /\ Registration(worker, since).queue = <<>>
  BY GatewayAssumption DEF Registration, Registrations

LEMMA InitTyped == Init => TypeOK
<1> SUFFICES ASSUME Init PROVE TypeOK
  OBVIOUS
<1>1. Unregistered \in Registrations /\ Unregistered.queue = <<>>
  BY BlankRegistration, GatewayAssumption DEF Unregistered
<1> QED
  BY <1>1, GatewayAssumption DEF Init, TypeOK, Requests

LEMMA OfferTyped ==
    ASSUME NEW reg \in Registrations, Len(reg.queue) <= QueueMax, NEW r \in Requests
    PROVE  Offer(reg, r) \in Registrations /\ Len(Offer(reg, r).queue) <= QueueMax
<1>1. reg.queue \in Seq(Requests) /\ reg.dropped \in Nat
  BY DEF Registrations
<1>2. CASE Len(reg.queue) < QueueMax
  <2> DEFINE q == Append(reg.queue, r)
  <2>1. q \in Seq(Requests) /\ Len(q) = Len(reg.queue) + 1
    BY ONLY <1>1, r \in Requests, AppendProperties
  <2>2. Len(reg.queue) \in Nat
    BY ONLY <1>1, LenProperties
  <2>3. Len(q) <= QueueMax
    BY ONLY <1>2, <2>1, <2>2, GatewayAssumption
  <2>4. Offer(reg, r) = [reg EXCEPT !.queue = q]
    BY <1>2 DEF Offer
  <2> HIDE DEF q
  <2> QED
    BY <2>1, <2>3, <2>4 DEF Registrations
<1>3. CASE ~(Len(reg.queue) < QueueMax)
  BY <1>1, <1>3 DEF Offer, Registrations
<1> QED
  BY <1>2, <1>3

(* A step that changes one registration into another of its type, and      *)
(* nothing else that TypeOK speaks of but the wire.                        *)
LEMMA OneTyped ==
    ASSUME TypeOK, NEW t \in Twins, NEW reg \in Registrations, Len(reg.queue) <= QueueMax,
           twins' = [twins EXCEPT ![t] = reg], wire' \in [Twins -> SUBSET Requests],
           UNCHANGED <<proxied, copies, mirrored>>
    PROVE  TypeOK'
  BY DEF TypeOK

LEMMA NextTyped ==
    ASSUME TypeOK, [Next]_vars
    PROVE  TypeOK'
<1>1. CASE UNCHANGED vars
  BY <1>1 DEF TypeOK, vars
<1>2. CASE DispatchToTwins
  <2>1. proxied + 1 \in Requests
    BY <1>2, GatewayAssumption DEF DispatchToTwins, TypeOK, Requests
  <2>2. ASSUME NEW t \in Twins
        PROVE  twins'[t] \in Registrations /\ Len(twins'[t].queue) <= QueueMax
    BY <1>2, <2>1, <2>2, OfferTyped DEF DispatchToTwins, TypeOK
  <2>3. DOMAIN twins' = Twins /\ twins' = [t \in Twins |-> twins'[t]]
    BY <1>2 DEF DispatchToTwins
  <2>4. mirrored' \in [Twins -> SUBSET Requests]
    BY <1>2, <2>1 DEF DispatchToTwins, TypeOK
  <2> QED
    BY <1>2, <2>1, <2>2, <2>3, <2>4 DEF DispatchToTwins, TypeOK, Requests
<1>3. CASE Close
  <2>1. Unregistered \in Registrations /\ Unregistered.queue = <<>>
    BY BlankRegistration, GatewayAssumption DEF Unregistered
  <2> QED
    BY <1>3, <2>1, GatewayAssumption DEF Close, TypeOK
<1>4. ASSUME NEW t \in Twins, RegisterTwin(t) \/ UnregisterTwin(t) PROVE TypeOK'
  <2>1. PICK worker \in {"none", "waiting"}, since \in 0 .. MaxRequests :
            twins' = [twins EXCEPT ![t] = Registration(worker, since)]
    BY <1>4, GatewayAssumption DEF RegisterTwin, UnregisterTwin, Unregistered, TypeOK
  <2>2. UNCHANGED <<proxied, wire, copies, mirrored>>
    BY <1>4 DEF RegisterTwin, UnregisterTwin
  <2>3. Len(Registration(worker, since).queue) <= QueueMax
    BY BlankRegistration, GatewayAssumption
  <2> QED
    BY <2>1, <2>2, <2>3, BlankRegistration, OneTyped DEF TypeOK
<1>5. ASSUME NEW t \in Twins, Send(t) PROVE TypeOK'
  <2> DEFINE r == Head(twins[t].queue)
             reg == [twins[t] EXCEPT !.queue = Tail(@), !.worker = "sending", !.sending = r]
  <2>1. twins[t] \in Registrations /\ Len(twins[t].queue) <= QueueMax /\ twins[t].queue # <<>>
    BY <1>5 DEF Send, TypeOK
  <2>2. r \in Requests /\ r \in 0 .. MaxRequests
    BY <2>1, GatewayAssumption DEF Registrations, Requests
  <2>3. reg \in Registrations /\ Len(reg.queue) <= QueueMax
    <3>1. twins[t].queue \in Seq(Requests)
      BY <2>1 DEF Registrations
    <3> DEFINE q == Tail(twins[t].queue)
    <3>2. q \in Seq(Requests) /\ Len(q) = Len(twins[t].queue) - 1
      BY ONLY <2>1, <3>1, HeadTailProperties
    <3>3. Len(twins[t].queue) \in Nat
      BY ONLY <3>1, LenProperties
    <3>4. Len(q) <= QueueMax
      BY ONLY <2>1, <3>2, <3>3, GatewayAssumption
    <3> HIDE DEF q
    <3>5. [twins[t] EXCEPT !.queue = q, !.worker = "sending", !.sending = r] \in Registrations
      BY <2>1, <2>2, <3>2 DEF Registrations
    <3> QED
      BY <3>4, <3>5 DEF q
  <2>4. twins' = [twins EXCEPT ![t] = reg] /\ wire' = [wire EXCEPT ![t] = @ \cup {r}]
        /\ UNCHANGED <<proxied, copies, mirrored>>
    BY <1>5 DEF Send, TypeOK
  <2>5. wire' \in [Twins -> SUBSET Requests]
    BY <2>2, <2>4 DEF TypeOK
  <2> HIDE DEF reg
  <2> QED
    BY <2>3, <2>4, <2>5, OneTyped
<1>6. ASSUME NEW t \in Twins, Deliver(t) \/ Fail(t) \/ Die(t) PROVE TypeOK'
  <2>1. twins[t] \in Registrations /\ Len(twins[t].queue) <= QueueMax
    BY DEF TypeOK
  <2>2. PICK reg \in Registrations :
            twins' = [twins EXCEPT ![t] = reg] /\ reg.queue = twins[t].queue
    <3> DEFINE gone == [twins[t] EXCEPT !.worker = "waiting", !.sending = 0]
               arrived == [gone EXCEPT !.delivered = @ + 1]
               lost == [gone EXCEPT !.dropped = @ + 1]
               dead == [twins[t] EXCEPT !.worker = "dead"]
    <3>1. /\ arrived \in Registrations /\ lost \in Registrations /\ dead \in Registrations
          /\ \A reg \in {arrived, lost, dead} : reg.queue = twins[t].queue
      <4>1. 0 \in 0 .. MaxRequests
        BY GatewayAssumption
      <4>2. gone \in Registrations /\ gone.queue = twins[t].queue
        BY <2>1, <4>1 DEF Registrations
      <4> HIDE DEF gone
      <4>3. arrived \in Registrations /\ arrived.queue = gone.queue
        BY <4>2 DEF Registrations
      <4>4. lost \in Registrations /\ lost.queue = gone.queue
        BY <4>2 DEF Registrations
      <4>5. dead \in Registrations /\ dead.queue = twins[t].queue
        BY <2>1 DEF Registrations
      <4> HIDE DEF arrived, lost, dead
      <4> QED
        BY <4>2, <4>3, <4>4, <4>5
    <3>2. \E reg \in {arrived, lost, dead} : twins' = [twins EXCEPT ![t] = reg]
      BY <1>6, <2>1 DEF Deliver, Fail, Die, TypeOK, Registrations
    <3> HIDE DEF arrived, lost, dead
    <3> QED
      BY <3>1, <3>2
  <2> QED
    BY <1>6, <2>1, <2>2, OneTyped DEF Deliver, Fail, Die, TypeOK
<1>7. ASSUME NEW t \in Twins, NEW r \in Requests, Arrive(t, r) PROVE TypeOK'
  BY <1>7 DEF Arrive, TypeOK
<1> QED
  BY <1>1, <1>2, <1>3, <1>4, <1>5, <1>6, <1>7 DEF Next, TwinStep, WorkerStep

(* Every variable of the gateway has its type and no queue exceeds its     *)
(* bound, in every reachable state (MirrorGatewayManager).                 *)
THEOREM GatewayTypes == Spec => []TypeOK
  BY InitTyped, NextTyped, PTL DEF Spec

-------------------------------------------------------------------------------
(***************************************************************************)
(* At most once. A request that a twin is still to be sent is queued once, *)
(* is not on the wire and has not been received; one on the wire has not   *)
(* been received; and one that production has not got, no twin has.        *)
(***************************************************************************)
Unsent(t, r) == r \in mirrored[t] /\ r \notin wire[t] /\ copies[t][r] = 0

QueuedOnce(t) ==
    LET q == twins[t].queue
    IN  /\ \A k \in 1 .. Len(q) : Unsent(t, q[k])
        /\ \A k, l \in 1 .. Len(q) : k # l => q[k] # q[l]

OnTheWire(t) == \A r \in wire[t] : r \in mirrored[t] /\ copies[t][r] = 0

NotYet(t) == \A r \in Requests : r > proxied => r \notin mirrored[t] /\ copies[t][r] = 0

OnceInv == TypeOK /\ \A t \in Twins : QueuedOnce(t) /\ OnTheWire(t) /\ NotYet(t)

LEMMA OnceInit == Init => OnceInv
<1> SUFFICES ASSUME Init PROVE OnceInv
  OBVIOUS
<1>1. ASSUME NEW t \in Twins PROVE twins[t].queue = <<>>
  BY <1>1 DEF Init, Unregistered, Registration
<1>2. Len(<<>>) = 0
  BY EmptySeq
<1> QED
  BY <1>1, <1>2, InitTyped DEF Init, OnceInv, QueuedOnce, OnTheWire, NotYet

(* What a queue holds after an append and after its head was taken.        *)
LEMMA Appended ==
    ASSUME NEW q \in Seq(Requests), NEW r \in Requests, NEW k \in 1 .. Len(Append(q, r))
    PROVE  /\ k = Len(q) + 1 => Append(q, r)[k] = r
           /\ k # Len(q) + 1 => k \in 1 .. Len(q) /\ Append(q, r)[k] = q[k]
<1>1. Len(Append(q, r)) = Len(q) + 1 /\ Len(q) \in Nat
  BY AppendProperties, LenProperties
<1> QED
  BY <1>1, AppendProperties

LEMMA Taken ==
    ASSUME NEW q \in Seq(Requests), q # <<>>
    PROVE  /\ 1 \in 1 .. Len(q) /\ Head(q) = q[1]
           /\ \A k \in 1 .. Len(Tail(q)) :
                  k + 1 \in 1 .. Len(q) /\ k + 1 # 1 /\ Tail(q)[k] = q[k + 1]
<1>1. Len(q) \in Nat \ {0} /\ Len(Tail(q)) = Len(q) - 1
  BY EmptySeq, HeadTailProperties
<1> QED
  BY <1>1, HeadTailProperties

LEMMA OnceNext ==
    ASSUME OnceInv, [Next]_vars
    PROVE  OnceInv'
<1>1. TypeOK /\ TypeOK'
  BY NextTyped DEF OnceInv
<1>2. ASSUME NEW t \in Twins PROVE twins[t].queue \in Seq(Requests)
  BY <1>1, <1>2 DEF TypeOK, Registrations
<1>3. CASE UNCHANGED vars
  BY <1>1, <1>3 DEF OnceInv, QueuedOnce, Unsent, OnTheWire, NotYet, vars
(* Queues that empty or stay, while nothing is mirrored, sent or received. *)
<1>4. ASSUME UNCHANGED <<proxied, wire, copies, mirrored>>,
             \A t \in Twins : twins'[t].queue \in {<<>>, twins[t].queue}
      PROVE  OnceInv'
  <2>1. Len(<<>>) = 0
    BY EmptySeq
  <2> QED
    BY <1>1, <1>4, <2>1 DEF OnceInv, QueuedOnce, Unsent, OnTheWire, NotYet
<1>5. ASSUME NEW worker, NEW since PROVE Registration(worker, since).queue = <<>>
  BY DEF Registration
<1>6. CASE Close
  BY <1>4, <1>5, <1>6 DEF Close, Unregistered
<1>7. ASSUME NEW t \in Twins, RegisterTwin(t) \/ UnregisterTwin(t) PROVE OnceInv'
  <2>1. \E worker, since : twins' = [twins EXCEPT ![t] = Registration(worker, since)]
    BY <1>7 DEF RegisterTwin, UnregisterTwin, Unregistered
  <2>2. \A u \in Twins : twins'[u].queue \in {<<>>, twins[u].queue}
    BY <1>1, <1>5, <2>1 DEF TypeOK
  <2> QED
    BY <1>4, <1>7, <2>2 DEF RegisterTwin, UnregisterTwin
<1>8. ASSUME NEW t \in Twins, Deliver(t) \/ Fail(t) \/ Die(t) PROVE OnceInv'
  <2>1. /\ twins'[t].queue = twins[t].queue
        /\ \A u \in Twins \ {t} : twins'[u] = twins[u]
    <3>1. CASE Deliver(t)
      BY <1>1, <3>1 DEF Deliver, TypeOK, Registrations
    <3>2. CASE Fail(t)
      BY <1>1, <3>2 DEF Fail, TypeOK, Registrations
    <3>3. CASE Die(t)
      BY <1>1, <3>3 DEF Die, TypeOK, Registrations
    <3> QED
      BY <1>8, <3>1, <3>2, <3>3
  <2> QED
    BY <1>4, <1>8, <2>1 DEF Deliver, Fail, Die
<1>9. CASE DispatchToTwins
  <2>1. /\ proxied' = proxied + 1 /\ proxied \in Nat /\ proxied' \in Requests
        /\ wire' = wire /\ copies' = copies
    BY <1>1, <1>9, GatewayAssumption DEF DispatchToTwins, TypeOK, Requests
  <2>2. ASSUME NEW t \in Twins PROVE QueuedOnce(t)' /\ OnTheWire(t)' /\ NotYet(t)'
    <3> DEFINE q == twins[t].queue
               r == proxied'
    <3>1. QueuedOnce(t) /\ OnTheWire(t) /\ NotYet(t) /\ q \in Seq(Requests)
      BY <1>2 DEF OnceInv
    <3>2. mirrored'[t] = IF Registered(t) THEN mirrored[t] \cup {r} ELSE mirrored[t]
      BY <1>9 DEF DispatchToTwins
    <3>3. \/ twins'[t].queue = q
          \/ twins'[t].queue = Append(q, r) /\ Registered(t)
      <4>1. twins'[t] = IF Registered(t) THEN Offer(twins[t], r) ELSE twins[t]
        BY <1>9 DEF DispatchToTwins
      <4>2. Offer(twins[t], r).queue \in {q, Append(q, r)}
        BY <1>1 DEF Offer, TypeOK, Registrations
      <4> QED
        BY <4>1, <4>2
    <3>4. r \notin mirrored[t] /\ r \notin wire[t] /\ copies[t][r] = 0
      BY <2>1, <3>1 DEF NotYet, OnTheWire
    <3>5. NotYet(t)' /\ OnTheWire(t)'
      BY <1>1, <2>1, <3>1, <3>2 DEF NotYet, OnTheWire, Requests
    <3>6. ASSUME NEW x \in Requests, Unsent(t, x) PROVE Unsent(t, x)' /\ x # r
      BY <2>1, <3>2, <3>4, <3>6 DEF Unsent
    <3>7. ASSUME twins'[t].queue = q PROVE QueuedOnce(t)'
      BY <3>1, <3>6, <3>7, ElementOfSeq DEF QueuedOnce
    <3>8. ASSUME twins'[t].queue = Append(q, r), Registered(t) PROVE QueuedOnce(t)'
      <4> DEFINE p == Append(q, r)
      <4>1. ASSUME NEW k \in 1 .. Len(p), NEW x, x = p[k] PROVE Unsent(t, x)'
        <5>1. CASE k = Len(q) + 1
          BY <2>1, <3>1, <3>2, <3>4, <3>8, <4>1, <5>1, Appended DEF Unsent
        <5>2. CASE k # Len(q) + 1
          BY <2>1, <3>1, <3>6, <4>1, <5>2, Appended, ElementOfSeq DEF QueuedOnce
        <5> QED
          BY <5>1, <5>2
      <4>2. ASSUME NEW k \in 1 .. Len(p), NEW l \in 1 .. Len(p), k # l PROVE p[k] # p[l]
        <5>1. ASSUME NEW m \in 1 .. Len(q) PROVE q[m] # r
          BY <3>1, <3>6, <5>1, ElementOfSeq DEF QueuedOnce
        <5> QED
          BY <2>1, <3>1, <4>2, <5>1, Appended DEF QueuedOnce
      <4> QED
        BY <3>8, <4>1, <4>2 DEF QueuedOnce
    <3> QED
      BY <3>3, <3>5, <3>7, <3>8
  <2> QED
    BY <1>1, <2>2 DEF OnceInv
<1>10. ASSUME NEW t \in Twins, Send(t) PROVE OnceInv'
  <2> DEFINE q == twins[t].queue
             r == Head(q)
  <2>1. /\ q # <<>> /\ q \in Seq(Requests)
        /\ twins'[t].queue = Tail(q) /\ wire'[t] = wire[t] \cup {r}
        /\ \A u \in Twins \ {t} : twins'[u] = twins[u] /\ wire'[u] = wire[u]
        /\ UNCHANGED <<proxied, copies, mirrored>>
    BY <1>1, <1>2, <1>10 DEF Send, TypeOK, Registrations
  <2>2. QueuedOnce(t) /\ OnTheWire(t) /\ NotYet(t)
    BY DEF OnceInv
  <2>3. Unsent(t, r) /\ \A k \in 1 .. Len(q) : k # 1 => q[k] # r
    BY <2>1, <2>2, Taken DEF QueuedOnce
  <2>4. OnTheWire(t)' /\ NotYet(t)'
    BY <2>1, <2>2, <2>3 DEF OnTheWire, NotYet, Unsent
  <2>5. \A x : Unsent(t, x) /\ x # r => Unsent(t, x)'
    BY <2>1 DEF Unsent
  <2>6. ASSUME NEW k \in 1 .. Len(Tail(q)), NEW x, x = Tail(q)[k]
        PROVE  k + 1 \in 1 .. Len(q) /\ x = q[k + 1] /\ Unsent(t, x)'
    <3>1. k + 1 \in 1 .. Len(q) /\ x = q[k + 1] /\ k + 1 # 1
      BY <2>1, <2>6, Taken
    <3> QED
      BY <2>2, <2>3, <2>5, <3>1 DEF QueuedOnce
  <2>7. ASSUME NEW k \in 1 .. Len(Tail(q)), NEW l \in 1 .. Len(Tail(q)), k # l
        PROVE  Tail(q)[k] # Tail(q)[l]
    BY <2>2, <2>6, <2>7 DEF QueuedOnce
  <2>8. QueuedOnce(t)'
    BY <2>1, <2>6, <2>7 DEF QueuedOnce
  <2>9. ASSUME NEW u \in Twins \ {t} PROVE QueuedOnce(u)' /\ OnTheWire(u)' /\ NotYet(u)'
    BY <2>1, <2>9 DEF OnceInv, QueuedOnce, Unsent, OnTheWire, NotYet
  <2> QED
    BY <1>1, <2>4, <2>8, <2>9 DEF OnceInv
<1>11. ASSUME NEW t \in Twins, NEW r \in Requests, Arrive(t, r) PROVE OnceInv'
  <2>1. /\ r \in wire[t] /\ wire'[t] = wire[t] \ {r}
        /\ \A x \in Requests \ {r} : copies'[t][x] = copies[t][x]
        /\ \A u \in Twins \ {t} : copies'[u] = copies[u] /\ wire'[u] = wire[u]
        /\ UNCHANGED <<proxied, twins, mirrored>>
    BY <1>1, <1>11 DEF Arrive, TypeOK
  <2>2. QueuedOnce(t) /\ OnTheWire(t) /\ NotYet(t) /\ wire[t] \subseteq Requests
    BY <1>1 DEF OnceInv, TypeOK
  <2>3. r \in mirrored[t] /\ ~ (r > proxied)
    BY <2>1, <2>2 DEF OnTheWire, NotYet
  <2>4. OnTheWire(t)' /\ NotYet(t)'
    BY <2>1, <2>2, <2>3 DEF OnTheWire, NotYet
  <2>5. \A x \in Requests : Unsent(t, x) => Unsent(t, x)'
    BY <2>1 DEF Unsent
  <2>6. QueuedOnce(t)'
    BY <1>2, <2>1, <2>2, <2>5, ElementOfSeq DEF QueuedOnce
  <2>7. ASSUME NEW u \in Twins \ {t} PROVE QueuedOnce(u)' /\ OnTheWire(u)' /\ NotYet(u)'
    BY <2>1, <2>7 DEF OnceInv, QueuedOnce, Unsent, OnTheWire, NotYet
  <2> QED
    BY <1>1, <2>4, <2>6, <2>7 DEF OnceInv
<1> QED
  BY <1>3, <1>6, <1>7, <1>8, <1>9, <1>10, <1>11 DEF Next, TwinStep, WorkerStep

(* What a queue or the wire holds no twin has yet received: the strength-  *)
(* ening that ShadowsOnly needs, in every reachable state.                 *)
THEOREM RequestsSentOnce == Spec => []OnceInv
  BY OnceInit, OnceNext, PTL DEF Spec

(* Whatever times out, is cancelled or registered anew, a twin receives a  *)
(* request of production at most once, and only one that was mirrored to   *)
(* it (MirrorGatewayManager implements ShadowTraffic).                     *)
THEOREM ShadowsOnly == Spec => ShadowsProduction
<1>1. Init => Shadow!Init
  BY DEF Init, Shadow!Init
<1>2. ASSUME OnceInv, [Next]_vars PROVE [Shadow!Next]_Shadow!vars
  <2>1. CASE DispatchToTwins
    <3> DEFINE r == proxied'
               some == {t \in Twins : Registered(t)}
    <3>1. r \in Requests /\ r > proxied
      BY <1>2, <2>1, GatewayAssumption DEF DispatchToTwins, OnceInv, TypeOK, Requests
    <3>2. \A t \in Twins : r \notin mirrored[t]
      BY <1>2, <3>1 DEF OnceInv, NotYet
    <3>3. mirrored' = [t \in Twins |-> IF t \in some THEN mirrored[t] \cup {r} ELSE mirrored[t]]
      BY <2>1 DEF DispatchToTwins
    <3>4. some \in SUBSET Twins /\ copies' = copies
      BY <2>1 DEF DispatchToTwins
    <3> HIDE DEF some, r
    <3>5. Shadow!Mirror(r)
      BY <3>2, <3>3, <3>4 DEF Shadow!Mirror
    <3> QED
      BY <3>1, <3>5 DEF Shadow!Next
  <2>2. ASSUME NEW t \in Twins, NEW r \in Requests, Arrive(t, r)
        PROVE  Shadow!Next
    <3>1. r \in mirrored[t] /\ copies[t][r] = 0
      BY <1>2, <2>2 DEF Arrive, OnceInv, OnTheWire
    <3>2. copies' = [copies EXCEPT ![t][r] = 1] /\ mirrored' = mirrored
      BY <2>2, <3>1 DEF Arrive
    <3> QED
      BY <3>1, <3>2 DEF Shadow!Next, Shadow!Receive
  <2>3. CASE UNCHANGED <<copies, mirrored>>
    BY <2>3 DEF Shadow!vars
  <2> QED
    BY <1>2, <2>1, <2>2, <2>3
       DEF Next, TwinStep, WorkerStep, Close, RegisterTwin, UnregisterTwin, Send, Deliver, Fail,
           Die, vars
<1> QED
  BY <1>1, <1>2, RequestsSentOnce, PTL DEF Spec, ShadowsProduction, Shadow!Spec

-------------------------------------------------------------------------------
(***************************************************************************)
(* The counters. EachAccountedFor compares sizes, which says nothing of    *)
(* which requests a registration holds; it stays true because what it      *)
(* holds was offered to it, is queued once and is not queued while it is   *)
(* being sent, so that each step moves one request.                        *)
(***************************************************************************)
HeldBy(reg) == ToSet(reg.queue) \cup ({reg.sending} \ {0})

Once(q) == \A k, l \in 1 .. Len(q) : k # l => q[k] # q[l]

Balanced(reg, p) ==
    /\ reg.since <= p
    /\ \A r \in HeldBy(reg) : r \in reg.since + 1 .. p
    /\ Once(reg.queue) /\ reg.sending \notin ToSet(reg.queue)
    /\ reg.worker = "waiting" => reg.sending = 0
    /\ reg.worker = "sending" => reg.sending # 0
    /\ IsFiniteSet(HeldBy(reg))
    /\ reg.delivered + reg.dropped + Cardinality(HeldBy(reg)) = p - reg.since

AccountInv == TypeOK /\ \A t \in Twins : Registered(t) => Balanced(twins[t], proxied)

\* The members of a queue, when it is empty, grows, or loses its head.
LEMMA Members ==
    ASSUME NEW q \in Seq(Requests)
    PROVE  ToSet(q) = {q[k] : k \in 1 .. Len(q)} /\ ToSet(q) \subseteq Requests
<1>1. DOMAIN q = 1 .. Len(q)
  BY LenProperties
<1>2. \A k \in 1 .. Len(q) : q[k] \in Requests
  BY ElementOfSeq
<1> QED
  BY <1>1, <1>2 DEF ToSet

LEMMA EmptyMembers == ToSet(<<>>) = {} /\ Once(<<>>)
<1>1. <<>> \in Seq(Requests) /\ Len(<<>>) = 0
  BY EmptySeq
<1>2. 1 .. 0 = {}
  OBVIOUS
<1> QED
  BY <1>1, <1>2, Members DEF Once

LEMMA AppendedMembers ==
    ASSUME NEW q \in Seq(Requests), NEW r \in Requests, Once(q), r \notin ToSet(q)
    PROVE  ToSet(Append(q, r)) = ToSet(q) \cup {r} /\ Once(Append(q, r))
<1> DEFINE a == Append(q, r)
<1>1. a \in Seq(Requests) /\ Len(a) = Len(q) + 1 /\ Len(q) \in Nat
  BY AppendProperties, LenProperties
<1>2. ToSet(q) = {q[k] : k \in 1 .. Len(q)} /\ ToSet(a) = {a[k] : k \in 1 .. Len(a)}
  BY <1>1, Members
<1>3. \A k \in 1 .. Len(q) : k \in 1 .. Len(a) /\ k # Len(q) + 1 /\ a[k] = q[k] /\ q[k] # r
  <2>1. ASSUME NEW k \in 1 .. Len(q) PROVE k \in 1 .. Len(a) /\ k # Len(q) + 1
    BY <1>1
  <2> HIDE DEF a
  <2>2. ASSUME NEW k \in 1 .. Len(q) PROVE a[k] = q[k]
    BY <2>1, <2>2, Appended DEF a
  <2> QED
    BY <1>2, <2>1, <2>2
<1>4. Len(q) + 1 \in 1 .. Len(a) /\ a[Len(q) + 1] = r
  BY <1>1, Appended
<1>5. \A k \in 1 .. Len(a) : k = Len(q) + 1 \/ k \in 1 .. Len(q)
  BY <1>1
<1> HIDE DEF a
<1>6. ToSet(a) = ToSet(q) \cup {r}
  BY <1>2, <1>3, <1>4, <1>5
<1>7. Once(a)
  BY <1>3, <1>4, <1>5 DEF Once
<1> QED
  BY <1>6, <1>7 DEF a

LEMMA TailMembers ==
    ASSUME NEW q \in Seq(Requests), q # <<>>, Once(q)
    PROVE  /\ ToSet(q) = ToSet(Tail(q)) \cup {Head(q)} /\ Head(q) \notin ToSet(Tail(q))
           /\ Once(Tail(q)) /\ Head(q) \in Requests
<1> DEFINE a == Tail(q)
<1>1. a \in Seq(Requests) /\ Len(q) \in Nat \ {0} /\ Len(a) = Len(q) - 1
  BY EmptySeq, HeadTailProperties
<1>2. ToSet(q) = {q[k] : k \in 1 .. Len(q)} /\ ToSet(a) = {a[k] : k \in 1 .. Len(a)}
      /\ ToSet(q) \subseteq Requests
  BY <1>1, Members
<1>3. /\ 1 \in 1 .. Len(q) /\ Head(q) = q[1]
      /\ \A k \in 1 .. Len(a) : k + 1 \in 1 .. Len(q) /\ k + 1 # 1 /\ a[k] = q[k + 1]
  BY Taken
<1>4. \A k \in 1 .. Len(q) : k = 1 \/ (k - 1 \in 1 .. Len(a) /\ (k - 1) + 1 = k)
  BY <1>1
<1>5. \A k, l \in 1 .. Len(a) : k # l => k + 1 # l + 1
  BY <1>1
<1> HIDE DEF a
<1>6. ToSet(q) = ToSet(a) \cup {Head(q)}
  <2>1. \A k \in 1 .. Len(q) : k = 1 \/ q[k] = a[k - 1]
    BY <1>3, <1>4
  <2> QED
    BY <1>2, <1>3, <1>4, <2>1
<1>7. Head(q) \notin ToSet(a)
  BY <1>2, <1>3 DEF Once
<1>8. Once(a)
  BY <1>3, <1>5 DEF Once
<1> QED
  BY <1>2, <1>3, <1>6, <1>7, <1>8 DEF a

\* A new registration holds nothing and has been offered nothing.
LEMMA BlankBalanced ==
    ASSUME NEW p \in 0 .. MaxRequests
    PROVE  Balanced(Registration("waiting", p), p)
<1> DEFINE reg == Registration("waiting", p)
<1>1. /\ reg.queue = <<>> /\ reg.sending = 0 /\ reg.delivered = 0 /\ reg.dropped = 0
      /\ reg.since = p /\ reg.worker = "waiting"
  BY DEF Registration
<1>2. HeldBy(reg) = {}
  BY <1>1, EmptyMembers DEF HeldBy
<1>3. p \in Nat
  BY GatewayAssumption
<1> HIDE DEF reg
<1> QED
  BY <1>1, <1>2, <1>3, EmptyMembers, FS_EmptySet DEF Balanced, reg

\* A request that arrives at the gateway is queued or dropped.
LEMMA OfferBalanced ==
    ASSUME NEW p \in Nat, p + 1 \in Requests, NEW reg \in Registrations, Balanced(reg, p)
    PROVE  Balanced(Offer(reg, p + 1), p + 1) /\ Offer(reg, p + 1).worker = reg.worker
<1> DEFINE r == p + 1
           H == HeldBy(reg)
<1>1. /\ reg.queue \in Seq(Requests) /\ reg.sending \in Nat /\ reg.delivered \in Nat
      /\ reg.dropped \in Nat /\ reg.since \in Nat
  BY GatewayAssumption DEF Registrations
<1>2. r \notin H /\ r \notin ToSet(reg.queue) /\ r # reg.sending
  <2>1. \A x \in H : x <= p
    BY <1>1 DEF Balanced
  <2> QED
    BY <2>1 DEF HeldBy
<1>3. Cardinality(H) \in Nat /\ IsFiniteSet(H)
  BY FS_CardinalityType DEF Balanced
<1>4. CASE Len(reg.queue) < QueueMax
  <2> DEFINE q == Append(reg.queue, r)
             new == [reg EXCEPT !.queue = q]
  <2>1. ToSet(q) = ToSet(reg.queue) \cup {r} /\ Once(q)
    BY <1>1, <1>2, AppendedMembers DEF Balanced
  <2> HIDE DEF q
  <2>2. /\ new.queue = q /\ new.sending = reg.sending /\ new.delivered = reg.delivered
        /\ new.dropped = reg.dropped /\ new.since = reg.since /\ new.worker = reg.worker
    BY DEF Registrations
  <2> HIDE DEF new
  <2>3. HeldBy(new) = H \cup {r}
    BY <2>1, <2>2 DEF HeldBy
  <2>4. IsFiniteSet(HeldBy(new)) /\ Cardinality(HeldBy(new)) = Cardinality(H) + 1
    BY <1>2, <1>3, <2>3, FS_AddElement
  <2>5. \A x \in HeldBy(new) : x \in new.since + 1 .. r
    BY <1>1, <2>2, <2>3 DEF Balanced
  <2>6. new.since <= r /\ new.delivered + new.dropped + Cardinality(HeldBy(new)) = r - new.since
    <3>1. reg.delivered + reg.dropped + Cardinality(H) = p - reg.since /\ reg.since <= p
      BY DEF Balanced
    <3> HIDE DEF H
    <3>2. /\ reg.since <= p + 1
          /\ reg.delivered + reg.dropped + (Cardinality(H) + 1) = (p + 1) - reg.since
      BY ONLY <1>1, <1>3, <3>1, p \in Nat
    <3> QED
      BY <2>2, <2>4, <3>2
  <2>7. Once(new.queue) /\ new.sending \notin ToSet(new.queue)
    BY <1>2, <2>1, <2>2 DEF Balanced
  <2>8. Balanced(new, r)
    BY <2>2, <2>4, <2>5, <2>6, <2>7 DEF Balanced
  <2>9. Offer(reg, r) = new
    BY <1>4 DEF Offer, new, q
  <2> QED
    BY <2>2, <2>8, <2>9
<1>5. CASE ~(Len(reg.queue) < QueueMax)
  <2> DEFINE new == [reg EXCEPT !.dropped = @ + 1]
  <2>1. /\ new.queue = reg.queue /\ new.sending = reg.sending /\ new.delivered = reg.delivered
        /\ new.dropped = reg.dropped + 1 /\ new.since = reg.since /\ new.worker = reg.worker
    BY DEF Registrations
  <2> HIDE DEF new
  <2>2. HeldBy(new) = H
    BY <2>1 DEF HeldBy
  <2>3. \A x \in HeldBy(new) : x \in new.since + 1 .. r
    BY <1>1, <2>1, <2>2 DEF Balanced
  <2>4. new.since <= r /\ new.delivered + new.dropped + Cardinality(HeldBy(new)) = r - new.since
    BY <1>1, <1>3, <2>1, <2>2 DEF Balanced
  <2>5. Balanced(new, r)
    BY <2>1, <2>2, <2>3, <2>4 DEF Balanced
  <2>6. Offer(reg, r) = new
    BY <1>5 DEF Offer, new
  <2> QED
    BY <2>1, <2>5, <2>6
<1> QED
  BY <1>4, <1>5

\* What the worker takes from the queue stays in its hands.
LEMMA SendBalanced ==
    ASSUME NEW p \in Nat, NEW reg \in Registrations, Balanced(reg, p),
           reg.worker = "waiting", reg.queue # <<>>
    PROVE  Balanced([reg EXCEPT !.queue = Tail(@), !.worker = "sending",
                                !.sending = Head(reg.queue)], p)
<1> DEFINE h == Head(reg.queue)
           q == Tail(reg.queue)
           new == [reg EXCEPT !.queue = q, !.worker = "sending", !.sending = h]
<1>1. reg.queue \in Seq(Requests)
  BY DEF Registrations
<1>2. /\ ToSet(reg.queue) = ToSet(q) \cup {h} /\ h \notin ToSet(q)
      /\ Once(q) /\ h \in Requests
  BY <1>1, TailMembers DEF Balanced
<1> HIDE DEF h, q
<1>3. /\ new.queue = q /\ new.sending = h /\ new.delivered = reg.delivered
      /\ new.dropped = reg.dropped /\ new.since = reg.since /\ new.worker = "sending"
  BY DEF Registrations
<1> HIDE DEF new
<1>4. h # 0 /\ reg.sending = 0
  BY <1>2 DEF Requests, Balanced
<1>5. HeldBy(new) = HeldBy(reg)
  BY <1>2, <1>3, <1>4 DEF HeldBy
<1>6. Balanced(new, p)
  BY <1>2, <1>3, <1>4, <1>5 DEF Balanced
<1> QED
  BY <1>6 DEF new, q, h

\* A delivery, or a failed one, lets go of one request and counts it.
LEMMA DoneBalanced ==
    ASSUME NEW p \in Nat, NEW reg \in Registrations, Balanced(reg, p), reg.worker = "sending"
    PROVE  /\ Balanced([reg EXCEPT !.worker = "waiting", !.sending = 0, !.delivered = @ + 1], p)
           /\ Balanced([reg EXCEPT !.worker = "waiting", !.sending = 0, !.dropped = @ + 1], p)
           /\ Balanced([reg EXCEPT !.worker = "dead"], p)
<1>1. /\ reg.queue \in Seq(Requests) /\ reg.delivered \in Nat /\ reg.dropped \in Nat
      /\ reg.since \in Nat
  BY GatewayAssumption DEF Registrations
<1>2. reg.sending # 0 /\ reg.sending \notin ToSet(reg.queue) /\ IsFiniteSet(HeldBy(reg))
  BY DEF Balanced
<1>3. ToSet(reg.queue) = HeldBy(reg) \ {reg.sending} /\ reg.sending \in HeldBy(reg)
  BY <1>2 DEF HeldBy
<1>4. 0 \notin ToSet(reg.queue)
  BY <1>1, Members DEF Requests
<1>5. /\ IsFiniteSet(ToSet(reg.queue)) /\ Cardinality(HeldBy(reg)) \in Nat
      /\ Cardinality(ToSet(reg.queue)) = Cardinality(HeldBy(reg)) - 1
  BY <1>2, <1>3, FS_RemoveElement, FS_CardinalityType
<1>6. ASSUME NEW new,
             /\ new.queue = reg.queue /\ new.sending = 0 /\ new.since = reg.since
             /\ new.worker = "waiting" /\ new.delivered \in Nat /\ new.dropped \in Nat
             /\ new.delivered + new.dropped = reg.delivered + reg.dropped + 1
      PROVE  Balanced(new, p)
  <2>1. HeldBy(new) = ToSet(reg.queue)
    BY <1>6 DEF HeldBy
  <2>2. new.delivered + new.dropped + Cardinality(HeldBy(new)) = p - new.since
    <3>1. reg.delivered + reg.dropped + Cardinality(HeldBy(reg)) = p - reg.since
      BY DEF Balanced
    <3>2. new.delivered + new.dropped + (Cardinality(HeldBy(reg)) - 1) = p - reg.since
      BY ONLY <1>1, <1>5, <1>6, <3>1, p \in Nat
    <3> QED
      BY ONLY <1>5, <1>6, <2>1, <3>2
  <2> QED
    BY <1>3, <1>4, <1>5, <1>6, <2>1, <2>2 DEF Balanced
<1>7. Balanced([reg EXCEPT !.worker = "waiting", !.sending = 0, !.delivered = @ + 1], p)
  <2> DEFINE new == [reg EXCEPT !.worker = "waiting", !.sending = 0, !.delivered = @ + 1]
  <2>1. /\ new.queue = reg.queue /\ new.sending = 0 /\ new.since = reg.since
        /\ new.worker = "waiting" /\ new.delivered = reg.delivered + 1
        /\ new.dropped = reg.dropped
    BY DEF Registrations
  <2> HIDE DEF new
  <2>2. /\ new.delivered \in Nat /\ new.dropped \in Nat
        /\ new.delivered + new.dropped = reg.delivered + reg.dropped + 1
    BY ONLY <1>1, <2>1
  <2>3. Balanced(new, p)
    BY <1>6, <2>1, <2>2
  <2> QED
    BY <2>3 DEF new
<1>8. Balanced([reg EXCEPT !.worker = "waiting", !.sending = 0, !.dropped = @ + 1], p)
  <2> DEFINE new == [reg EXCEPT !.worker = "waiting", !.sending = 0, !.dropped = @ + 1]
  <2>1. /\ new.queue = reg.queue /\ new.sending = 0 /\ new.since = reg.since
        /\ new.worker = "waiting" /\ new.delivered = reg.delivered
        /\ new.dropped = reg.dropped + 1
    BY DEF Registrations
  <2> HIDE DEF new
  <2>2. /\ new.delivered \in Nat /\ new.dropped \in Nat
        /\ new.delivered + new.dropped = reg.delivered + reg.dropped + 1
    BY ONLY <1>1, <2>1
  <2>3. Balanced(new, p)
    BY <1>6, <2>1, <2>2
  <2> QED
    BY <2>3 DEF new
<1>9. Balanced([reg EXCEPT !.worker = "dead"], p)
  <2> DEFINE new == [reg EXCEPT !.worker = "dead"]
  <2>1. /\ new.queue = reg.queue /\ new.sending = reg.sending /\ new.since = reg.since
        /\ new.worker = "dead" /\ new.delivered = reg.delivered
        /\ new.dropped = reg.dropped
    BY DEF Registrations
  <2> HIDE DEF new
  <2>2. HeldBy(new) = HeldBy(reg)
    BY <2>1 DEF HeldBy
  <2>3. Balanced(new, p)
    BY <2>1, <2>2 DEF Balanced
  <2> QED
    BY <2>3 DEF new
<1> QED
  BY <1>7, <1>8, <1>9

\* Every step of the gateway keeps every registration balanced.
LEMMA AccountNext ==
    ASSUME AccountInv, [Next]_vars
    PROVE  AccountInv'
<1>1. TypeOK /\ TypeOK'
  BY NextTyped DEF AccountInv
<1>2. proxied \in 0 .. MaxRequests /\ proxied \in Nat
  BY <1>1, GatewayAssumption DEF TypeOK
<1>3. ASSUME NEW t \in Twins PROVE twins[t] \in Registrations
  BY <1>1, <1>3 DEF TypeOK
<1>4. ~(Unregistered.worker # "none")
  BY DEF Unregistered, Registration
<1>5. ASSUME UNCHANGED <<proxied, twins>> PROVE AccountInv'
  BY <1>1, <1>5 DEF AccountInv, Registered, Balanced, HeldBy, Once
<1>6. ASSUME NEW t \in Twins, NEW reg, twins' = [twins EXCEPT ![t] = reg], proxied' = proxied,
             reg.worker # "none" => Balanced(reg, proxied)
      PROVE  AccountInv'
  <2>1. twins'[t] = reg /\ \A u \in Twins \ {t} : twins'[u] = twins[u]
    BY <1>1, <1>6 DEF TypeOK
  <2>2. ASSUME NEW u \in Twins, twins'[u].worker # "none" PROVE Balanced(twins'[u], proxied)
    BY <1>6, <2>1, <2>2 DEF AccountInv, Registered
  <2>3. ASSUME NEW u \in Twins, Registered(u)' PROVE Balanced(twins'[u], proxied')
    BY <1>6, <2>2, <2>3 DEF Registered
  <2> QED
    BY <1>1, <2>3 DEF AccountInv, Balanced, HeldBy, Once
<1>7. CASE DispatchToTwins
  <2>1. proxied' = proxied + 1 /\ proxied + 1 \in Requests
    BY <1>2, <1>7, GatewayAssumption DEF DispatchToTwins, Requests
  <2>2. ASSUME NEW t \in Twins, twins'[t].worker # "none"
        PROVE  Balanced(twins'[t], proxied')
    <3>1. twins'[t] = IF Registered(t) THEN Offer(twins[t], proxied + 1) ELSE twins[t]
      BY <1>7, <2>1 DEF DispatchToTwins
    <3>2. Registered(t)
      BY <2>2, <3>1 DEF Registered
    <3> QED
      BY <1>2, <1>3, <2>1, <3>1, <3>2, OfferBalanced DEF AccountInv
  <2> QED
    BY <1>1, <2>2 DEF AccountInv, Registered, Balanced, HeldBy, Once
<1>8. CASE Close
  <2>1. \A t \in Twins : ~(twins'[t].worker # "none")
    BY <1>4, <1>8 DEF Close
  <2> QED
    BY <1>1, <2>1 DEF AccountInv, Registered
<1>9. ASSUME NEW t \in Twins, RegisterTwin(t) \/ UnregisterTwin(t) PROVE AccountInv'
  <2>1. CASE RegisterTwin(t)
    BY <1>2, <1>6, <2>1, BlankBalanced DEF RegisterTwin
  <2>2. CASE UnregisterTwin(t)
    BY <1>4, <1>6, <2>2 DEF UnregisterTwin
  <2> QED
    BY <1>9, <2>1, <2>2
<1>10. ASSUME NEW t \in Twins, Send(t) PROVE AccountInv'
  <2> DEFINE reg == [twins[t] EXCEPT !.queue = Tail(@), !.worker = "sending",
                                     !.sending = Head(twins[t].queue)]
  <2>1. twins[t].worker = "waiting" /\ twins[t].queue # <<>> /\ Balanced(twins[t], proxied)
    BY <1>10 DEF Send, AccountInv, Registered
  <2>2. Balanced(reg, proxied)
    BY <1>2, <1>3, <2>1, SendBalanced
  <2>3. twins' = [twins EXCEPT ![t] = reg] /\ proxied' = proxied
    BY <1>1, <1>10 DEF Send, TypeOK
  <2> HIDE DEF reg
  <2> QED
    BY <1>6, <2>2, <2>3
<1>11. ASSUME NEW t \in Twins, Deliver(t) \/ Fail(t) \/ Die(t) PROVE AccountInv'
  <2> DEFINE arrived == [twins[t] EXCEPT !.worker = "waiting", !.sending = 0, !.delivered = @ + 1]
             lost == [twins[t] EXCEPT !.worker = "waiting", !.sending = 0, !.dropped = @ + 1]
             dead == [twins[t] EXCEPT !.worker = "dead"]
  <2>1. twins[t].worker = "sending" /\ Balanced(twins[t], proxied)
    BY <1>11 DEF Deliver, Fail, Die, AccountInv, Registered
  <2>2. Balanced(arrived, proxied) /\ Balanced(lost, proxied) /\ Balanced(dead, proxied)
    BY <1>2, <1>3, <2>1, DoneBalanced
  <2>3. \E reg \in {arrived, lost, dead} : twins' = [twins EXCEPT ![t] = reg]
    BY <1>1, <1>3, <1>11 DEF Deliver, Fail, Die, TypeOK, Registrations
  <2>4. proxied' = proxied
    BY <1>11 DEF Deliver, Fail, Die
  <2> HIDE DEF arrived, lost, dead
  <2> QED
    BY <1>6, <2>2, <2>3, <2>4
<1>12. ASSUME NEW t \in Twins, NEW r \in Requests, Arrive(t, r) PROVE AccountInv'
  BY <1>5, <1>12 DEF Arrive
<1>13. CASE UNCHANGED vars
  BY <1>5, <1>13 DEF vars
<1> QED
  BY <1>7, <1>8, <1>9, <1>10, <1>11, <1>12, <1>13 DEF Next, TwinStep, WorkerStep

(* Every request offered to a registered twin is delivered, dropped or     *)
(* held, and counted once, however long the queues and whatever fails: the *)
(* drop ratio of _build_stats misses what is held and nothing else.        *)
THEOREM AccountsBalance == Spec => []EachAccountedFor
<1>1. Init => AccountInv
  <2> SUFFICES ASSUME Init PROVE AccountInv
    OBVIOUS
  <2>1. \A t \in Twins : ~Registered(t)
    BY DEF Init, Registered, Unregistered, Registration
  <2> QED
    BY <2>1, InitTyped DEF AccountInv
<1>2. AccountInv => EachAccountedFor
  <2> SUFFICES ASSUME AccountInv, NEW t \in Twins, Registered(t)
               PROVE  twins[t].delivered + twins[t].dropped + Cardinality(Held(t))
                         = Cardinality(Offered(t))
    BY DEF EachAccountedFor
  <2>1. Balanced(twins[t], proxied) /\ HeldBy(twins[t]) = Held(t)
    BY DEF AccountInv, HeldBy, Held
  <2>2. proxied \in Nat /\ twins[t].since \in Nat /\ twins[t].since <= proxied
    BY <2>1, GatewayAssumption DEF AccountInv, TypeOK, Registrations, Balanced
  <2>3. Cardinality(twins[t].since + 1 .. proxied) = proxied - twins[t].since
    BY <2>2, FS_Interval
  <2> QED
    BY <2>1, <2>3 DEF Balanced, Offered
<1> QED
  BY <1>1, <1>2, AccountNext, PTL DEF Spec

-------------------------------------------------------------------------------
(***************************************************************************)
(* The comparison. What a registration counts as delivered is a set of     *)
(* requests the twin has received since it was registered, which is since  *)
(* the gateway was started; so the counters of production, asked for       *)
(* later, count them too. A set the twin has received only grows: it       *)
(* outlives the registration that counted it, and every answer that is     *)
(* still to come.                                                          *)
(***************************************************************************)
Settled(t) ==
    /\ started <= twins[t].since
    /\ answered[t] \subseteq Received(t)
    /\ \A r \in answered[t] : started < r /\ r <= proxied
    /\ IsFiniteSet(answered[t]) /\ Cardinality(answered[t]) = twins[t].delivered
    /\ twins[t].worker = "sending" =>
          /\ twins[t].sending \notin answered[t]
          /\ twins[t].sending \in wire[t] \cup Received(t)

AnsweredInv ==
    /\ OnceInv /\ AccountInv
    /\ started \in 0 .. MaxRequests /\ started <= proxied
    /\ answered \in [Twins -> SUBSET Requests]
    /\ \A t \in Twins : Registered(t) => Settled(t)

(* The twin has received n of these requests.                              *)
Shown(t, n, counted) ==
    \E some \in SUBSET (Received(t) \cap counted) : IsFiniteSet(some) /\ Cardinality(some) = n

Comparisons ==
    [step : {"idle", "prod", "paths"}, todo : SUBSET Compared, stats : [Compared -> Nat \X Nat],
     prod : SUBSET Requests, prodDelivered : {comparison.prodDelivered},
     prodRead : BOOLEAN, restarted : BOOLEAN]

ComparisonInv ==
    /\ comparison \in Comparisons
    /\ comparison.prodRead => /\ comparison.step = "paths"
                              /\ comparison.prodDelivered = Cardinality(comparison.prod)
    /\ ~comparison.restarted => \A t \in comparison.todo :
          /\ comparison.step = "prod" => Shown(t, comparison.stats[t][1], ProdCounted)
          /\ comparison.prodRead => Shown(t, comparison.stats[t][1], comparison.prod)

RegistryInv == AnsweredInv /\ ComparisonInv

\* Every step of the registry is one of the gateway, or none.
LEMMA RegistrySteps ==
    ASSUME [RegistryNext]_registryVars
    PROVE  [Next]_vars
<1>1. ASSUME Compare PROVE UNCHANGED vars
  BY <1>1 DEF Compare, GetAllStats, GetProdStats, GetTwinPaths
<1> QED
  BY <1>1 DEF RegistryNext, registryVars, ProxyRequest, Restart, Register, Unregister, WorkerRuns,
              Arrives, Next, TwinStep, vars

\* What a twin has received, it has received for good.
LEMMA ReceivedGrows ==
    ASSUME TypeOK, [Next]_vars, NEW t \in Twins, NEW r \in Requests, copies[t][r] > 0
    PROVE  copies'[t][r] > 0
<1>1. ASSUME NEW u \in Twins, NEW x \in Requests, Arrive(u, x) PROVE copies'[t][r] > 0
  <2>1. copies' = [copies EXCEPT ![u][x] = @ + 1] /\ copies \in [Twins -> [Requests -> Nat]]
    BY <1>1 DEF Arrive, TypeOK
  <2>2. copies'[t][r] \in {copies[t][r], copies[t][r] + 1} /\ copies[t][r] \in Nat
    BY <2>1
  <2> QED
    BY <2>2
<1>2. CASE UNCHANGED copies
  BY <1>2
<1> QED
  BY <1>1, <1>2 DEF Next, TwinStep, WorkerStep, DispatchToTwins, Close, RegisterTwin,
                    UnregisterTwin, Send, Deliver, Fail, Die, vars

\* A registration whose counters stay, and whose worker sends what it sent.
LEMMA SettledKept ==
    ASSUME TypeOK, NEW t \in Twins, Settled(t), [Next]_vars, started' = started,
           started \in Nat, proxied \in Nat, proxied' \in Nat, proxied <= proxied',
           answered'[t] = answered[t], answered[t] \in SUBSET Requests,
           twins'[t].since = twins[t].since, twins'[t].delivered = twins[t].delivered,
           twins'[t].worker = "sending" =>
              /\ twins[t].worker = "sending" /\ twins'[t].sending = twins[t].sending
              /\ wire[t] \subseteq wire'[t] \cup {r \in Requests : copies'[t][r] > 0}
    PROVE  Settled(t)'
<1>1. \A r \in Received(t) : r \in Received(t)'
  BY ReceivedGrows DEF Received
<1>2. \A r \in answered[t] : started < r /\ r <= proxied'
  BY DEF Settled, Requests
<1> QED
  BY <1>1, <1>2 DEF Settled, Received

LEMMA OfferKeeps ==
    ASSUME NEW reg \in Registrations, NEW r
    PROVE  /\ Offer(reg, r).since = reg.since /\ Offer(reg, r).delivered = reg.delivered
           /\ Offer(reg, r).worker = reg.worker /\ Offer(reg, r).sending = reg.sending
  BY DEF Offer, Registrations

\* What the worker of one twin does leaves the other registrations alone.
LEMMA WorkerSettles ==
    ASSUME AnsweredInv, NEW t \in Twins, WorkerRuns(t), Registered(t)'
    PROVE  Settled(t)'
<1>1. /\ TypeOK /\ Registered(t) /\ Settled(t) /\ [Next]_vars /\ started' = started
      /\ UNCHANGED <<proxied, copies>> /\ proxied \in Nat /\ started \in Nat
      /\ twins[t] \in Registrations /\ answered[t] \in SUBSET Requests
  <2>1. Registered(t) /\ WorkerStep(t) /\ started' = started
    BY DEF WorkerRuns, WorkerStep, Send, Deliver, Fail, Die, Registered
  <2>2. [Next]_vars
    BY <2>1 DEF Next, TwinStep
  <2>3. UNCHANGED <<proxied, copies>>
    BY <2>1 DEF WorkerStep, Send, Deliver, Fail, Die
  <2>4. TypeOK /\ started \in Nat /\ answered[t] \in SUBSET Requests /\ Settled(t)
    BY <2>1 DEF AnsweredInv, OnceInv
  <2>5. proxied \in Nat /\ twins[t] \in Registrations
    BY <2>4, GatewayAssumption DEF TypeOK
  <2> QED
    BY <2>1, <2>2, <2>3, <2>4, <2>5
<1>2. answered' = IF twins'[t].delivered > twins[t].delivered
                  THEN [answered EXCEPT ![t] = @ \cup {twins[t].sending}] ELSE answered
  BY DEF WorkerRuns
<1>3. twins[t].delivered \in Nat
  BY <1>1 DEF Registrations
<1>4. CASE Send(t)
  <2> DEFINE r == Head(twins[t].queue)
  <2>1. /\ twins'[t].since = twins[t].since /\ twins'[t].delivered = twins[t].delivered
        /\ twins'[t].sending = r /\ r \in wire'[t] /\ twins[t].queue # <<>>
    BY <1>1, <1>4 DEF Send, TypeOK, Registrations
  <2>2. answered' = answered
    BY <1>2, <1>3, <2>1
  <2>3. r \notin Received(t)
    <3>1. QueuedOnce(t) /\ twins[t].queue \in Seq(Requests)
      BY <1>1 DEF AnsweredInv, OnceInv, Registrations
    <3>2. Unsent(t, r)
      BY <2>1, <3>1, Taken DEF QueuedOnce
    <3> QED
      BY <3>2 DEF Unsent, Received
  <2>4. r \notin answered[t]
    BY <1>1, <2>3 DEF Settled
  <2> QED
    BY <1>1, <2>1, <2>2, <2>4 DEF Settled, Received
<1>5. CASE Deliver(t)
  <2> DEFINE r == twins[t].sending
             more == answered[t] \cup {r}
  <2>1. /\ twins'[t].since = twins[t].since /\ twins'[t].delivered = twins[t].delivered + 1
        /\ twins'[t].worker = "waiting" /\ twins[t].worker = "sending" /\ r \notin wire[t]
    BY <1>1, <1>5 DEF Deliver, TypeOK, Registrations
  <2>2. answered'[t] = more
    <3>1. twins'[t].delivered > twins[t].delivered
      BY <1>3, <2>1
    <3> QED
      BY <1>2, <3>1 DEF AnsweredInv
  <2>3. r \in Received(t) /\ r \notin answered[t]
    BY <1>1, <2>1 DEF Settled
  <2>4. IsFiniteSet(more) /\ Cardinality(more) = twins[t].delivered + 1
    BY <1>1, <2>3, FS_AddElement DEF Settled
  <2>5. started < r /\ r <= proxied
    <3>1. Balanced(twins[t], proxied) /\ r # 0
      BY <1>1, <2>1 DEF AnsweredInv, AccountInv, Balanced
    <3>2. r \in twins[t].since + 1 .. proxied /\ twins[t].since \in Nat
      BY <1>1, <3>1, GatewayAssumption DEF Balanced, HeldBy, Registrations
    <3> QED
      BY <1>1, <3>2 DEF Settled
  <2> HIDE DEF more
  <2>6. more \subseteq Received(t)' /\ \A x \in more : started < x /\ x <= proxied
    BY <1>1, <2>3, <2>5 DEF Settled, Received, more
  <2> QED
    BY <1>1, <2>1, <2>2, <2>4, <2>6 DEF Settled
<1>6. CASE Fail(t) \/ Die(t)
  <2>1. /\ twins'[t].since = twins[t].since /\ twins'[t].delivered = twins[t].delivered
        /\ twins'[t].worker # "sending"
    BY <1>1, <1>6 DEF Fail, Die, TypeOK, Registrations
  <2>2. answered' = answered
    BY <1>2, <1>3, <2>1
  <2> QED
    BY <1>1, <2>1, <2>2, SettledKept
<1> QED
  BY <1>4, <1>5, <1>6 DEF WorkerRuns, WorkerStep

\* Every step of the registry keeps what is counted a set of received requests.
LEMMA AnsweredNext ==
    ASSUME AnsweredInv, [RegistryNext]_registryVars
    PROVE  AnsweredInv'
<1>1. [Next]_vars /\ TypeOK /\ TypeOK' /\ OnceInv' /\ AccountInv'
  BY RegistrySteps, NextTyped, OnceNext, AccountNext DEF AnsweredInv, OnceInv
<1>2. /\ started \in Nat /\ proxied \in Nat /\ proxied' \in Nat /\ started <= proxied
      /\ answered \in [Twins -> SUBSET Requests] /\ \A t \in Twins : twins[t] \in Registrations
  BY <1>1, GatewayAssumption DEF AnsweredInv, TypeOK
<1>3. ~(Unregistered.worker # "none")
  BY DEF Unregistered, Registration
<1>4. CASE ProxyRequest
  <2>1. /\ UNCHANGED <<started, answered, wire>> /\ proxied' = proxied + 1
        /\ \A t \in Twins : twins'[t] = IF Registered(t) THEN Offer(twins[t], proxied')
                                        ELSE twins[t]
    BY <1>4 DEF ProxyRequest, DispatchToTwins
  <2>2. ASSUME NEW t \in Twins, Registered(t)' PROVE Settled(t)'
    <3>1. Registered(t) /\ twins'[t] = Offer(twins[t], proxied')
      BY <2>1, <2>2 DEF Registered
    <3>2. /\ twins'[t].since = twins[t].since /\ twins'[t].delivered = twins[t].delivered
          /\ twins'[t].worker = twins[t].worker /\ twins'[t].sending = twins[t].sending
      BY <1>2, <3>1, OfferKeeps
    <3> QED
      BY <1>1, <1>2, <2>1, <3>1, <3>2, SettledKept DEF AnsweredInv
  <2> QED
    BY <1>1, <1>2, <2>1, <2>2 DEF AnsweredInv
<1>5. CASE Restart
  <2>1. \A t \in Twins : ~(twins'[t].worker # "none")
    BY <1>3, <1>5 DEF Restart, Close
  <2>2. /\ started' = proxied /\ proxied' = proxied /\ answered' = [t \in Twins |-> {}]
    BY <1>5 DEF Restart, Close
  <2> QED
    BY <1>1, <1>2, <2>1, <2>2 DEF AnsweredInv, Registered, TypeOK
(* One registration is replaced, the others stay.                          *)
<1>6. ASSUME NEW t \in Twins, NEW reg, twins' = [twins EXCEPT ![t] = reg],
             UNCHANGED <<started, proxied, wire, copies>>,
             answered' \in [Twins -> SUBSET Requests],
             \A u \in Twins \ {t} : answered'[u] = answered[u],
             Registered(t)' => Settled(t)'
      PROVE  AnsweredInv'
  <2>1. ASSUME NEW u \in Twins \ {t}, Registered(u)' PROVE Settled(u)'
    <3>1. twins'[u] = twins[u] /\ Registered(u)
      BY <1>6, <2>1 DEF Registered
    <3> QED
      BY <1>6, <3>1 DEF AnsweredInv, Settled, Received
  <2> QED
    BY <1>1, <1>6, <2>1 DEF AnsweredInv
<1>7. ASSUME NEW t \in Twins, Register(t) \/ Unregister(t) PROVE AnsweredInv'
  <2>1. /\ answered' = [answered EXCEPT ![t] = {}]
        /\ UNCHANGED <<started, proxied, wire, copies>>
    BY <1>7 DEF Register, Unregister, RegisterTwin, UnregisterTwin
  <2>2. answered' \in [Twins -> SUBSET Requests] /\ answered'[t] = {}
        /\ \A u \in Twins \ {t} : answered'[u] = answered[u]
    BY <1>2, <2>1
  <2>3. CASE Register(t)
    <3> DEFINE reg == Registration("waiting", proxied)
    <3>1. twins' = [twins EXCEPT ![t] = reg] /\ twins'[t] = reg
      BY <1>1, <2>3 DEF Register, RegisterTwin, TypeOK
    <3>2. reg.since = proxied /\ reg.delivered = 0 /\ reg.worker = "waiting"
      BY DEF Registration
    <3> HIDE DEF reg
    <3>3. Settled(t)'
      BY <1>2, <2>1, <2>2, <3>1, <3>2, FS_EmptySet DEF Settled
    <3> QED
      BY <1>6, <2>1, <2>2, <3>1, <3>3
  <2>4. CASE Unregister(t)
    <3>1. twins' = [twins EXCEPT ![t] = Unregistered]
      BY <2>4 DEF Unregister, UnregisterTwin
    <3>2. ~Registered(t)'
      BY <1>1, <1>3, <3>1 DEF Registered, TypeOK
    <3> QED
      BY <1>6, <2>1, <2>2, <3>1, <3>2
  <2> QED
    BY <1>7, <2>3, <2>4
<1>8. ASSUME NEW t \in Twins, WorkerRuns(t) PROVE AnsweredInv'
  <2>1. /\ UNCHANGED <<started, proxied, copies>>
        /\ \A u \in Twins \ {t} : twins'[u] = twins[u] /\ wire'[u] = wire[u]
    BY <1>1, <1>8 DEF WorkerRuns, WorkerStep, Send, Deliver, Fail, Die, TypeOK
  <2>2. /\ \A u \in Twins \ {t} : answered'[u] = answered[u]
        /\ answered' \in [Twins -> SUBSET Requests]
    <3>1. \/ answered' = answered
          \/ answered' = [answered EXCEPT ![t] = @ \cup {twins[t].sending}] /\ Deliver(t)
      <4>1. CASE Deliver(t)
        BY <1>8, <4>1 DEF WorkerRuns
      <4>2. CASE Send(t) \/ Fail(t) \/ Die(t)
        <5>1. twins'[t].delivered = twins[t].delivered /\ twins[t].delivered \in Nat
          BY <1>1, <1>2, <4>2 DEF Send, Fail, Die, TypeOK, Registrations
        <5> QED
          BY <1>8, <5>1 DEF WorkerRuns
      <4> QED
        BY <1>8, <4>1, <4>2 DEF WorkerRuns, WorkerStep
    <3>2. Deliver(t) => twins[t].sending \in Requests
      <4>1. ASSUME Deliver(t) PROVE twins[t].sending \in Requests
        <5>1. Registered(t) /\ twins[t].sending # 0
          BY <4>1 DEF Deliver, AnsweredInv, AccountInv, Registered, Balanced
        <5> QED
          BY <1>2, <5>1, GatewayAssumption DEF Registrations, Requests
      <4> QED
        BY <4>1
    <3> QED
      BY <1>2, <3>1, <3>2
  <2>3. ASSUME NEW u \in Twins \ {t}, Registered(u)' PROVE Settled(u)'
    BY <2>1, <2>2, <2>3 DEF AnsweredInv, Settled, Received, Registered
  <2>4. Registered(t)' => Settled(t)'
    BY <1>8, WorkerSettles
  <2> QED
    BY <1>1, <2>1, <2>2, <2>3, <2>4 DEF AnsweredInv
<1>9. ASSUME NEW t \in Twins, NEW r \in Requests, Arrives(t, r) PROVE AnsweredInv'
  <2>1. /\ UNCHANGED <<started, answered, proxied, twins>>
        /\ wire' = [wire EXCEPT ![t] = @ \ {r}] /\ copies' = [copies EXCEPT ![t][r] = @ + 1]
    BY <1>9 DEF Arrives, Arrive
  <2>2. copies'[t][r] > 0
    BY <1>1, <2>1 DEF TypeOK
  <2>3. ASSUME NEW u \in Twins
        PROVE  wire[u] \subseteq wire'[u] \cup {x \in Requests : copies'[u][x] > 0}
    BY <1>1, <2>1, <2>2 DEF TypeOK
  <2>4. ASSUME NEW u \in Twins, Registered(u)' PROVE Settled(u)'
    BY <1>1, <1>2, <2>1, <2>3, <2>4, SettledKept DEF AnsweredInv, Registered
  <2> QED
    BY <1>1, <2>1, <2>4 DEF AnsweredInv
<1>10. CASE UNCHANGED <<vars, started, answered>>
  BY <1>1, <1>10 DEF AnsweredInv, Settled, Received, Registered, vars
<1> QED
  BY <1>4, <1>5, <1>7, <1>8, <1>9, <1>10
     DEF RegistryNext, registryVars, Compare, GetAllStats, GetProdStats, GetTwinPaths

\* A set that a twin has received it has received for good, and of a larger set.
LEMMA ShownStays ==
    ASSUME TypeOK, [Next]_vars, NEW t \in Twins, NEW n, NEW counted, NEW more,
           counted \subseteq more, Shown(t, n, counted)
    PROVE  \E some \in SUBSET ({r \in Requests : copies'[t][r] > 0} \cap more) :
               IsFiniteSet(some) /\ Cardinality(some) = n
<1>1. PICK some \in SUBSET (Received(t) \cap counted) :
          IsFiniteSet(some) /\ Cardinality(some) = n
  BY DEF Shown
<1>2. \A r \in some : r \in Requests /\ copies'[t][r] > 0 /\ r \in more
  BY <1>1, ReceivedGrows DEF Received
<1> QED
  BY <1>1, <1>2

\* The fields a step of the comparison leaves it.
LEMMA ComparisonSteps ==
    ASSUME RegistryInv
    PROVE  /\ GetAllStats =>
                  /\ comparison' \in Comparisons' /\ comparison'.step = "prod"
                  /\ comparison'.prodRead = FALSE
                  /\ \A t \in comparison'.todo :
                        Registered(t) /\ comparison'.stats[t][1] = twins[t].delivered
           /\ GetProdStats =>
                  /\ comparison' \in Comparisons' /\ comparison'.step = "paths"
                  /\ comparison'.todo = comparison.todo
                  /\ comparison'.stats = comparison.stats
                  /\ comparison'.restarted = comparison.restarted
                  /\ comparison'.prodRead =>
                        /\ comparison'.prod = ProdCounted
                        /\ comparison'.prodDelivered = Cardinality(ProdCounted)
           /\ \A t \in Compared, twinPaths \in SUBSET Requests : GetTwinPaths(t, twinPaths) =>
                  \/ comparison' = Idle
                  \/ /\ comparison' \in Comparisons' /\ comparison'.step = "paths"
                     /\ comparison'.todo = comparison.todo \ {t}
                     /\ \A u \in Compared \ {t} : comparison'.stats[u] = comparison.stats[u]
                     /\ comparison'.restarted = comparison.restarted
                     /\ comparison'.prodRead = comparison.prodRead
                     /\ comparison'.prod = comparison.prod
                     /\ comparison'.prodDelivered = comparison.prodDelivered
<1> DEFINE c == comparison
<1>1. /\ c \in Comparisons /\ Compared \subseteq Twins
      /\ c.prodRead => c.step = "paths"
  BY RegistryAssumption DEF RegistryInv, ComparisonInv
<1>2. ASSUME GetAllStats
      PROVE  /\ c' \in Comparisons' /\ c'.step = "prod" /\ c'.prodRead = FALSE
             /\ \A t \in c'.todo : Registered(t) /\ c'.stats[t][1] = twins[t].delivered
  <2> DEFINE stats == [t \in Compared |-> <<twins[t].delivered, twins[t].dropped>>]
             todo == {t \in Compared : Registered(t)}
  <2>1. stats \in [Compared -> Nat \X Nat]
    <3>1. \A t \in Compared : twins[t] \in Registrations
      BY <1>1 DEF RegistryInv, AnsweredInv, OnceInv, TypeOK
    <3> QED
      BY <3>1 DEF Registrations
  <2>2. \A t \in Compared : stats[t][1] = twins[t].delivered
    OBVIOUS
  <2>3. todo \in SUBSET Compared /\ \A t \in todo : Registered(t) /\ t \in Compared
    OBVIOUS
  <2>4. c' = [Idle EXCEPT !.step = "prod", !.todo = todo, !.stats = stats]
    BY <1>2 DEF GetAllStats
  <2> HIDE DEF stats, todo
  <2>5. /\ c'.step = "prod" /\ c'.todo = todo /\ c'.stats = stats /\ c'.prodRead = FALSE
        /\ c' \in Comparisons'
    BY <2>1, <2>3, <2>4 DEF Idle, Comparisons
  <2> QED
    BY <2>2, <2>3, <2>5
<1>3. ASSUME GetProdStats
      PROVE  /\ c' \in Comparisons' /\ c'.step = "paths" /\ c'.todo = c.todo
             /\ c'.stats = c.stats /\ c'.restarted = c.restarted
             /\ c'.prodRead => /\ c'.prod = ProdCounted
                               /\ c'.prodDelivered = Cardinality(ProdCounted)
  <2> DEFINE m == Max({c.stats[t][1] : t \in c.todo})
             n == Cardinality(ProdCounted)
  <2>1. /\ ~c.prodRead /\ ProdCounted \in SUBSET Requests
        /\ \/ c' = [c EXCEPT !.step = "paths", !.prodRead = TRUE, !.prod = ProdCounted,
                             !.prodDelivered = n]
           \/ c' = [c EXCEPT !.step = "paths", !.prodDelivered = m]
    BY <1>1, <1>3 DEF GetProdStats, ProdCounted
  <2> HIDE DEF m, n
  <2>2. CASE c' = [c EXCEPT !.step = "paths", !.prodRead = TRUE, !.prod = ProdCounted,
                            !.prodDelivered = n]
    BY <1>1, <2>1, <2>2 DEF Comparisons, n
  <2>3. CASE c' = [c EXCEPT !.step = "paths", !.prodDelivered = m]
    BY <1>1, <2>1, <2>3 DEF Comparisons
  <2> QED
    BY <2>1, <2>2, <2>3
<1>4. ASSUME NEW t \in Compared, NEW twinPaths \in SUBSET Requests, GetTwinPaths(t, twinPaths)
      PROVE  \/ c' = Idle
             \/ /\ c' \in Comparisons' /\ c'.step = "paths" /\ c'.todo = c.todo \ {t}
                /\ \A u \in Compared \ {t} : c'.stats[u] = c.stats[u]
                /\ c'.restarted = c.restarted /\ c'.prodRead = c.prodRead
                /\ c'.prod = c.prod /\ c'.prodDelivered = c.prodDelivered
  <2> DEFINE stats == [c.stats EXCEPT ![t] = <<0, 0>>]
  <2>1. c.step = "paths" /\ c.stats \in [Compared -> Nat \X Nat] /\ c.todo \in SUBSET Compared
    BY <1>1, <1>4 DEF GetTwinPaths, Comparisons
  <2>2. /\ stats \in [Compared -> Nat \X Nat]
        /\ \A u \in Compared \ {t} : stats[u] = c.stats[u]
    BY <2>1
  <2>3. c' = Idle \/ c' = [c EXCEPT !.todo = c.todo \ {t}, !.stats = stats]
    BY <1>4 DEF GetTwinPaths
  <2> HIDE DEF stats
  <2>4. ASSUME c' = [c EXCEPT !.todo = c.todo \ {t}, !.stats = stats]
        PROVE  /\ c' \in Comparisons' /\ c'.step = "paths" /\ c'.todo = c.todo \ {t}
               /\ c'.stats = stats
               /\ c'.restarted = c.restarted /\ c'.prodRead = c.prodRead
               /\ c'.prod = c.prod /\ c'.prodDelivered = c.prodDelivered
    BY <1>1, <2>1, <2>2, <2>4 DEF Comparisons
  <2> QED
    BY <2>2, <2>3, <2>4
<1> QED
  BY <1>2, <1>3, <1>4

\* Every step keeps what the twins were counted to have received, received.
LEMMA RegistryInvNext ==
    ASSUME RegistryInv, [RegistryNext]_registryVars
    PROVE  RegistryInv'
<1> DEFINE c == comparison
<1>1. AnsweredInv /\ AnsweredInv' /\ TypeOK /\ [Next]_vars /\ Compared \subseteq Twins
  BY AnsweredNext, RegistrySteps, RegistryAssumption DEF RegistryInv, AnsweredInv, OnceInv
<1>2. /\ c \in Comparisons
      /\ c.prodRead => c.step = "paths" /\ c.prodDelivered = Cardinality(c.prod)
      /\ ~c.restarted => \A t \in c.todo :
            /\ c.step = "prod" => Shown(t, c.stats[t][1], ProdCounted)
            /\ c.prodRead => Shown(t, c.stats[t][1], c.prod)
  BY DEF RegistryInv, ComparisonInv
<1>3. c.todo \subseteq Twins
  BY <1>1, <1>2 DEF Comparisons
(* The gateway goes on, and the comparison waits.                          *)
<1>4. ASSUME c' = c, started' = started PROVE ComparisonInv'
  <2>1. ProdCounted \subseteq ProdCounted'
    <3>1. proxied \in Nat
      BY <1>1, GatewayAssumption DEF TypeOK
    <3>2. proxied' \in {proxied, proxied + 1}
      BY <1>1 DEF Next, vars, DispatchToTwins, Close, TwinStep, WorkerStep, RegisterTwin,
                  UnregisterTwin, Send, Deliver, Fail, Die, Arrive
    <3>3. \A r \in Requests : r <= proxied => r <= proxied'
      BY <3>1, <3>2 DEF Requests
    <3> QED
      BY <1>4, <3>3 DEF ProdCounted
  <2>2. ASSUME NEW t \in c.todo, ~c.restarted, c.step = "prod"
        PROVE  Shown(t, c.stats[t][1], ProdCounted)'
    <3>1. Shown(t, c.stats[t][1], ProdCounted) /\ t \in Twins
      BY <1>2, <1>3, <2>2
    <3>2. \E some \in SUBSET ({r \in Requests : copies'[t][r] > 0} \cap ProdCounted') :
              IsFiniteSet(some) /\ Cardinality(some) = c.stats[t][1]
      BY <1>1, <2>1, <3>1, ShownStays
    <3> QED
      BY <1>4, <3>2 DEF Shown, Received
  <2>3. ASSUME NEW t \in c.todo, ~c.restarted, c.prodRead
        PROVE  Shown(t, c.stats[t][1], c.prod)'
    <3>1. Shown(t, c.stats[t][1], c.prod) /\ t \in Twins
      BY <1>2, <1>3, <2>3
    <3>2. \E some \in SUBSET ({r \in Requests : copies'[t][r] > 0} \cap c.prod) :
              IsFiniteSet(some) /\ Cardinality(some) = c.stats[t][1]
      BY <1>1, <3>1, ShownStays
    <3> QED
      BY <1>4, <3>2 DEF Shown, Received
  <2> QED
    BY <1>2, <1>4, <2>2, <2>3 DEF ComparisonInv, Comparisons
<1>5. ASSUME Restart PROVE ComparisonInv'
  <2>1. c' = [c EXCEPT !.restarted = c.step # "idle"]
    BY <1>5 DEF Restart
  <2>2. /\ c' \in Comparisons' /\ c'.step = c.step /\ c'.prodRead = c.prodRead
        /\ c'.prod = c.prod /\ c'.prodDelivered = c.prodDelivered
        /\ c'.restarted = (c.step # "idle")
    BY <1>2, <2>1 DEF Comparisons
  <2> QED
    BY <1>2, <2>2 DEF ComparisonInv
<1>6. ASSUME GetAllStats PROVE ComparisonInv'
  <2>1. /\ c' \in Comparisons' /\ c'.step = "prod" /\ c'.prodRead = FALSE
        /\ \A t \in c'.todo : Registered(t) /\ c'.stats[t][1] = twins[t].delivered
    BY <1>6, ComparisonSteps
  <2>2. UNCHANGED <<proxied, started, copies>>
    BY <1>6 DEF GetAllStats, vars
  <2>3. ASSUME NEW t \in Twins, NEW n, Registered(t), n = twins[t].delivered
        PROVE  \E some \in SUBSET (Received(t) \cap ProdCounted) :
                   IsFiniteSet(some) /\ Cardinality(some) = n
    <3>1. Settled(t) /\ answered[t] \subseteq Requests
      BY <1>1, <2>3 DEF AnsweredInv
    <3>2. answered[t] \in SUBSET (Received(t) \cap ProdCounted)
      BY <3>1 DEF Settled, ProdCounted
    <3> QED
      BY <2>3, <3>1, <3>2 DEF Settled
  <2>4. c'.todo \subseteq Twins
    BY <1>1, <2>1 DEF Comparisons
  <2>5. ASSUME NEW t \in c'.todo PROVE Shown(t, c.stats[t][1], ProdCounted)'
    <3>1. \E some \in SUBSET (Received(t) \cap ProdCounted) :
              IsFiniteSet(some) /\ Cardinality(some) = c'.stats[t][1]
      BY <2>1, <2>3, <2>4
    <3> QED
      BY <2>2, <3>1 DEF Shown, Received, ProdCounted
  <2> QED
    BY <2>1, <2>5 DEF ComparisonInv
<1>7. ASSUME GetProdStats PROVE ComparisonInv'
  <2>1. /\ c' \in Comparisons' /\ c'.step = "paths" /\ c'.todo = c.todo
        /\ c'.stats = c.stats /\ c'.restarted = c.restarted
        /\ c'.prodRead => /\ c'.prod = ProdCounted
                          /\ c'.prodDelivered = Cardinality(ProdCounted)
    BY <1>7, ComparisonSteps
  <2>2. c.step = "prod" /\ UNCHANGED copies
    BY <1>7 DEF GetProdStats, vars
  <2>3. ASSUME NEW t \in c'.todo, ~c'.restarted, c'.prodRead
        PROVE  Shown(t, c.stats[t][1], c.prod)'
    <3>1. Shown(t, c.stats[t][1], ProdCounted)
      BY <1>2, <2>1, <2>2, <2>3
    <3> QED
      BY <2>1, <2>2, <2>3, <3>1 DEF Shown, Received
  <2> QED
    BY <2>1, <2>3 DEF ComparisonInv
<1>8. ASSUME NEW t \in Compared, NEW twinPaths \in SUBSET Requests, GetTwinPaths(t, twinPaths)
      PROVE  ComparisonInv'
  <2>1. CASE c' = Idle
    <3>1. c' \in Comparisons' /\ c'.todo = {} /\ c'.prodRead = FALSE
      BY <2>1 DEF Idle, Comparisons
    <3> QED
      BY <3>1 DEF ComparisonInv
  <2>2. CASE /\ c' \in Comparisons' /\ c'.step = "paths" /\ c'.todo = c.todo \ {t}
             /\ \A u \in Compared \ {t} : c'.stats[u] = c.stats[u]
             /\ c'.restarted = c.restarted /\ c'.prodRead = c.prodRead
             /\ c'.prod = c.prod /\ c'.prodDelivered = c.prodDelivered
    <3>1. UNCHANGED copies
      BY <1>8 DEF GetTwinPaths, vars
    <3>2. ASSUME NEW u \in c'.todo, ~c'.restarted, c'.prodRead
          PROVE  Shown(u, c.stats[u][1], c.prod)'
      <4>1. Shown(u, c.stats[u][1], c.prod) /\ u \in Compared \ {t}
        BY <1>2, <2>2, <3>2 DEF Comparisons
      <4> QED
        BY <2>2, <3>1, <4>1 DEF Shown, Received
    <3> QED
      BY <1>2, <2>2, <3>2 DEF ComparisonInv
  <2> QED
    BY <1>8, <2>1, <2>2, ComparisonSteps
<1>9. ASSUME ~Restart, ~Compare PROVE ComparisonInv'
  <2>1. UNCHANGED <<comparison, started>>
    BY <1>9 DEF RegistryNext, registryVars, ProxyRequest, Register, Unregister, WorkerRuns, Arrives
  <2> QED
    BY <1>4, <2>1
<1>10. ComparisonInv'
  BY <1>5, <1>6, <1>7, <1>8, <1>9 DEF Compare
<1> QED
  BY <1>1, <1>10 DEF RegistryInv

LEMMA RegistryStarts == RegistryInit => RegistryInv
<1> SUFFICES ASSUME RegistryInit PROVE RegistryInv
  OBVIOUS
<1>1. \A t \in Twins : ~Registered(t)
  BY DEF RegistryInit, Init, Registered, Unregistered, Registration
<1>2. OnceInv /\ AccountInv
  BY <1>1, OnceInit, InitTyped DEF RegistryInit, AccountInv
<1>3. AnsweredInv
  BY <1>1, <1>2, GatewayAssumption DEF RegistryInit, Init, AnsweredInv
<1>4. ComparisonInv
  BY DEF RegistryInit, Idle, ComparisonInv, Comparisons
<1> QED
  BY <1>3, <1>4 DEF RegistryInv

(* Whatever the client of the registry does, the gateway behaves as one of *)
(* its own: what is proved of the gateway holds of the registry.           *)
LEMMA RegistryIsGateway == RegistrySpec => Spec
<1>1. RegistryInit => Init
  BY DEF RegistryInit
<1> QED
  BY <1>1, RegistrySteps, PTL DEF RegistrySpec, Spec

(* A twin reported OK against the counters of production lacks at most two *)
(* per cent of the requests they count, for any traffic, any queues and    *)
(* any failures, unless the gateway was restarted while it was asked       *)
(* (HttpMirrorRegistry.get_fidelity_reports, evaluate_twin_fidelity).      *)
THEOREM OkIsShadowed == RegistrySpec => OkMeansShadowed
<1> DEFINE Holds == \A t \in Compared, twinPaths \in SUBSET Requests :
          /\ GetTwinPaths(t, twinPaths) /\ Report(t, twinPaths) = "OK"
          /\ comparison.prodRead /\ ~comparison.restarted
          => Cardinality(comparison.prod \ Received(t)) * 100
               <= 2 * Cardinality(comparison.prod)
<1>1. ASSUME RegistryInv, NEW t \in Compared, NEW twinPaths \in SUBSET Requests,
             GetTwinPaths(t, twinPaths), Report(t, twinPaths) = "OK",
             comparison.prodRead, ~comparison.restarted
      PROVE  Cardinality(comparison.prod \ Received(t)) * 100
               <= 2 * Cardinality(comparison.prod)
  <2> DEFINE prod == comparison.prod
             n == comparison.stats[t][1]
             lacks == prod \ Received(t)
  <2>1. PICK some \in SUBSET (Received(t) \cap prod) : IsFiniteSet(some) /\ Cardinality(some) = n
    BY <1>1 DEF GetTwinPaths, RegistryInv, ComparisonInv, Shown
  <2>2. IsFiniteSet(prod)
    <3>1. prod \subseteq Requests
      BY <1>1 DEF RegistryInv, ComparisonInv, Comparisons
    <3>2. IsFiniteSet(Requests)
      BY FS_Interval, GatewayAssumption DEF Requests
    <3> QED
      BY <3>1, <3>2, FS_Subset
  <2>3. CountsMatch(Cardinality(prod), n)
    <3>1. comparison.prodDelivered = Cardinality(prod)
      BY <1>1 DEF RegistryInv, ComparisonInv
    <3> QED
      BY <1>1, <3>1 DEF Report, Fidelity
  <2>4. /\ IsFiniteSet(prod \ some) /\ n \in Nat /\ Cardinality(prod) \in Nat
        /\ Cardinality(prod \ some) = Cardinality(prod) - n
        /\ Cardinality(prod \ some) \in Nat
    <3>1. prod \cap some = some
      BY <2>1
    <3>2. n \in Nat /\ Cardinality(prod) \in Nat
      BY <2>1, <2>2, FS_CardinalityType
    <3>3. /\ IsFiniteSet(prod \ some)
          /\ Cardinality(prod \ some) = Cardinality(prod) - Cardinality(prod \cap some)
      BY <2>2, FS_Difference
    <3>4. Cardinality(prod \ some) \in Nat
      BY <3>3, FS_CardinalityType
    <3> QED
      BY <2>1, <3>1, <3>2, <3>3, <3>4
  <2>5. Cardinality(lacks) <= Cardinality(prod \ some) /\ Cardinality(lacks) \in Nat
    <3>1. lacks \in SUBSET (prod \ some)
      BY <2>1
    <3> QED
      BY <2>4, <3>1, FS_Subset, FS_CardinalityType
  <2> HIDE DEF prod, n, lacks
  <2>6. Cardinality(prod \ some) * 100 <= 2 * Cardinality(prod)
    <3>1. CASE Cardinality(prod) = 0
      BY <2>3, <2>4, <3>1 DEF CountsMatch
    <3>2. CASE Cardinality(prod) # 0
      BY <2>3, <2>4, <3>2 DEF CountsMatch, Apart
    <3> QED
      BY <3>1, <3>2
  <2>7. Cardinality(lacks) * 100 <= 2 * Cardinality(prod)
    BY <2>4, <2>5, <2>6
  <2> QED
    BY <2>7 DEF prod, lacks
<1>2. RegistryInv => [Holds]_registryVars
  BY <1>1
<1> HIDE DEF Holds
<1>3. RegistrySpec => [][Holds]_registryVars
  BY <1>2, RegistryStarts, RegistryInvNext, PTL DEF RegistrySpec
<1> QED
  BY <1>3 DEF OkMeansShadowed, Holds
=============================================================================
