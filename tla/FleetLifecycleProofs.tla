------------------------- MODULE FleetLifecycleProofs -------------------------
(***************************************************************************)
(* The safety of FleetLifecycle, for any number of incidents and twins,    *)
(* any prefixes among the names, and any retention longer than a run.      *)
(***************************************************************************)
EXTENDS FleetLifecycle, TLAPS

(* A run that works is one of a process that is up; before its first fork  *)
(* an incident is idle and not active.                                     *)
RunInv ==
    \A i \in Incidents :
        /\ run[i] \in {"forking", "live", "rollback", "rollback_db", "closing", "closing_db"}
              => proc = "up"
        /\ run[i] \in {"exiting", "exiting_db"} => i \in active
        /\ run[i] = "dead" => proc = "down"
        /\ round[i] = 0 => run[i] = "idle" /\ i \notin active

(* A creation is tracked while its fork goes on, and the call it waits for *)
(* is the one that is under way.                                           *)
CreationInv ==
    \A t \in Twins :
        /\ fork[t] # "none" => run[Owner[t]] = "forking"
        /\ fork[t] = "cloning" => call[t] = "clone"
        /\ fork[t] = "creating" => call[t] = "namespace"
        /\ call[t] # "none" => round[Owner[t]] # 0

(* Nothing of an incident exists before it is forked.                      *)
UnbornInv ==
    \A t \in Twins : round[Owner[t]] = 0 => ns[t] = None /\ db[t] = None

(* In its first fork an incident is forked or works with its twins.        *)
FirstTime(i) == round[i] = 1 /\ run[i] \in {"forking", "live"}

(* While an incident works with its first twins they are no older than its *)
(* run, so that gc has neither listed them nor reaped a namespace of it.   *)
YoungInv ==
    \A t \in Twins :
        LET i == Owner[t] IN
        /\ round[i] = 0 \/ FirstTime(i) => t \notin gc.todo /\ i \notin gc.reaped
        /\ FirstTime(i) =>
              /\ elapsed[i] <= Limit
              /\ ns[t] # None => ns[t].age <= elapsed[i]
              /\ db[t] # None => db[t].age <= elapsed[i]

(* What the creation of a twin has got so far is still there, if no other  *)
(* incident's prefix covers its database.                                  *)
ThereInv ==
    \A t \in Twins :
        LET i == Owner[t] IN
        FirstTime(i) /\ Alone(i) =>
              /\ fork[t] = "creating" => db[t] # None
              /\ fork[t] = "ready" \/ run[i] = "live" => db[t] # None /\ ns[t] # None

Late(thing) == thing # None => ~thing.awaited

(* Namespaces made after a teardown deleted them, and databases too, were  *)
(* made by calls nobody awaited.                                           *)
LateInv ==
    \A t \in Twins :
        LET i == Owner[t] IN
        /\ run[i] \in {"rollback_db", "closing_db", "exiting_db"} => Late(ns[t])
        /\ run[i] \in {"closing", "closing_db", "ended"} /\ i \notin active
              => Late(ns[t]) /\ Late(db[t])

FleetInv ==
    TypeOK /\ RunInv /\ CreationInv /\ UnbornInv /\ YoungInv /\ ThereInv /\ LateInv
-------------------------------------------------------------------------------
(* The steps of a teardown have these names.                               *)
LEMMA DroppingNames ==
    /\ Dropping("rollback") = "rollback_db" /\ Dropping("closing") = "closing_db"
    /\ Dropping("exiting") = "exiting_db"
    /\ {Dropping(r) : r \in TearingDown} = {"rollback_db", "closing_db", "exiting_db"}
<1>1. /\ Dropping("rollback") = "rollback_db" /\ Dropping("closing") = "closing_db"
      /\ Dropping("exiting") = "exiting_db"
  BY DEF Dropping
<1> QED BY <1>1 DEF TearingDown

RunStates == {"idle", "forking", "live", "ended", "dead", "rollback", "closing", "exiting",
              "rollback_db", "closing_db", "exiting_db"}

Namespaces == [age : Ages, awaited : BOOLEAN]

Databases == [age : Ages, awaited : BOOLEAN, stamped : BOOLEAN, by : Nat \ {0}]

(* What exists is not what does not.                                       *)
LEMMA NoneIsNothing ==
    None \notin Namespaces /\ None \notin Databases
<1>1. None \notin Namespaces
  <2>1. ASSUME None \in Namespaces PROVE FALSE
    <3>1. DOMAIN None = {"age", "awaited"}
      BY <2>1 DEF Namespaces
    <3> QED BY <3>1 DEF None
  <2> QED BY <2>1
<1>2. None \notin Databases
  <2>1. ASSUME None \in Databases PROVE FALSE
    <3>1. DOMAIN None = {"age", "awaited", "stamped", "by"}
      BY <2>1 DEF Databases
    <3> QED BY <3>1 DEF None
  <2> QED BY <2>1
<1> QED BY <1>1, <1>2

(* The conjuncts of TypeOK, by the variables they are about.               *)
AgentTypes ==
    /\ proc \in {"up", "exiting", "down"}
    /\ active \subseteq Incidents
    /\ run \in [Incidents -> RunStates]
    /\ round \in [Incidents -> Nat]
    /\ elapsed \in [Incidents -> Ages]
    /\ proc = "down" => active = {}
    /\ \A i \in Incidents : run[i] \in {"forking", "live", "rollback", "rollback_db"} => i \in active

CallTypes ==
    /\ fork \in [Twins -> {"none", "cloning", "creating", "ready", "failed"}]
    /\ call \in [Twins -> {"none", "clone", "namespace"}]

ClusterTypes ==
    /\ ns \in [Twins -> {None} \cup Namespaces]
    /\ db \in [Twins -> {None} \cup Databases]

GcTypes ==
    gc \in [phase : {"idle", "reaping", "orphans"}, todo : SUBSET Twins,
            reaped : SUBSET Incidents, kept : SUBSET Incidents]

(* TypeOK, split by who changes what.                                      *)
LEMMA TypeOKIs == TypeOK <=> AgentTypes /\ CallTypes /\ ClusterTypes /\ GcTypes
<1>1. {"idle", "forking", "live", "ended", "dead"} \cup TearingDown
        \cup {Dropping(r) : r \in TearingDown} = RunStates
  BY DroppingNames DEF TearingDown, RunStates
<1> QED
  BY <1>1 DEF TypeOK, AgentTypes, CallTypes, ClusterTypes, GcTypes, Namespaces, Databases

(* The agent's variables keep their types.                                 *)
LEMMA AgentTypesNext ==
    ASSUME AgentTypes, RunInv, [Next]_vars
    PROVE  AgentTypes'
<1> USE DroppingNames, FleetAssumption DEF AgentTypes, RunStates
<1>1. 0 \in Ages /\ \A n \in Ages : Older(n) \in Ages
  BY DEF Ages, Older, FleetAssumption
<1>2. ASSUME NEW i \in Incidents, IncidentStep(i)
      PROVE  AgentTypes'
  <2>1. CASE StartFork(i)
    BY <1>1, <2>1 DEF StartFork, Goto, Register
  <2>2. CASE ForkEnds(i)
    BY <1>1, <2>2 DEF ForkEnds, Goto, Stop
  <2>3. CASE Close(i)
    BY <1>1, <2>3 DEF Close, Goto, Stop
  <2>4. CASE DeleteNamespaces(i)
    BY <2>4 DEF DeleteNamespaces, TearingDown
  <2>5. CASE DropDatabases(i)
    BY <2>5 DEF DropDatabases, Unregister, After
  <2>6. CASE TeardownFails(i)
    BY <2>6 DEF TeardownFails, SomeRemoved, Goto, After, TearingDown
  <2>7. CASE HandlerGivesUp(i)
    BY <2>7 DEF HandlerGivesUp, Goto
  <2> QED BY <1>2, <2>1, <2>2, <2>3, <2>4, <2>5, <2>6, <2>7 DEF IncidentStep
<1>3. CASE ProcessStep
  <2>1. CASE Exit
    BY <1>1, <1>3, <2>1 DEF Exit, Stop
  <2>2. CASE Gone \/ Kill
    BY <1>1, <1>3, <2>2 DEF Gone, Kill, Stop, Abandoned
  <2>3. CASE Restart
    BY <2>3 DEF Restart
  <2> QED BY <1>3, <2>1, <2>2, <2>3 DEF ProcessStep
<1>4. CASE Tick
  BY <1>1, <1>4 DEF Tick
<1>5. CASE UNCHANGED agent
  BY <1>5 DEF agent
<1>6. (\E t \in Twins : TwinStep(t)) \/ GcStep \/ UNCHANGED vars => UNCHANGED agent
  BY DEF TwinStep, CloneLands, NamespaceLands, CallTimesOut, GcStep, GcList, GcListDatabases,
     GcEnds, GcReap, GcDropOrphan, GcDropReaped, vars
<1> QED BY <1>2, <1>3, <1>4, <1>5, <1>6 DEF Next

(* What a creation call leaves of a twin's namespace and database.         *)
LEMMA LandedTypes ==
    ASSUME AgentTypes, CallTypes, ClusterTypes, CreationInv, NEW t \in Twins,
           CloneLands(t) \/ NamespaceLands(t)
    PROVE  /\ ClusterTypes'
           /\ ns' = ns \/ \E n \in Namespaces : /\ n.awaited = Awaited(t) /\ n.age = 0
                                              /\ ns[t] = None /\ ns' = [ns EXCEPT ![t] = n]
           /\ db' = db \/ \E d \in Databases : /\ d.age = 0 /\ db' = [db EXCEPT ![t] = d]
                                             /\ IF db[t] = None THEN d.awaited = Awaited(t)
                                                ELSE d.awaited = db[t].awaited
<1>1. 0 \in Ages
  BY FleetAssumption DEF Ages, FleetAssumption
<1>2. Awaited(t) \in BOOLEAN
  BY DEF Awaited
<1>3. Owner[t] \in Incidents
  BY FleetAssumption DEF FleetAssumption
<1>4. CASE CloneLands(t)
  <2>1. round[Owner[t]] \in Nat \ {0}
    BY <1>3, <1>4 DEF CloneLands, CreationInv, AgentTypes
  <2>2. /\ Clone(t) \in Databases /\ Clone(t).age = 0
        /\ Clone(t).awaited = IF db[t] = None THEN Awaited(t) ELSE db[t].awaited
    <3>1. CASE db[t] = None
      BY <1>1, <1>2, <2>1, <3>1 DEF Clone, Databases
    <3>2. CASE db[t] # None
      <4>1. db[t] \in Databases
        BY <3>2 DEF ClusterTypes
      <4> QED BY <1>1, <3>2, <4>1 DEF Clone, Databases
    <3> QED BY <3>1, <3>2
  <2> DEFINE bare == [Clone(t) EXCEPT !.stamped = FALSE]
  <2>3. bare \in Databases /\ bare.age = 0 /\ bare.awaited = Clone(t).awaited
    BY <2>2 DEF Databases
  <2>4. ns' = ns /\ \/ db' = db
                    \/ db' = [db EXCEPT ![t] = Clone(t)]
                    \/ db[t] = None /\ db' = [db EXCEPT ![t] = bare]
    BY <1>4 DEF CloneLands
  <2> HIDE DEF bare
  <2>5. ClusterTypes'
    BY <2>2, <2>3, <2>4 DEF ClusterTypes
  <2> QED BY <2>2, <2>3, <2>4, <2>5
<1>5. CASE NamespaceLands(t)
  <2> DEFINE new == [age |-> 0, awaited |-> Awaited(t)]
  <2>1. new \in Namespaces /\ new.age = 0 /\ new.awaited = Awaited(t)
    BY <1>1, <1>2 DEF Namespaces
  <2>2. db' = db /\ (ns' = ns \/ (ns[t] = None /\ ns' = [ns EXCEPT ![t] = new]))
    BY <1>5 DEF NamespaceLands, ClusterTypes
  <2> HIDE DEF new
  <2> QED BY <2>1, <2>2 DEF ClusterTypes
<1> QED BY <1>4, <1>5

(* How the call moves on the creation that awaits it.                      *)
LEMMA LandsMoves ==
    ASSUME CallTypes, NEW t \in Twins, NEW next \in {"creating", "ready", "failed"},
           Lands(t, next)
    PROVE  /\ CallTypes'
           /\ \A u \in Twins \ {t} : fork'[u] = fork[u] /\ call'[u] = call[u]
           /\ fork'[t] = IF Awaited(t) THEN next ELSE fork[t]
           /\ call'[t] = IF Awaited(t) /\ next = "creating" THEN "namespace" ELSE "none"
  BY DEF Lands, CallTypes

(* A teardown or gc removes, and adds nothing.                             *)
LEMMA RemovalLeaves ==
    ASSUME ClusterTypes, NEW gone
    PROVE  /\ \A t \in Twins : Without(ns, gone)[t] \in {ns[t], None}
           /\ \A t \in Twins : Without(db, gone)[t] \in {db[t], None}
           /\ \A t \in Twins \ gone : Without(ns, gone)[t] = ns[t] /\ Without(db, gone)[t] = db[t]
           /\ \A t \in Twins \cap gone : Without(ns, gone)[t] = None /\ Without(db, gone)[t] = None
           /\ Without(ns, gone) \in [Twins -> {None} \cup Namespaces]
           /\ Without(db, gone) \in [Twins -> {None} \cup Databases]
  BY DEF Without, ClusterTypes

(* Time adds one to an age that is not at its end, and touches nothing else.*)
LEMMA AgingLeaves ==
    ASSUME ClusterTypes
    PROVE  /\ Aged(ns) \in [Twins -> {None} \cup Namespaces]
           /\ Aged(db) \in [Twins -> {None} \cup Databases]
           /\ \A t \in Twins :
                /\ ns[t] = None => Aged(ns)[t] = None
                /\ ns[t] # None => /\ Aged(ns)[t] # None /\ Aged(ns)[t].age = Older(ns[t].age)
                                   /\ Aged(ns)[t].awaited = ns[t].awaited
                /\ db[t] = None => Aged(db)[t] = None
                /\ db[t] # None => /\ Aged(db)[t] # None /\ Aged(db)[t].age = Older(db[t].age)
                                   /\ Aged(db)[t].awaited = db[t].awaited
<1>1. \A n \in Ages : Older(n) \in Ages
  BY FleetAssumption DEF Ages, Older, FleetAssumption
<1>2. ASSUME NEW t \in Twins, ns[t] # None
      PROVE  /\ Aged(ns)[t] \in Namespaces /\ Aged(ns)[t].age = Older(ns[t].age)
             /\ Aged(ns)[t].awaited = ns[t].awaited
  <2>1. ns[t] \in Namespaces /\ Aged(ns)[t] = [ns[t] EXCEPT !.age = Older(@)]
    BY <1>2 DEF ClusterTypes, Aged
  <2> QED BY <1>1, <2>1 DEF Namespaces
<1>3. ASSUME NEW t \in Twins, db[t] # None
      PROVE  /\ Aged(db)[t] \in Databases /\ Aged(db)[t].age = Older(db[t].age)
             /\ Aged(db)[t].awaited = db[t].awaited
  <2>1. db[t] \in Databases /\ Aged(db)[t] = [db[t] EXCEPT !.age = Older(@)]
    BY <1>3 DEF ClusterTypes, Aged
  <2> QED BY <1>1, <2>1 DEF Databases
<1>4. \A t \in Twins : (ns[t] = None => Aged(ns)[t] = None) /\ (db[t] = None => Aged(db)[t] = None)
  BY DEF Aged
<1>5. \A t \in Twins : Aged(ns)[t] \in {None} \cup Namespaces /\ Aged(db)[t] \in {None} \cup Databases
  BY <1>2, <1>3, <1>4
<1>6. Aged(ns) \in [Twins -> {None} \cup Namespaces] /\ Aged(db) \in [Twins -> {None} \cup Databases]
  <2>1. Aged(ns) = [t \in Twins |-> Aged(ns)[t]] /\ Aged(db) = [t \in Twins |-> Aged(db)[t]]
    BY DEF Aged
  <2> QED BY <1>5, <2>1
<1> QED BY <1>2, <1>3, <1>4, <1>6, NoneIsNothing

(* Any step leaves the namespaces and the databases as they are, removes   *)
(* some, makes one, or ages all.                                           *)
LEMMA ClusterTypesNext ==
    ASSUME TypeOK, CreationInv, [Next]_vars
    PROVE  ClusterTypes'
<1> USE TypeOKIs
<1>1. ASSUME NEW i \in Incidents, IncidentStep(i)
      PROVE  ClusterTypes'
  <2>1. UNCHANGED cluster \/ \E gone : \/ ns' = Without(ns, gone) /\ db' = db
                                       \/ db' = Without(db, gone) /\ ns' = ns
    BY <1>1 DEF IncidentStep, StartFork, ForkEnds, Close, DeleteNamespaces, DropDatabases,
       TeardownFails, HandlerGivesUp, SomeRemoved, cluster
  <2> QED BY <2>1, RemovalLeaves DEF ClusterTypes, cluster
<1>2. ASSUME NEW t \in Twins, TwinStep(t)
      PROVE  ClusterTypes'
  BY <1>2, LandedTypes DEF TwinStep, CallTimesOut, cluster, ClusterTypes
<1>3. CASE GcStep
  <2>1. UNCHANGED cluster \/ \E gone : \/ ns' = Without(ns, gone) /\ db' = db
                                       \/ db' = Without(db, gone) /\ ns' = ns
    BY <1>3 DEF GcStep, GcList, GcListDatabases, GcEnds, GcReap, GcDropOrphan, GcDropReaped,
       cluster
  <2> QED BY <2>1, RemovalLeaves DEF ClusterTypes, cluster
<1>4. CASE Tick
  BY <1>4, AgingLeaves DEF Tick, ClusterTypes
<1>5. CASE ProcessStep \/ UNCHANGED vars
  BY <1>5 DEF ProcessStep, Exit, Gone, Kill, Restart, vars, cluster, ClusterTypes
<1> QED BY <1>1, <1>2, <1>3, <1>4, <1>5 DEF Next

(* And so do those of gc.                                                  *)
LEMMA GcTypesNext ==
    ASSUME TypeOK, [Next]_vars
    PROVE  GcTypes'
<1> USE TypeOKIs DEF GcTypes
<1>1. CASE UNCHANGED gc
  BY <1>1
<1>2. CASE GcList
  <2> DEFINE old == {t \in Present(ns) : Expired(ns[t])}
  <2>1. /\ old \subseteq Twins /\ {Owner[t] : t \in old} \subseteq Incidents
        /\ {Owner[t] : t \in Present(ns) \ old} \subseteq Incidents
    BY FleetAssumption DEF Present, FleetAssumption
  <2> QED BY <1>2, <2>1 DEF GcList
<1>3. CASE GcListDatabases
  BY <1>3 DEF GcListDatabases, Orphans, Present
<1>4. CASE GcEnds
  BY <1>4 DEF GcEnds, GcIdle
<1>5. CASE (\E t \in Twins : GcReap(t) \/ GcDropOrphan(t)) \/ \E i \in Incidents : GcDropReaped(i)
  BY <1>5 DEF GcReap, GcDropOrphan, GcDropReaped
<1>6. UNCHANGED gc \/ GcStep
  BY DEF Next, vars, IncidentStep, StartFork, ForkEnds, Close, DeleteNamespaces, DropDatabases,
     TeardownFails, HandlerGivesUp, TwinStep, CloneLands, NamespaceLands, CallTimesOut,
     ProcessStep, Exit, Gone, Kill, Restart, Tick
<1> QED BY <1>1, <1>2, <1>3, <1>4, <1>5, <1>6 DEF GcStep

(* The creations and their calls: types, and what is tracked.              *)
LEMMA CreationNext ==
    ASSUME TypeOK, RunInv, CreationInv, [Next]_vars
    PROVE  CallTypes' /\ CreationInv'
<1> USE TypeOKIs DEF CallTypes, CreationInv
<1>0. \A t \in Twins : Owner[t] \in Incidents
  BY FleetAssumption DEF FleetAssumption
<1>1. ASSUME NEW i \in Incidents, IncidentStep(i)
      PROVE  CallTypes' /\ CreationInv'
  <2>1. CASE StartFork(i)
    <3>1. round'[i] # 0 /\ \A j \in Incidents \ {i} : round'[j] = round[j] /\ run'[j] = run[j]
      BY <2>1 DEF StartFork, Goto, AgentTypes
    <3>2. run'[i] = "forking"
      BY <2>1 DEF StartFork, Goto, AgentTypes
    <3> QED BY <1>0, <2>1, <3>1, <3>2 DEF StartFork
  <2>2. CASE ForkEnds(i) \/ Close(i)
    <3>1. /\ fork' = Stopped({i}) \/ UNCHANGED fork
          /\ UNCHANGED <<call, round>>
          /\ fork' = Stopped({i}) /\ \A j \in Incidents \ {i} : run'[j] = run[j]
      BY <2>2 DEF ForkEnds, Close, Goto, Stop, AgentTypes
    <3> QED BY <1>0, <3>1 DEF Stopped
  <2>3. CASE DeleteNamespaces(i) \/ DropDatabases(i) \/ TeardownFails(i) \/ HandlerGivesUp(i)
    <3>1. /\ run[i] # "forking" /\ UNCHANGED <<fork, call, round>>
          /\ \A j \in Incidents \ {i} : run'[j] = run[j]
      BY <2>3, DroppingNames DEF DeleteNamespaces, DropDatabases, TeardownFails, HandlerGivesUp,
         SomeRemoved, TearingDown, Goto, AgentTypes
    <3> QED BY <1>0, <3>1
  <2> QED BY <1>1, <2>1, <2>2, <2>3 DEF IncidentStep
<1>2. ASSUME NEW t \in Twins, TwinStep(t)
      PROVE  CallTypes' /\ CreationInv'
  <2>0. UNCHANGED agent
    BY <1>2 DEF TwinStep, CloneLands, NamespaceLands, CallTimesOut
  <2>1. CASE CloneLands(t)
    <3>1. PICK next \in {"creating", "failed"} : Lands(t, next)
      BY <2>1 DEF CloneLands
    <3>2. call[t] = "clone"
      BY <2>1 DEF CloneLands
    <3> QED BY <1>0, <2>0, <3>1, <3>2, LandsMoves DEF agent, Awaited, RunInv
  <2>2. CASE NamespaceLands(t)
    <3>1. PICK next \in {"ready", "failed"} : Lands(t, next)
      BY <2>2 DEF NamespaceLands
    <3>2. call[t] = "namespace"
      BY <2>2 DEF NamespaceLands
    <3> QED BY <1>0, <2>0, <3>1, <3>2, LandsMoves DEF agent, Awaited, RunInv
  <2>3. CASE CallTimesOut(t)
    BY <1>0, <2>0, <2>3 DEF CallTimesOut, Awaited, agent
  <2> QED BY <1>2, <2>1, <2>2, <2>3 DEF TwinStep
<1>3. CASE ProcessStep
  <2>1. CASE Exit \/ Kill
    BY <1>0, <2>1 DEF Exit, Kill, Stop, Stopped
  <2>2. CASE Gone \/ Restart
    <3>1. \A i \in Incidents : run[i] # "forking"
      BY <2>2 DEF Gone, Restart, RunInv
    <3> QED BY <1>0, <2>2, <3>1 DEF Gone, Restart
  <2> QED BY <1>3, <2>1, <2>2 DEF ProcessStep
<1>4. CASE UNCHANGED <<fork, call, run, round>>
  BY <1>4
<1>5. Tick \/ GcStep \/ UNCHANGED vars => UNCHANGED <<fork, call, run, round>>
  BY DEF Tick, GcStep, GcList, GcListDatabases, GcEnds, GcReap, GcDropOrphan, GcDropReaped,
     vars, agent
<1> QED BY <1>1, <1>2, <1>3, <1>4, <1>5 DEF Next

(* Every step keeps RunInv: a run passes its states in order, and a dead   *)
(* process has none.                                                       *)
LEMMA RunInvNext ==
    ASSUME TypeOK, RunInv, [Next]_vars
    PROVE  RunInv'
<1> USE TypeOKIs, DroppingNames DEF AgentTypes, RunInv
<1>1. ASSUME NEW i \in Incidents, IncidentStep(i)
      PROVE  RunInv'
  <2>1. CASE StartFork(i)
    BY <2>1 DEF StartFork, Goto, Register
  <2>2. CASE ForkEnds(i) \/ Close(i)
    BY <2>2 DEF ForkEnds, Close, Goto
  <2>3. CASE DeleteNamespaces(i)
    BY <2>3 DEF DeleteNamespaces, TearingDown
  <2>4. CASE DropDatabases(i)
    BY <2>4 DEF DropDatabases, Unregister, After
  <2>5. CASE TeardownFails(i)
    BY <2>5 DEF TeardownFails, SomeRemoved, Goto, After, TearingDown
  <2>6. CASE HandlerGivesUp(i)
    BY <2>6 DEF HandlerGivesUp, Goto
  <2> QED BY <1>1, <2>1, <2>2, <2>3, <2>4, <2>5, <2>6 DEF IncidentStep
<1>2. CASE ProcessStep
  <2>1. CASE Exit
    BY <2>1 DEF Exit
  <2>2. CASE Gone \/ Kill
    BY <2>2 DEF Gone, Kill, Abandoned
  <2>3. CASE Restart
    BY <2>3 DEF Restart
  <2> QED BY <1>2, <2>1, <2>2, <2>3 DEF ProcessStep
<1>3. Tick \/ GcStep \/ (\E t \in Twins : TwinStep(t)) \/ UNCHANGED vars
        => UNCHANGED <<proc, active, run, round>>
  BY DEF Tick, TwinStep, CloneLands, NamespaceLands, CallTimesOut, GcStep, GcList,
     GcListDatabases, GcEnds, GcReap, GcDropOrphan, GcDropReaped, vars, agent
<1> QED BY <1>1, <1>2, <1>3 DEF Next

(* What one step may do to the namespace and the database of a twin.       *)
Kept(t)    == ns'[t] = ns[t] /\ db'[t] = db[t]
Removed(t) == ns'[t] \in {ns[t], None} /\ db'[t] \in {db[t], None}
Landed(t)  ==
    /\ call[t] # "none"
    /\ \/ ns'[t] = ns[t]
       \/ ns[t] = None /\ ns'[t] # None /\ ns'[t].awaited = Awaited(t) /\ ns'[t].age = 0
    /\ \/ db'[t] = db[t]
       \/ /\ db'[t] # None /\ db'[t].age = 0
          /\ db'[t].awaited = IF db[t] = None THEN Awaited(t) ELSE db[t].awaited
Grown(t)   ==
    /\ IF ns[t] = None THEN ns'[t] = None
       ELSE ns'[t] # None /\ ns'[t].age = Older(ns[t].age) /\ ns'[t].awaited = ns[t].awaited
    /\ IF db[t] = None THEN db'[t] = None
       ELSE db'[t] # None /\ db'[t].age = Older(db[t].age) /\ db'[t].awaited = db[t].awaited

(* The steps that remove, and whose things they remove.                    *)
LEMMA WhoRemoves ==
    ASSUME TypeOK, NEW t \in Twins,
           GcStep \/ \E i \in Incidents : IncidentStep(i)
    PROVE  /\ Removed(t)
           /\ ns'[t] # ns[t] => \/ t \in gc.todo
                                \/ run[Owner[t]] \in {"rollback", "closing", "exiting"}
           /\ db'[t] # db[t] => \/ t \in gc.todo
                                \/ \E i \in Incidents :
                                      /\ Owner[t] \in Covered[i]
                                      /\ \/ i \in gc.reaped
                                         \/ run[i] \in {"rollback_db", "closing_db", "exiting_db"}
<1> USE TypeOKIs, RemovalLeaves, DroppingNames
<1>1. ClusterTypes
  OBVIOUS
<1>2. CASE UNCHANGED cluster
  BY <1>2 DEF cluster, Removed
<1>3. ASSUME NEW i \in Incidents, NEW gone, gone \subseteq OfIncident(i), ns' = Without(ns, gone),
             db' = db, run[i] \in TearingDown
      PROVE  /\ Removed(t) /\ db'[t] = db[t]
             /\ ns'[t] # ns[t] => run[Owner[t]] \in {"rollback", "closing", "exiting"}
  BY <1>1, <1>3 DEF Removed, OfIncident, TearingDown
<1>4. ASSUME NEW i \in Incidents, NEW gone, gone \subseteq PrefixMatches(i), db' = Without(db, gone),
             ns' = ns
      PROVE  Removed(t) /\ ns'[t] = ns[t] /\ (db'[t] # db[t] => Owner[t] \in Covered[i])
  BY <1>1, <1>4 DEF Removed, PrefixMatches
<1>5. ASSUME NEW i \in Incidents, IncidentStep(i)
      PROVE  \/ UNCHANGED cluster
             \/ /\ run[i] \in TearingDown /\ db' = db
                /\ \E gone \in SUBSET OfIncident(i) : ns' = Without(ns, gone)
             \/ /\ run[i] \in {"rollback_db", "closing_db", "exiting_db"} /\ ns' = ns
                /\ \E gone \in SUBSET PrefixMatches(i) : db' = Without(db, gone)
  BY <1>5 DEF IncidentStep, StartFork, ForkEnds, Close, DeleteNamespaces, DropDatabases,
     TeardownFails, HandlerGivesUp, SomeRemoved, cluster
<1>6. CASE GcStep
  <2>1. CASE \E i \in Incidents : GcDropReaped(i)
    BY <1>4, <2>1 DEF GcDropReaped
  <2>2. CASE \E u \in Twins : GcReap(u) \/ GcDropOrphan(u)
    BY <1>1, <2>2 DEF GcReap, GcDropOrphan, Removed
  <2> QED
    BY <1>2, <1>6, <2>1, <2>2 DEF GcStep, GcList, GcListDatabases, GcEnds
<1> QED BY <1>2, <1>3, <1>4, <1>5, <1>6

(* What a step may do to a namespace or a database: nothing, create it     *)
(* new, take over what is there, delete it, or let it grow older.          *)
LEMMA ClusterSteps ==
    ASSUME TypeOK, CreationInv, [Next]_vars, NEW t \in Twins
    PROVE  \/ Kept(t)
           \/ Removed(t) /\ (GcStep \/ \E i \in Incidents : IncidentStep(i))
           \/ Landed(t) /\ TwinStep(t)
           \/ Grown(t) /\ Tick
<1> USE TypeOKIs
<1>1. CASE GcStep \/ \E i \in Incidents : IncidentStep(i)
  BY <1>1, WhoRemoves
<1>2. ASSUME NEW u \in Twins, TwinStep(u)
      PROVE  Kept(t) \/ (Landed(t) /\ TwinStep(t))
  <2>1. CASE CallTimesOut(u)
    BY <2>1 DEF CallTimesOut, cluster, Kept
  <2>2. CASE CloneLands(u) \/ NamespaceLands(u)
    <3>1. call[u] # "none"
      BY <2>2 DEF CloneLands, NamespaceLands
    <3>2. CASE u # t
      BY <2>2, <3>2, LandedTypes DEF Kept, ClusterTypes
    <3>3. CASE u = t
      BY <1>2, <2>2, <3>1, <3>3, LandedTypes, NoneIsNothing DEF Landed, ClusterTypes
    <3> QED BY <3>2, <3>3
  <2> QED BY <1>2, <2>1, <2>2 DEF TwinStep
<1>3. CASE Tick
  BY <1>3, AgingLeaves DEF Tick, Grown
<1>4. CASE ProcessStep \/ UNCHANGED vars
  BY <1>4 DEF ProcessStep, Exit, Gone, Kill, Restart, vars, cluster, Kept
<1> QED BY <1>1, <1>2, <1>3, <1>4 DEF Next

(* An incident that works with its first twins did so before the step, or  *)
(* begins to with it; only time makes its run older.                       *)
LEMMA FirstTimes ==
    ASSUME TypeOK, RunInv, [Next]_vars, NEW i \in Incidents
    PROVE  /\ round'[i] = 0 => round[i] = 0
           /\ round'[i] # 0 /\ round[i] = 0 => StartFork(i)
           /\ FirstTime(i)' => (round[i] = 0 /\ StartFork(i)) \/ FirstTime(i)
           /\ FirstTime(i)' /\ FirstTime(i) /\ ~Tick => elapsed'[i] = elapsed[i]
           /\ FirstTime(i)' /\ FirstTime(i) /\ run'[i] # run[i]
                 => ForkEnds(i) /\ run'[i] = "live" /\ run[i] = "forking"
<1> USE TypeOKIs, DroppingNames DEF AgentTypes, FirstTime
<1>1. ASSUME NEW j \in Incidents, IncidentStep(j), j # i
      PROVE  round'[i] = round[i] /\ run'[i] = run[i] /\ elapsed'[i] = elapsed[i]
  BY <1>1 DEF IncidentStep, StartFork, ForkEnds, Close, DeleteNamespaces, DropDatabases,
     TeardownFails, HandlerGivesUp, Goto, Stop
<1>2. CASE StartFork(i)
  BY <1>2 DEF StartFork, Goto
<1>3. CASE ForkEnds(i)
  BY <1>3 DEF ForkEnds, Goto, Stop
<1>4. CASE Close(i)
  BY <1>4 DEF Close, Goto, Stop
<1>5. CASE DeleteNamespaces(i)
  BY <1>5 DEF DeleteNamespaces, TearingDown
<1>6. CASE DropDatabases(i)
  BY <1>6 DEF DropDatabases, After
<1>7. CASE TeardownFails(i)
  BY <1>7 DEF TeardownFails, SomeRemoved, Goto, After, TearingDown
<1>8. CASE HandlerGivesUp(i)
  BY <1>8 DEF HandlerGivesUp, Goto
<1>9. CASE ProcessStep
  <2>1. CASE Exit
    BY <2>1 DEF Exit
  <2>2. CASE Gone \/ Kill
    BY <2>2 DEF Gone, Kill, Abandoned
  <2>3. CASE Restart
    BY <2>3 DEF Restart, RunInv
  <2> QED BY <1>9, <2>1, <2>2, <2>3 DEF ProcessStep
<1>10. CASE Tick
  BY <1>10 DEF Tick
<1>11. GcStep \/ (\E t \in Twins : TwinStep(t)) \/ UNCHANGED vars => UNCHANGED agent
  BY DEF TwinStep, CloneLands, NamespaceLands, CallTimesOut, GcStep, GcList,
     GcListDatabases, GcEnds, GcReap, GcDropOrphan, GcDropReaped, vars
<1> QED
  BY <1>1, <1>2, <1>3, <1>4, <1>5, <1>6, <1>7, <1>8, <1>9, <1>10, <1>11
     DEF Next, IncidentStep, agent

(* What no fork has asked for yet does not come to be.                     *)
LEMMA UnbornNext ==
    ASSUME TypeOK, RunInv, CreationInv, UnbornInv, [Next]_vars
    PROVE  UnbornInv'
<1> SUFFICES ASSUME NEW t \in Twins, round'[Owner[t]] = 0
             PROVE  ns'[t] = None /\ db'[t] = None
  BY DEF UnbornInv
<1>1. Owner[t] \in Incidents
  BY FleetAssumption DEF FleetAssumption
<1>2. round[Owner[t]] = 0 /\ ns[t] = None /\ db[t] = None
  BY <1>1, FirstTimes DEF UnbornInv
<1>3. ~Landed(t)
  BY <1>2 DEF CreationInv, Landed
<1> QED BY <1>2, <1>3, ClusterSteps DEF Kept, Removed, Grown

(* What gc takes aim at is old: nothing of an incident that has not been   *)
(* forked yet, or works with its first twins.                              *)
LEMMA GcAimsAtOld ==
    ASSUME TypeOK, UnbornInv, YoungInv, [Next]_vars, NEW t \in Twins,
           round[Owner[t]] = 0 \/ FirstTime(Owner[t])
    PROVE  t \notin gc'.todo /\ Owner[t] \notin gc'.reaped
<1> USE TypeOKIs
<1>1. gc \in [phase : {"idle", "reaping", "orphans"}, todo : SUBSET Twins,
               reaped : SUBSET Incidents, kept : SUBSET Incidents]
  BY DEF GcTypes
<1>2. t \notin gc.todo /\ Owner[t] \notin gc.reaped
  BY DEF YoungInv
<1>3. ASSUME NEW u \in Twins, Owner[u] = Owner[t]
      PROVE  /\ ns[u] # None => ~Expired(ns[u])
             /\ db[u] # None => ~Expired(db[u])
  <2>1. CASE round[Owner[t]] = 0
    BY <1>3, <2>1 DEF UnbornInv
  <2>2. CASE FirstTime(Owner[t])
    <3>1. Owner[t] \in Incidents /\ elapsed[Owner[t]] \in Nat /\ Limit \in Nat /\ OlderThan \in Nat
      BY FleetAssumption DEF FleetAssumption, AgentTypes, Ages
    <3>2. elapsed[Owner[t]] < OlderThan
      BY <2>2, <3>1, RetentionAssumption DEF YoungInv, RetentionAssumption
    <3>3. ns[u] # None => ns[u].age \in Nat /\ ns[u].age <= elapsed[Owner[t]]
      BY <1>3, <2>2, FleetAssumption DEF YoungInv, ClusterTypes, Namespaces, Ages, FleetAssumption
    <3>4. db[u] # None => db[u].age \in Nat /\ db[u].age <= elapsed[Owner[t]]
      BY <1>3, <2>2, FleetAssumption DEF YoungInv, ClusterTypes, Databases, Ages, FleetAssumption
    <3> QED BY <3>1, <3>2, <3>3, <3>4 DEF Expired
  <2> QED BY <2>1, <2>2
<1>4. CASE GcList
  BY <1>3, <1>4 DEF GcList, Present
<1>5. CASE GcListDatabases
  BY <1>1, <1>2, <1>3, <1>5 DEF GcListDatabases, Orphans, Present
<1>6. CASE GcEnds
  BY <1>6 DEF GcEnds, GcIdle
<1>7. CASE (\E u \in Twins : GcReap(u) \/ GcDropOrphan(u)) \/ \E i \in Incidents : GcDropReaped(i)
  BY <1>1, <1>2, <1>7 DEF GcReap, GcDropOrphan, GcDropReaped
<1>8. UNCHANGED gc \/ GcStep
  BY DEF Next, vars, IncidentStep, StartFork, ForkEnds, Close, DeleteNamespaces, DropDatabases,
     TeardownFails, HandlerGivesUp, TwinStep, CloneLands, NamespaceLands, CallTimesOut,
     ProcessStep, Exit, Gone, Kill, Restart, Tick
<1> QED BY <1>2, <1>4, <1>5, <1>6, <1>7, <1>8 DEF GcStep

(* What a run at work has made stays younger than the age gc reaps at.     *)
LEMMA YoungNext ==
    ASSUME TypeOK, RunInv, CreationInv, UnbornInv, YoungInv, [Next]_vars
    PROVE  YoungInv'
<1> SUFFICES ASSUME NEW t \in Twins, round'[Owner[t]] = 0 \/ FirstTime(Owner[t])'
             PROVE  /\ t \notin gc'.todo /\ Owner[t] \notin gc'.reaped
                    /\ FirstTime(Owner[t])' =>
                          /\ elapsed'[Owner[t]] <= Limit
                          /\ ns'[t] # None => ns'[t].age <= elapsed'[Owner[t]]
                          /\ db'[t] # None => db'[t].age <= elapsed'[Owner[t]]
  BY DEF YoungInv
<1> DEFINE i == Owner[t]
<1>1. i \in Incidents
  BY FleetAssumption DEF FleetAssumption
<1>2. round[i] = 0 \/ FirstTime(i)
  BY <1>1, FirstTimes
<1>3. t \notin gc'.todo /\ i \notin gc'.reaped
  BY <1>2, GcAimsAtOld
<1>4. ASSUME FirstTime(i)'
      PROVE  /\ elapsed'[i] <= Limit
             /\ ns'[t] # None => ns'[t].age <= elapsed'[i]
             /\ db'[t] # None => db'[t].age <= elapsed'[i]
  <2>1. CASE round[i] = 0 /\ StartFork(i)
    <3>1. elapsed'[i] = 0 /\ ns'[t] = None /\ db'[t] = None
      BY <1>1, <2>1, TypeOKIs DEF StartFork, cluster, UnbornInv, AgentTypes
    <3> QED BY <3>1, FleetAssumption DEF FleetAssumption
  <2>2. CASE FirstTime(i) /\ ~Tick
    <3>1. elapsed'[i] = elapsed[i] /\ elapsed[i] <= Limit /\ elapsed[i] \in Nat
      BY <1>1, <1>4, <2>2, FirstTimes, TypeOKIs, FleetAssumption
         DEF YoungInv, AgentTypes, Ages, FleetAssumption
    <3>2. /\ ns[t] # None => ns[t].age <= elapsed[i]
          /\ db[t] # None => db[t].age <= elapsed[i]
      BY <2>2 DEF YoungInv
    <3> QED BY <2>2, <3>1, <3>2, ClusterSteps DEF Kept, Removed, Landed
  <2>3. CASE FirstTime(i) /\ Tick
    <3>1. Working(i)
      BY <1>1, <2>3 DEF FirstTime, Working, RunInv
    <3>2. elapsed[i] < Limit /\ elapsed'[i] = Older(elapsed[i])
      BY <1>1, <2>3, <3>1, TypeOKIs DEF Tick, AgentTypes
    <3>3. elapsed[i] \in Nat /\ Limit \in Nat /\ OlderThan \in Nat
      BY <1>1, TypeOKIs, FleetAssumption DEF FleetAssumption, AgentTypes, Ages
    <3>4. elapsed'[i] = elapsed[i] + 1 /\ elapsed'[i] <= Limit
      BY <3>2, <3>3, RetentionAssumption DEF Older, RetentionAssumption
    <3>5. /\ ns[t] # None => ns[t].age \in Nat /\ ns[t].age <= elapsed[i]
          /\ db[t] # None => db[t].age \in Nat /\ db[t].age <= elapsed[i]
      BY <2>3, TypeOKIs, FleetAssumption
         DEF YoungInv, ClusterTypes, Namespaces, Databases, Ages, FleetAssumption
    <3>6. Grown(t)
      BY <2>3, AgingLeaves, TypeOKIs DEF Tick, Grown
    <3> QED BY <3>3, <3>4, <3>5, <3>6 DEF Grown, Older
  <2> QED BY <1>1, <1>4, <2>1, <2>2, <2>3, FirstTimes
<1> QED BY <1>3, <1>4

(* What else a run with its first twins, that goes on with them, sees of   *)
(* the creation of a twin: its call lands or times out, or the fork ends.  *)
LEMMA FirstTimeSteps ==
    ASSUME TypeOK, RunInv, [Next]_vars, NEW t \in Twins,
           FirstTime(Owner[t]), FirstTime(Owner[t])'
    PROVE  \/ fork'[t] = fork[t] /\ run'[Owner[t]] = run[Owner[t]]
           \/ TwinStep(t)
           \/ ForkEnds(Owner[t])
<1> DEFINE i == Owner[t]
<1> USE TypeOKIs, DroppingNames DEF AgentTypes, CallTypes
<1>0. i \in Incidents
  BY FleetAssumption DEF FleetAssumption
<1>1. run[i] \in {"forking", "live"} /\ run'[i] \in {"forking", "live"} /\ proc = "up"
  BY <1>0 DEF FirstTime, RunInv
<1>2. ASSUME NEW j \in Incidents, IncidentStep(j), j # i
      PROVE  fork'[t] = fork[t] /\ run'[i] = run[i]
  BY <1>0, <1>2 DEF IncidentStep, StartFork, ForkEnds, Close, DeleteNamespaces, DropDatabases,
     TeardownFails, HandlerGivesUp, Goto, Stop, Stopped
<1>3. ASSUME IncidentStep(i), ~ForkEnds(i)
      PROVE  FALSE
  BY <1>0, <1>1, <1>3 DEF IncidentStep, StartFork, Close, DeleteNamespaces, DropDatabases,
     TeardownFails, HandlerGivesUp, SomeRemoved, Goto, TearingDown
<1>4. ASSUME NEW u \in Twins, TwinStep(u), u # t
      PROVE  fork'[t] = fork[t] /\ UNCHANGED run
  <2>1. CASE CallTimesOut(u)
    BY <1>4, <2>1 DEF CallTimesOut, agent
  <2>2. CASE CloneLands(u) \/ NamespaceLands(u)
    <3>1. PICK next \in {"creating", "ready", "failed"} : Lands(u, next) /\ UNCHANGED agent
      BY <2>2 DEF CloneLands, NamespaceLands
    <3> QED BY <1>4, <3>1, LandsMoves DEF agent
  <2> QED BY <1>4, <2>1, <2>2 DEF TwinStep
<1>5. ASSUME ProcessStep
      PROVE  FALSE
  <2>1. ~Gone /\ ~Restart
    BY <1>1 DEF Gone, Restart
  <2>2. ~Exit
    BY <1>0, <1>1 DEF Exit
  <2>3. ~Kill
    BY <1>0, <1>1 DEF Kill, Abandoned
  <2> QED BY <1>5, <2>1, <2>2, <2>3 DEF ProcessStep
<1>6. Tick \/ GcStep \/ UNCHANGED vars => UNCHANGED <<fork, run>>
  BY DEF Tick, GcStep, GcList, GcListDatabases, GcEnds, GcReap, GcDropOrphan, GcDropReaped,
     vars, agent
<1> QED BY <1>2, <1>3, <1>4, <1>5, <1>6 DEF Next

(* Nothing takes a first twin away while the run works with it: gc aims at *)
(* older ones, and no other incident's teardown covers its name.           *)
LEMMA ThereNext ==
    ASSUME TypeOK, RunInv, CreationInv, YoungInv, ThereInv, [Next]_vars
    PROVE  ThereInv'
<1> SUFFICES ASSUME NEW t \in Twins, FirstTime(Owner[t])', Alone(Owner[t])
             PROVE  /\ fork'[t] = "creating" => db'[t] # None
                    /\ fork'[t] = "ready" \/ run'[Owner[t]] = "live"
                          => db'[t] # None /\ ns'[t] # None
  BY DEF ThereInv, Alone
<1> DEFINE i == Owner[t]
<1> USE TypeOKIs
<1>1. i \in Incidents
  BY FleetAssumption DEF FleetAssumption
<1>2. CASE StartFork(i)
  BY <1>1, <1>2 DEF StartFork, Goto, AgentTypes, CallTypes
<1>3. CASE FirstTime(i)
  <2>1. (ns[t] # None => ns'[t] # None) /\ (db[t] # None => db'[t] # None)
    <3>1. CASE GcStep \/ \E j \in Incidents : IncidentStep(j)
      <4>1. t \notin gc.todo /\ i \notin gc.reaped /\ run[i] \in {"forking", "live"}
        BY <1>3 DEF YoungInv, FirstTime
      <4>2. \A j \in Incidents : i \in Covered[j] => j = i
        BY DEF Alone
      <4> QED BY <3>1, <4>1, <4>2, WhoRemoves
    <3> QED BY <3>1, ClusterSteps DEF Kept, Landed, Grown
  <2>2. /\ fork[t] = "creating" => db[t] # None
        /\ fork[t] = "ready" \/ run[i] = "live" => db[t] # None /\ ns[t] # None
    BY <1>3 DEF ThereInv
  <2>3. CASE fork'[t] = fork[t] /\ run'[i] = run[i]
    BY <2>1, <2>2, <2>3
  <2>4. CASE ForkEnds(i)
    <3>1. run'[i] = "live" => fork[t] = "ready"
      BY <1>1, <2>4 DEF ForkEnds, Goto, OfIncident, AgentTypes
    <3>2. run'[i] \in {"live", "rollback"} /\ (run'[i] = "live" => fork'[t] = "none")
      BY <1>1, <2>4 DEF ForkEnds, Goto, AgentTypes, Stopped, CallTypes
    <3>3. run'[i] = "live"
      BY <3>2 DEF FirstTime
    <3> QED BY <2>1, <2>2, <3>1, <3>2, <3>3
  <2>5. CASE CloneLands(t)
    <3>1. PICK next \in {"creating", "failed"} :
             Lands(t, next) /\ (next = "creating" => db' = [db EXCEPT ![t] = Clone(t)])
      BY <2>5 DEF CloneLands
    <3>2. run' = run
      BY <2>5 DEF CloneLands, agent
    <3>3. CASE ~Awaited(t)
      BY <2>1, <2>2, <3>1, <3>2, <3>3, LandsMoves
    <3>4. CASE Awaited(t)
      <4>1. fork'[t] = next /\ run[i] = "forking"
        BY <3>1, <3>4, LandsMoves DEF Awaited
      <4>2. next = "creating" => db'[t] # None
        <5>1. Clone(t) # None
          <6>1. CASE db[t] = None
            <7>1. DOMAIN Clone(t) # DOMAIN None
              BY <6>1 DEF Clone, None
            <7> QED BY <7>1
          <6>2. CASE db[t] # None
            <7>1. db[t] \in Databases
              BY <6>2 DEF ClusterTypes
            <7>2. DOMAIN db[t] # DOMAIN None
              BY <7>1 DEF Databases, None
            <7>3. DOMAIN Clone(t) = DOMAIN db[t]
              BY <6>2 DEF Clone
            <7> QED BY <7>2, <7>3
          <6> QED BY <6>1, <6>2
        <5> QED BY <3>1, <5>1 DEF ClusterTypes
      <4> QED BY <3>1, <3>2, <4>1, <4>2
    <3> QED BY <3>3, <3>4
  <2>6. CASE NamespaceLands(t)
    <3>1. PICK next \in {"ready", "failed"} :
             /\ Lands(t, next)
             /\ next = "ready" => ns' = [ns EXCEPT ![t] = IF @ = None
                                     THEN [age |-> 0, awaited |-> Awaited(t)] ELSE @]
      BY <2>6 DEF NamespaceLands
    <3>2. run' = run
      BY <2>6 DEF NamespaceLands, agent
    <3>3. CASE ~Awaited(t)
      BY <2>1, <2>2, <3>1, <3>2, <3>3, LandsMoves
    <3>4. CASE Awaited(t)
      <4>1. fork'[t] = next /\ run[i] = "forking"
        BY <3>1, <3>4, LandsMoves DEF Awaited
      <4>2. fork[t] = "creating"
        BY <2>6, <3>4 DEF NamespaceLands, Awaited, CreationInv
      <4>3. next = "ready" => ns'[t] # None
        <5>1. [age |-> 0, awaited |-> Awaited(t)] # None
          <6>1. DOMAIN [age |-> 0, awaited |-> Awaited(t)] # DOMAIN None
            BY DEF None
          <6> QED BY <6>1
        <5> QED BY <3>1, <5>1 DEF ClusterTypes
      <4> QED BY <2>1, <2>2, <3>1, <3>2, <4>1, <4>2, <4>3
    <3> QED BY <3>3, <3>4
  <2>7. CASE CallTimesOut(t)
    BY <2>1, <2>2, <2>7 DEF CallTimesOut, agent, CallTypes
  <2> QED BY <1>3, <2>3, <2>4, <2>5, <2>6, <2>7, FirstTimeSteps DEF TwinStep
<1> QED BY <1>1, <1>2, <1>3, FirstTimes

(* A thing that nobody awaited does not become one that somebody did, and  *)
(* what is made while the incident is not forked is awaited by nobody.     *)
LEMMA LateStays ==
    ASSUME TypeOK, CreationInv, [Next]_vars, NEW t \in Twins, run[Owner[t]] # "forking"
    PROVE  /\ Late(ns[t]) => Late(ns'[t])
           /\ Late(db[t]) => Late(db'[t])
<1>1. Awaited(t) = FALSE
  BY DEF Awaited
<1> QED BY <1>1, ClusterSteps DEF Kept, Removed, Landed, Grown, Late

(* A run that has just emptied the namespaces or the databases leaves none *)
(* that somebody awaited, and any other end of a run finds the incident    *)
(* still active.                                                           *)
LEMMA LateNext ==
    ASSUME TypeOK, RunInv, CreationInv, LateInv, [Next]_vars
    PROVE  LateInv'
<1> SUFFICES ASSUME NEW t \in Twins
             PROVE  /\ run'[Owner[t]] \in {"rollback_db", "closing_db", "exiting_db"} => Late(ns'[t])
                    /\ run'[Owner[t]] \in {"closing", "closing_db", "ended"} /\ Owner[t] \notin active'
                          => Late(ns'[t]) /\ Late(db'[t])
  BY DEF LateInv, Late
<1> DEFINE i == Owner[t]
           Emptied == run[i] \in {"rollback_db", "closing_db", "exiting_db"}
           Left    == run[i] \in {"closing", "closing_db", "ended"} /\ i \notin active
<1> USE TypeOKIs, DroppingNames DEF AgentTypes
<1>1. i \in Incidents
  BY FleetAssumption DEF FleetAssumption
<1>2. /\ Emptied => Late(ns[t])
      /\ Left => Late(ns[t]) /\ Late(db[t])
  BY DEF LateInv
<1>3. /\ Emptied => Late(ns'[t])
      /\ Left => Late(ns'[t]) /\ Late(db'[t])
  BY <1>2, LateStays
<1>4. CASE run'[i] = run[i] /\ (i \in active' <=> i \in active)
  BY <1>3, <1>4
<1>5. CASE StartFork(i) \/ ForkEnds(i) \/ Close(i)
  BY <1>1, <1>5 DEF StartFork, ForkEnds, Close, Goto
<1>6. CASE DeleteNamespaces(i)
  <2>1. Late(ns'[t])
    BY <1>6, RemovalLeaves DEF DeleteNamespaces, OfIncident, Late
  <2>2. /\ run[i] \in {"rollback", "closing", "exiting"} /\ active' = active
        /\ run'[i] = Dropping(run[i])
    BY <1>1, <1>6 DEF DeleteNamespaces, TearingDown
  <2> QED BY <1>3, <2>1, <2>2
<1>7. CASE DropDatabases(i)
  <2>1. db'[t] = None
    <3>1. CASE db[t] = None
      BY <1>7, <3>1, RemovalLeaves DEF DropDatabases
    <3>2. CASE db[t] # None
      <4>1. t \in PrefixMatches(i)
        BY <1>1, <3>2, FleetAssumption
           DEF PrefixMatches, TwinDatabases, Present, FleetAssumption
      <4> QED BY <1>7, <4>1, RemovalLeaves DEF DropDatabases
    <3> QED BY <3>1, <3>2
  <2>2. Emptied /\ run'[i] = After(run[i])
    BY <1>1, <1>7 DEF DropDatabases
  <2> QED BY <1>3, <2>1, <2>2 DEF After, Late
<1>8. CASE TeardownFails(i) \/ HandlerGivesUp(i)
  BY <1>1, <1>3, <1>8
     DEF TeardownFails, HandlerGivesUp, SomeRemoved, Goto, After, TearingDown, RunInv
<1>9. ASSUME NEW j \in Incidents, IncidentStep(j), j # i
      PROVE  run'[i] = run[i] /\ (i \in active' <=> i \in active)
  BY <1>1, <1>9 DEF IncidentStep, StartFork, ForkEnds, Close, DeleteNamespaces, DropDatabases,
     TeardownFails, HandlerGivesUp, Goto, Register, Unregister
<1>10. CASE ProcessStep
  <2>1. CASE Exit
    BY <1>1, <1>3, <2>1 DEF Exit, RunInv, RunStates
  <2>2. CASE Gone \/ Kill
    BY <1>1, <1>3, <2>2 DEF Gone, Kill, Abandoned
  <2>3. CASE Restart
    BY <1>1, <1>3, <2>3 DEF Restart
  <2> QED BY <1>10, <2>1, <2>2, <2>3 DEF ProcessStep
<1>11. Tick \/ GcStep \/ (\E u \in Twins : TwinStep(u)) \/ UNCHANGED vars => UNCHANGED <<run, active>>
  BY DEF Tick, TwinStep, CloneLands, NamespaceLands, CallTimesOut, GcStep, GcList,
     GcListDatabases, GcEnds, GcReap, GcDropOrphan, GcDropReaped, vars, agent
<1> QED
  BY <1>4, <1>5, <1>6, <1>7, <1>8, <1>9, <1>10, <1>11 DEF Next, IncidentStep

(* At the start nothing exists and nobody is at work.                      *)
LEMMA FleetInit == Init => FleetInv
<1> SUFFICES ASSUME Init
             PROVE  FleetInv
  OBVIOUS
<1> USE FleetAssumption DEF Init, FleetAssumption
<1>1. TypeOK
  <2>1. 0 \in Ages
    BY DEF Ages
  <2> QED
    BY <2>1, TypeOKIs DEF AgentTypes, CallTypes, ClusterTypes, GcTypes, GcIdle, RunStates
<1>2. RunInv /\ CreationInv /\ UnbornInv
  BY DEF RunInv, CreationInv, UnbornInv
<1>3. YoungInv /\ ThereInv /\ LateInv
  BY DEF YoungInv, ThereInv, LateInv, FirstTime, Late, GcIdle
<1> QED BY <1>1, <1>2, <1>3 DEF FleetInv

(* Every step keeps the whole invariant.                                   *)
LEMMA FleetNext == FleetInv /\ [Next]_vars => FleetInv'
<1> SUFFICES ASSUME FleetInv, [Next]_vars
             PROVE  FleetInv'
  OBVIOUS
<1> USE DEF FleetInv
<1>1. TypeOK /\ TypeOK' /\ RunInv'
  <2>1. AgentTypes' /\ CallTypes' /\ ClusterTypes' /\ GcTypes'
    BY TypeOKIs, AgentTypesNext, CreationNext, ClusterTypesNext, GcTypesNext
  <2>2. AgentTypes' /\ CallTypes' /\ ClusterTypes' /\ GcTypes' => TypeOK'
    BY TypeOKIs, PTL
  <2> QED BY <2>1, <2>2, RunInvNext
<1>2. CreationInv' /\ UnbornInv'
  BY CreationNext, UnbornNext
<1>3. YoungInv' /\ ThereInv' /\ LateInv'
  BY YoungNext, ThereNext, LateNext
<1> QED BY <1>1, <1>2, <1>3

(* The invariant of the fleet holds in every reachable state.              *)
THEOREM FleetInvHolds == Spec => []FleetInv
<1> QED BY FleetInit, FleetNext, PTL DEF Spec

(* The twins of an incident that was forked once and whose prefix no other *)
(* name continues are there as long as its run works with them, whatever   *)
(* gc, another teardown or an abandoned call does: for any incidents and   *)
(* twins, and any retention longer than a run.                             *)
THEOREM TwinsStayIntact == Spec => []TwinsIntact
<1>1. FleetInv => TwinsIntact
  BY DEF FleetInv, ThereInv, FirstTime, TwinsIntact, Present
<1> QED BY <1>1, FleetInvHolds, PTL

(* What a run that has ended leaves behind while its incident is no longer *)
(* active was made by calls nobody awaited: no teardown that reports       *)
(* success overlooks a twin that was there when it began.                  *)
THEOREM OnlyLateOnesForgotten == Spec => []OnlyLateTwinsForgotten
<1>1. FleetInv => OnlyLateTwinsForgotten
  BY DEF FleetInv, LateInv, Late, OnlyLateTwinsForgotten
<1> QED BY <1>1, FleetInvHolds, PTL
===============================================================================
