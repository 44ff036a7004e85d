---------------------------- MODULE FleetLifecycle ----------------------------
(***************************************************************************)
(* The twins of several incidents: a database cloned from the snapshot and *)
(* a namespace each, made by the fork of the agent process, removed by its *)
(* teardown, by its exit handlers, or by `ust fleet gc`, which runs in a   *)
(* process of its own and goes by age and by name.                         *)
(*                                                                         *)
(* The Kubernetes and psql calls run in threads and subprocesses: one that *)
(* was under way when its fork gave up, or when its process was killed,    *)
(* still lands.  A namespace stands for everything applied in it.          *)
(***************************************************************************)
EXTENDS Naturals

CONSTANTS
    Incidents,
    Twins,      \* candidates of all incidents
    Owner,      \* the incident of each twin
    Covered,    \* incidents whose database names begin with the prefix of an incident's
    OlderThan,  \* retention time of gc
    Limit,      \* whole-incident timeout
    Rounds      \* bound on how often each incident is handled

ASSUME FleetAssumption ==
    /\ Owner \in [Twins -> Incidents]
    /\ Covered \in [Incidents -> SUBSET Incidents]
    /\ \A i \in Incidents : i \in Covered[i]
    /\ OlderThan \in Nat /\ Limit \in Nat
    /\ Rounds \in [Incidents -> Nat]

(* By default gc keeps for an hour what a run may work with for ten minutes.*)
ASSUME RetentionAssumption == Limit < OlderThan

VARIABLES
    proc,      \* the agent process: up, exiting, down
    active,    \* _ACTIVE_INCIDENTS of the agent process
    run,       \* what the agent does for each incident
    round,     \* how often it has forked for each incident
    elapsed,   \* how long ago it last did, while the run works
    fork,      \* how far the creation of each twin is, while its fork goes on
    call,      \* the call under way for each twin: none, clone, namespace
    ns,        \* the namespaces: None, or their age, and whether the call that
               \*   made them was still awaited
    db,        \* the databases: the same, whether the COMMENT stamps them, and
               \*   the fork that cloned them
    gc         \* the gc process

agent   == <<proc, active, run, round, elapsed>>
cluster == <<ns, db>>
vars    == <<agent, fork, call, cluster, gc>>

None == [exists |-> FALSE]

Present(store) == {t \in Twins : store[t] # None}

TwinDatabases == Present(db)       \* as one query lists them

OfIncident(i)    == {t \in Twins : Owner[t] = i}
PrefixMatches(i) == {t \in TwinDatabases : Owner[t] \in Covered[i]}

Without(store, gone) == [t \in Twins |-> IF t \in gone THEN None ELSE store[t]]

GcIdle == [phase |-> "idle", todo |-> {}, reaped |-> {}, kept |-> {}]

Init ==
    /\ proc = "up" /\ active = {}
    /\ run = [i \in Incidents |-> "idle"]
    /\ round = [i \in Incidents |-> 0]
    /\ elapsed = [i \in Incidents |-> 0]
    /\ fork = [t \in Twins |-> "none"]
    /\ call = [t \in Twins |-> "none"]
    /\ ns = [t \in Twins |-> None]
    /\ db = [t \in Twins |-> None]
    /\ gc = GcIdle

Register(i)   == active' = active \cup {i}
Unregister(i) == active' = active \ {i}

Goto(i, from, to) == run[i] \in from /\ run' = [run EXCEPT ![i] = to]

(***************************************************************************)
(* FleetController.fork.                                                   *)
(***************************************************************************)
(* Registered before anything is made.  Calls of an earlier fork have      *)
(* ended when the incident is handled again.                               *)
StartFork(i) ==
    /\ proc = "up" /\ round[i] < Rounds[i]
    /\ \A t \in OfIncident(i) : call[t] = "none"
    /\ Goto(i, {"idle"}, "forking")
    /\ Register(i)
    /\ round' = [round EXCEPT ![i] = @ + 1]
    /\ elapsed' = [elapsed EXCEPT ![i] = 0]
    /\ fork' = [t \in Twins |-> IF Owner[t] = i THEN "cloning" ELSE fork[t]]
    /\ call' = [t \in Twins |-> IF Owner[t] = i THEN "clone" ELSE call[t]]
    /\ UNCHANGED <<proc, cluster, gc>>

Awaited(t) == proc = "up" /\ run[Owner[t]] = "forking" /\ fork[t] \in {"cloning", "creating"}

Lands(t, next) ==
    IF Awaited(t)
    THEN /\ fork' = [fork EXCEPT ![t] = next]
         /\ call' = [call EXCEPT ![t] = IF next = "creating" THEN "namespace" ELSE "none"]
    ELSE call' = [call EXCEPT ![t] = "none"] /\ UNCHANGED fork

(* CREATE DATABASE, then the COMMENT that stamps it with the time of the   *)
(* attempt: two -c commands of one psql, which goes on after an error and  *)
(* exits with the status of the second.  So a database of that name that   *)
(* exists is stamped anew and taken for the clone.                         *)
Clone(t) ==
    IF db[t] = None
    THEN [age |-> 0, awaited |-> Awaited(t), stamped |-> TRUE,
          by |-> round[Owner[t]]]
    ELSE [db[t] EXCEPT !.age = 0, !.stamped = TRUE]

CloneLands(t) ==
    /\ call[t] = "clone"
    /\ \/ db' = [db EXCEPT ![t] = Clone(t)] /\ Lands(t, "creating")
       \/ /\ db[t] = None
          /\ db' = [db EXCEPT ![t] = [Clone(t) EXCEPT !.stamped = FALSE]]
          /\ Lands(t, "failed")
       \/ UNCHANGED db /\ Lands(t, "failed")
    /\ UNCHANGED <<agent, ns, gc>>

(* A namespace that exists is taken over (409), with the creation time it  *)
(* has.  Even when it was made, what follows in it may fail.               *)
NamespaceLands(t) ==
    /\ call[t] = "namespace"
    /\ \/ /\ ns' = [ns EXCEPT ![t] = IF @ = None
                                     THEN [age |-> 0, awaited |-> Awaited(t)] ELSE @]
          /\ \E next \in {"ready", "failed"} : Lands(t, next)
       \/ UNCHANGED ns /\ Lands(t, "failed")
    /\ UNCHANGED <<agent, db, gc>>

(* The call times out; what it asked for may still be done.                *)
CallTimesOut(t) ==
    /\ Awaited(t) /\ call[t] # "none"
    /\ fork' = [fork EXCEPT ![t] = "failed"]
    /\ UNCHANGED <<agent, call, cluster, gc>>

Stopped(is) == [t \in Twins |-> IF Owner[t] \in is THEN "none" ELSE fork[t]]

(* The runs of these incidents work no longer.                             *)
Stop(is) ==
    /\ fork' = Stopped(is)
    /\ elapsed' = [i \in Incidents |-> IF i \in is THEN 0 ELSE elapsed[i]]

(* All creations have ended: the fork succeeds, or it rolls back.          *)
ForkEnds(i) ==
    /\ proc = "up"
    /\ \A t \in OfIncident(i) : fork[t] \in {"ready", "failed"}
    /\ Goto(i, {"forking"},
            IF \A t \in OfIncident(i) : fork[t] = "ready" THEN "live" ELSE "rollback")
    /\ IF run'[i] = "live" THEN fork' = Stopped({i}) /\ UNCHANGED elapsed ELSE Stop({i})
    /\ UNCHANGED <<proc, active, round, call, cluster, gc>>

(* teardown_fleet, the error edge or the watchdog: the twins are given up, *)
(* whether or not the fork has ended.                                      *)
Close(i) ==
    /\ proc = "up"
    /\ Goto(i, {"forking", "live"}, "closing")
    /\ Stop({i})
    /\ UNCHANGED <<proc, active, round, call, cluster, gc>>

(***************************************************************************)
(* FleetTeardownManager.teardown_incident: the namespaces by label, then   *)
(* the databases by name prefix, then the incident is no longer active.    *)
(***************************************************************************)
TearingDown == {"rollback", "closing", "exiting"}

Dropping(r) == CASE r = "rollback" -> "rollback_db"
                 [] r = "closing"  -> "closing_db"
                 [] r = "exiting"  -> "exiting_db"

(* What the run does once its teardown has ended, well or badly: a rolled  *)
(* back fork raises, and the error edge tears down once more.              *)
After(r) == IF r \in {"rollback", "rollback_db"} THEN "closing" ELSE "ended"

DeleteNamespaces(i) ==
    /\ run[i] \in TearingDown
    /\ ns' = Without(ns, OfIncident(i))
    /\ run' = [run EXCEPT ![i] = Dropping(@)]
    /\ UNCHANGED <<proc, active, round, elapsed, fork, call, db, gc>>

DropDatabases(i) ==
    /\ run[i] \in {Dropping(r) : r \in TearingDown}
    /\ db' = Without(db, PrefixMatches(i))
    /\ Unregister(i)
    /\ run' = [run EXCEPT ![i] = After(@)]
    /\ UNCHANGED <<proc, round, elapsed, fork, call, ns, gc>>

SomeRemoved(i) ==
    \/ /\ run[i] \in TearingDown /\ UNCHANGED db
       /\ \E gone \in SUBSET OfIncident(i) : ns' = Without(ns, gone)
    \/ /\ run[i] \in {Dropping(r) : r \in TearingDown} /\ UNCHANGED ns
       /\ \E gone \in SUBSET PrefixMatches(i) : db' = Without(db, gone)

(* Mutant: the incident is unregistered although its teardown failed.      *)
TeardownFails_Unregisters(i) ==
    /\ run[i] \notin {"exiting", "exiting_db"}
    /\ SomeRemoved(i)
    /\ \/ run' = [run EXCEPT ![i] = After(@)]
       \/ Goto(i, {"closing", "closing_db"}, "closing")
    /\ Unregister(i)
    /\ UNCHANGED <<proc, round, elapsed, fork, call, gc>>

(* A call fails; what was removed before it stays removed, and the         *)
(* incident stays active.  A node that fails is followed by the error      *)
(* edge's teardown.                                                        *)
TeardownFails(i) ==
    /\ run[i] \notin {"exiting", "exiting_db"}
    /\ SomeRemoved(i)
    /\ \/ run' = [run EXCEPT ![i] = After(@)]
       \/ Goto(i, {"closing", "closing_db"}, "closing")
    /\ UNCHANGED <<proc, active, round, elapsed, fork, call, gc>>

(* An exit handler waits for the teardown in a thread of its own, and goes *)
(* on without it when it fails or takes too long; the handler of SIGTERM   *)
(* is followed by that of atexit.                                          *)
HandlerGivesUp(i) ==
    /\ SomeRemoved(i)
    /\ \/ Goto(i, {"exiting", "exiting_db"}, "exiting")
       \/ Goto(i, {"exiting", "exiting_db"}, "ended")
    /\ UNCHANGED <<proc, active, round, elapsed, fork, call, gc>>

(***************************************************************************)
(* The agent process.                                                      *)
(***************************************************************************)
(* SIGTERM or a normal exit: the handlers tear down what is still active,  *)
(* nothing else runs any more.                                             *)
Exit ==
    /\ proc = "up" /\ proc' = "exiting"
    /\ run' = [i \in Incidents |-> IF i \in active THEN "exiting"
                                   ELSE IF run[i] = "idle" THEN "idle" ELSE "ended"]
    /\ Stop(Incidents)
    /\ UNCHANGED <<active, round, call, cluster, gc>>

(* Whatever the process still held is held by nobody now.                  *)
Abandoned == [i \in Incidents |-> IF run[i] \notin {"idle", "ended"} \/ i \in active
                                  THEN "dead" ELSE run[i]]

Gone ==
    /\ proc = "exiting"
    /\ \A i \in Incidents : run[i] \in {"idle", "ended"}
    /\ proc' = "down" /\ active' = {} /\ run' = Abandoned
    /\ UNCHANGED <<round, elapsed, fork, call, cluster, gc>>

(* SIGKILL: no handler runs.                                               *)
Kill ==
    /\ proc # "down" /\ proc' = "down" /\ active' = {} /\ run' = Abandoned
    /\ Stop(Incidents)
    /\ UNCHANGED <<round, call, cluster, gc>>

(* The agent is started again, and handles again what it did not finish.   *)
Restart ==
    /\ proc = "down" /\ proc' = "up"
    /\ run' = [i \in Incidents |-> IF run[i] = "dead" THEN "idle" ELSE run[i]]
    /\ UNCHANGED <<active, round, elapsed, fork, call, cluster, gc>>

(***************************************************************************)
(* FleetTeardownManager.gc, called by `ust fleet gc` only: the incidents   *)
(* active in its own process are none.                                     *)
(***************************************************************************)
Expired(thing) == thing.age >= OlderThan

GcList ==
    /\ gc.phase = "idle"
    /\ LET old == {t \in Present(ns) : Expired(ns[t])}
       IN  gc' = [phase  |-> "reaping",
                  todo   |-> old,
                  reaped |-> {Owner[t] : t \in old},
                  kept   |-> {Owner[t] : t \in Present(ns) \ old}]
    /\ UNCHANGED <<agent, fork, call, cluster>>

(* By name, whatever has that name by now.                                 *)
GcReap(t) ==
    /\ gc.phase = "reaping" /\ t \in gc.todo
    /\ ns' = Without(ns, {t})
    /\ gc' = [gc EXCEPT !.todo = @ \ {t}]
    /\ UNCHANGED <<agent, fork, call, db>>

(* All databases of an incident that lost a namespace, of any age.         *)
GcDropReaped(i) ==
    /\ gc.phase = "reaping" /\ gc.todo = {} /\ i \in gc.reaped
    /\ db' = Without(db, PrefixMatches(i))
    /\ gc' = [gc EXCEPT !.reaped = @ \ {i}]
    /\ UNCHANGED <<agent, fork, call, ns>>

(* Mutant: a database without a namespace is an orphan at any age.         *)
Orphans_AnyAge ==
    {t \in Present(db) : Owner[t] \notin gc.kept /\ db[t].stamped}

(* A clone is made before its namespace: only its age tells the two apart, *)
(* and a database without a stamp has none.                                *)
Orphans ==
    {t \in Present(db) : Owner[t] \notin gc.kept /\ db[t].stamped /\ Expired(db[t])}

GcListDatabases ==
    /\ gc.phase = "reaping" /\ gc.todo = {} /\ gc.reaped = {}
    /\ gc' = [gc EXCEPT !.phase = "orphans", !.todo = Orphans, !.kept = {}]
    /\ UNCHANGED <<agent, fork, call, cluster>>

GcDropOrphan(t) ==
    /\ gc.phase = "orphans" /\ t \in gc.todo
    /\ db' = Without(db, {t})
    /\ gc' = [gc EXCEPT !.todo = @ \ {t}]
    /\ UNCHANGED <<agent, fork, call, ns>>

(* Done, or stopped by the first call that fails.                          *)
GcEnds ==
    /\ gc.phase # "idle"
    /\ gc' = GcIdle
    /\ UNCHANGED <<agent, fork, call, cluster>>

(***************************************************************************)
(* Time passes.  The watchdog gives no incident more than Limit, and a     *)
(* call ends within its own timeout, far less than a unit of time, though  *)
(* a fork awaits many in the namespace.  Ages beyond OlderThan are all the *)
(* same.                                                                   *)
(***************************************************************************)
Working(i) == proc = "up" /\ run[i] \in {"forking", "live"}

Older(age) == IF age < OlderThan THEN age + 1 ELSE age

Aged(store) == [t \in Twins |-> IF store[t] = None THEN None
                                ELSE [store[t] EXCEPT !.age = Older(@)]]

Tick ==
    /\ \A i \in Incidents : Working(i) => elapsed[i] < Limit
    /\ \A t \in Twins : call[t] = "none" \/ (call[t] = "namespace" /\ Awaited(t))
    /\ elapsed' = [i \in Incidents |-> IF Working(i) THEN Older(elapsed[i]) ELSE elapsed[i]]
    /\ ns' = Aged(ns) /\ db' = Aged(db)
    /\ UNCHANGED <<proc, active, run, round, fork, call, gc>>

IncidentStep(i) ==
    \/ StartFork(i) \/ ForkEnds(i) \/ Close(i)
    \/ DeleteNamespaces(i) \/ DropDatabases(i) \/ TeardownFails(i) \/ HandlerGivesUp(i)

TwinStep(t) == CloneLands(t) \/ NamespaceLands(t) \/ CallTimesOut(t)

ProcessStep == Exit \/ Gone \/ Kill \/ Restart

GcStep ==
    \/ GcList \/ GcListDatabases \/ GcEnds
    \/ \E t \in Twins : GcReap(t) \/ GcDropOrphan(t)
    \/ \E i \in Incidents : GcDropReaped(i)

Next ==
    \/ \E i \in Incidents : IncidentStep(i)
    \/ \E t \in Twins : TwinStep(t)
    \/ ProcessStep \/ GcStep \/ Tick

Spec == Init /\ [][Next]_vars

-------------------------------------------------------------------------------
Ages == 0 .. OlderThan

(* Every variable has its type; a process that is gone holds no incident   *)
(* active, and one that forks or tears down for the first time does        *)
(* (register_active_incident precedes everything fork makes).              *)
TypeOK ==
    /\ proc \in {"up", "exiting", "down"}
    /\ active \subseteq Incidents
    /\ run \in [Incidents -> {"idle", "forking", "live", "ended", "dead"} \cup TearingDown
                             \cup {Dropping(r) : r \in TearingDown}]
    /\ round \in [Incidents -> Nat]
    /\ elapsed \in [Incidents -> Ages]
    /\ fork \in [Twins -> {"none", "cloning", "creating", "ready", "failed"}]
    /\ call \in [Twins -> {"none", "clone", "namespace"}]
    /\ ns \in [Twins -> {None} \cup [age : Ages, awaited : BOOLEAN]]
    /\ db \in [Twins -> {None} \cup [age : Ages, awaited : BOOLEAN, stamped : BOOLEAN,
                                  by : Nat \ {0}]]
    /\ gc \in [phase : {"idle", "reaping", "orphans"}, todo : SUBSET Twins,
               reaped : SUBSET Incidents, kept : SUBSET Incidents]
    /\ proc = "down" => active = {}
    /\ \A i \in Incidents : run[i] \in {"forking", "live", "rollback", "rollback_db"} => i \in active

Alone(i) == \A j \in Incidents : i \in Covered[j] => j = i

(* The twins a run works with are there as long as it works with them,     *)
(* whatever gc, another incident's teardown or an abandoned call does in   *)
(* the meantime.  Excluded are an incident whose database names another's  *)
(* prefix covers, and one that was forked before, whose twins may have the *)
(* name, and the age, of those the earlier fork left behind.               *)
TwinsIntact ==
    TypeOK /\ \A t \in Twins :
       LET i == Owner[t] IN
       run[i] = "live" /\ round[i] = 1 /\ Alone(i) => t \in Present(ns) \cap Present(db)

(* What a run leaves behind when it ends is known: the incident is still   *)
(* active, so that the exit handlers try again, or the twin was made by a  *)
(* call that nobody awaited any more.                                      *)
OnlyLateTwinsForgotten ==
    \A t \in Twins :
       /\ proc # "down" /\ run[Owner[t]] \in {"closing", "ended"}
       /\ Owner[t] \notin active
       => (ns[t] # None => ~ns[t].awaited) /\ (db[t] # None => ~db[t].awaited)

===============================================================================
