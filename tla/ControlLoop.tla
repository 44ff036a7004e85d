----------------------------- MODULE ControlLoop -----------------------------
(***************************************************************************)
(* One incident carried through the orchestrator's control loop: the       *)
(* fifteen graph nodes, the routers between them, the error edge, and the  *)
(* whole-incident watchdog that may cancel the graph task at any await.    *)
(*                                                                         *)
(* The graph task is at a node, at a step inside that node.  A step ends   *)
(* at an awaited call, so the watchdog can strike between any two effects  *)
(* of one node.  A node that returns or raises goes to step "left"; Route  *)
(* is the superstep boundary, which merges nothing more, picks the next    *)
(* node and lets the tracker snapshot the state on entry.                  *)
(*                                                                         *)
(* A twin is named by the plan it rehearses (both carry the same           *)
(* candidate_index).  Plans, twins and the state's optional fields are     *)
(* kept; texts, evidence figures and timestamps are left out.              *)
(***************************************************************************)
EXTENDS Naturals

CONSTANTS
    Plans,          \* the remediation plans the planner may propose
    PlaybookPlans,  \* those of them that come from the playbook library
    NoPlan          \* the absence of a plan

ASSUME PlansAssumption ==
    /\ PlaybookPlans \subseteq Plans
    /\ NoPlan \notin Plans

VARIABLES
    st,        \* the graph state, as merged by the reducers
    tracked,   \* StateTracker.current_state: the state at the last node entry
    node,      \* the node being run, or "END"
    step,      \* how far inside the node the task is
    task,      \* the graph task: running, cancelled by the watchdog, done
    wd,        \* the watchdog, and the emergency escalation it leads to
    mirrors,   \* twins registered with the mirror gateway
    cluster,   \* twin namespaces (with their databases) that exist
    pending,   \* twins whose creation has been started and has not ended
    prod,      \* what has happened to production: clean, inflight, mutated
    claim,     \* plan named by the pre-actuation row, if that row exists
    row,       \* the final row run_<incident> of the append-only runs table
    pages,     \* how many times on-call has been paged
    playbook,  \* what the playbook library was told about this run
    result,    \* how run_incident ended
    failed     \* history: kinds of dependency calls that have failed so far

vars == <<st, tracked, node, step, task, wd, mirrors, cluster, pending,
          prod, claim, row, pages, playbook, result, failed>>

graphVars == <<st, tracked, node, step, task>>
twinVars  == <<mirrors, cluster, pending>>
storeVars == <<claim, row, playbook>>

OptPlan == Plans \cup {NoPlan}

Nodes == {"ingest", "gather_context", "plan_candidates", "fork_fleet",
          "register_mirrors", "apply_candidates", "observe", "tournament",
          "safety_kernel", "actuate", "notify_slack", "escalate_pagerduty",
          "teardown_fleet", "record_run", "handle_failure"}

Steps == {"run", "forking", "claimed", "applying", "probing", "inserted",
          "cleaned", "paged", "left"}

Outcomes     == {"none", "EXECUTED", "ESCALATED", "FAILED"}
ProdOutcomes == {"none", "resolved", "not_resolved", "worsened"}
Tournaments  == {"none", "DECIDED", "AMBIGUOUS", "NO_VIABLE_CANDIDATE"}
Verdicts     == {"none", "PASS", "VETO", "UNCERTAIN"}

States == [context : BOOLEAN, plans : SUBSET Plans, twins : SUBSET Plans,
           tournament : Tournaments, winner : OptPlan,
           verdict : Verdicts, verdictPlan : OptPlan,
           outcome : Outcomes, prodOutcome : ProdOutcomes,
           prodApplied : OptPlan, errors : BOOLEAN, escalated : BOOLEAN]

Rows == [outcome : Outcomes, applied : OptPlan, prodOutcome : ProdOutcomes]

NoRow == [outcome |-> "none", applied |-> NoPlan, prodOutcome |-> "none"]

InitialState ==
    [context |-> FALSE, plans |-> {}, twins |-> {},
     tournament |-> "none", winner |-> NoPlan,
     verdict |-> "none", verdictPlan |-> NoPlan,
     outcome |-> "none", prodOutcome |-> "none",
     prodApplied |-> NoPlan, errors |-> FALSE, escalated |-> FALSE]

Init ==
    /\ st = InitialState /\ tracked = InitialState
    /\ node = "ingest" /\ step = "run" /\ task = "running"
    /\ wd = "sleeping"
    /\ mirrors = {} /\ cluster = {} /\ pending = {}
    /\ prod = "clean" /\ claim = NoPlan /\ row = NoRow
    /\ pages = 0 /\ playbook = "none" /\ result = "none" /\ failed = {}

(***************************************************************************)
(* State.resolved_outcome and State.to_run_record.                         *)
(***************************************************************************)
ResolvedOutcome(s) ==
    CASE s.outcome = "ESCALATED"                -> "ESCALATED"
      [] s.outcome # "ESCALATED" /\ s.errors    -> "FAILED"
      [] s.outcome = "none" /\ ~s.errors        -> "EXECUTED"
      [] OTHER                                  -> s.outcome

RunRecord(s) == [outcome |-> ResolvedOutcome(s), applied |-> s.prodApplied,
                 prodOutcome |-> s.prodOutcome]

(***************************************************************************)
(* How a node ends: it returns updates that the reducers merge into s, or  *)
(* it raises and the node runner turns the exception into an error, with   *)
(* every update of the node lost.                                          *)
(***************************************************************************)
At(n, at) == task = "running" /\ node = n /\ step = at

Goto(at) == step' = at /\ UNCHANGED <<st, tracked, node, task>>

Return(s) ==
    /\ st' = s /\ step' = "left"
    /\ UNCHANGED <<tracked, node, task>>

Raise == Return([st EXCEPT !.errors = TRUE])

Fault(kind) == failed' = failed \cup {kind}

(* The nodes that run under a timeout of their own, which raises in them.  *)
TimedNodes == {"fork_fleet", "apply_candidates", "observe", "safety_kernel"}

NodeTimesOut == node \in TimedNodes /\ Raise

(***************************************************************************)
(* The routers of the compiled graph.                                      *)
(***************************************************************************)
LinearNext ==
    [ingest |-> "gather_context", gather_context |-> "plan_candidates",
     plan_candidates |-> "fork_fleet", fork_fleet |-> "register_mirrors",
     register_mirrors |-> "apply_candidates", apply_candidates |-> "observe",
     observe |-> "tournament", notify_slack |-> "teardown_fleet",
     escalate_pagerduty |-> "teardown_fleet", teardown_fleet |-> "record_run",
     record_run |-> "END"]

RouteLinear(s, n) == IF s.errors THEN "handle_failure" ELSE LinearNext[n]

RouteTournament(s) ==
    IF s.errors THEN "handle_failure"
    ELSE IF s.tournament # "DECIDED" \/ s.winner = NoPlan \/ s.outcome = "ESCALATED"
         THEN "escalate_pagerduty"
         ELSE "safety_kernel"

RouteSafetyKernel(s) ==
    IF s.errors THEN "handle_failure"
    ELSE IF s.verdict # "PASS" \/ s.outcome = "ESCALATED"
         THEN "escalate_pagerduty"
         ELSE "actuate"

RouteActuation(s) ==
    IF s.errors THEN "handle_failure"
    ELSE IF s.prodOutcome # "resolved" THEN "escalate_pagerduty" ELSE "notify_slack"

NextNode(s, n) ==
    CASE n = "tournament"     -> RouteTournament(s)
      [] n = "safety_kernel"  -> RouteSafetyKernel(s)
      [] n = "actuate"        -> RouteActuation(s)
      [] n = "handle_failure" -> "END"
      [] OTHER                -> RouteLinear(s, n)

(* Mutant: the tracker is not told of node entries.                        *)
Route_TrackerNotNotified ==
    /\ task = "running" /\ step = "left"
    /\ LET n == NextNode(st, node) IN
         /\ node' = n
         /\ IF n = "END" THEN task' = "done" /\ UNCHANGED step
                         ELSE step' = "run" /\ UNCHANGED task
    /\ UNCHANGED <<st, tracked, wd, prod, pages, result, failed, twinVars, storeVars>>

(* The next node is entered (and the tracker notified), or the task is done. *)
Route ==
    /\ task = "running" /\ step = "left"
    /\ LET n == NextNode(st, node) IN
         /\ node' = n
         /\ IF n = "END"
            THEN task' = "done" /\ UNCHANGED <<step, tracked>>
            ELSE step' = "run" /\ tracked' = st /\ UNCHANGED task
    /\ UNCHANGED <<st, wd, prod, pages, result, failed, twinVars, storeVars>>

(***************************************************************************)
(* The nodes before production: only the state, the twins and the mirrors  *)
(* change.                                                                 *)
(***************************************************************************)
Elsewhere == UNCHANGED <<wd, prod, pages, result, storeVars>>

Ingest ==
    /\ At("ingest", "run")
    /\ Return(st)
    /\ Elsewhere /\ UNCHANGED <<failed, twinVars>>

GatherContext ==
    /\ At("gather_context", "run")
    /\ \/ Return([st EXCEPT !.context = TRUE])
       \/ Raise
    /\ Elsewhere /\ UNCHANGED <<failed, twinVars>>

PlanCandidates ==
    /\ At("plan_candidates", "run")
    /\ \/ \E proposed \in SUBSET Plans : Return([st EXCEPT !.plans = @ \cup proposed])
       \/ Raise
    /\ Elsewhere /\ UNCHANGED <<failed, twinVars>>

(* FleetController.fork: the twins are created concurrently, each through  *)
(* calls that run in threads.                                              *)
ForkRefused ==
    /\ At("fork_fleet", "run")
    /\ Raise
    /\ Elsewhere /\ UNCHANGED <<failed, twinVars>>

StartFork ==
    /\ At("fork_fleet", "run")
    /\ st.plans # {}
    /\ pending' = st.plans
    /\ Goto("forking")
    /\ Elsewhere /\ UNCHANGED <<failed, mirrors, cluster>>

(* One twin's creation ends, in the cluster or not, whether or not the     *)
(* task that asked for it is still there.                                  *)
CreateTwin ==
    /\ \E t \in pending : pending' = pending \ {t} /\ cluster' \in {cluster, cluster \cup {t}}
    /\ Elsewhere /\ UNCHANGED <<graphVars, failed, mirrors>>

ForkFleet ==
    /\ At("fork_fleet", "forking")
    /\ pending = {} /\ st.plans \subseteq cluster
    /\ Return([st EXCEPT !.twins = @ \cup st.plans])
    /\ Elsewhere /\ UNCHANGED <<failed, twinVars>>

(* A fork that fails waits for every twin and rolls back best-effort; one  *)
(* that times out abandons whatever is still being created.                *)
ForkFleetFails ==
    /\ At("fork_fleet", "forking")
    /\ \/ pending = {} /\ cluster' \in SUBSET cluster /\ Raise
       \/ UNCHANGED cluster /\ NodeTimesOut
    /\ Elsewhere /\ UNCHANGED <<failed, mirrors, pending>>

RegisterMirror ==
    /\ At("register_mirrors", "run")
    /\ \E t \in st.twins \ mirrors :
          /\ mirrors' = mirrors \cup {t}
          /\ Goto("run") \/ Raise      \* the gateway's answer may be lost
    /\ Elsewhere /\ UNCHANGED <<failed, cluster, pending>>

RegisterMirrors ==
    /\ At("register_mirrors", "run")
    /\ \/ st.twins \subseteq mirrors /\ Return(st)
       \/ Raise
    /\ Elsewhere /\ UNCHANGED <<failed, twinVars>>

ApplyCandidates ==
    /\ At("apply_candidates", "run")
    /\ \/ st.plans \subseteq st.twins /\ Return(st)
       \/ Raise \/ NodeTimesOut
    /\ Elsewhere /\ UNCHANGED <<failed, twinVars>>

Observe ==
    /\ At("observe", "run")
    /\ \/ \E w \in st.plans :
             Return([st EXCEPT !.tournament = "DECIDED", !.winner = w])
       \/ \E t \in {"AMBIGUOUS", "NO_VIABLE_CANDIDATE"} :
             Return([st EXCEPT !.tournament = t, !.winner = NoPlan])
       \/ Raise \/ NodeTimesOut
    /\ Elsewhere /\ UNCHANGED <<failed, twinVars>>

Tournament ==
    /\ At("tournament", "run")
    /\ Return(IF st.tournament \in {"AMBIGUOUS", "NO_VIABLE_CANDIDATE"}
              THEN [st EXCEPT !.outcome = "ESCALATED"] ELSE st)
    /\ Elsewhere /\ UNCHANGED <<failed, twinVars>>

(* Facts missing or vetoed, or the solver undecided: the plan is escalated.*)
SafetyKernel ==
    /\ At("safety_kernel", "run")
    /\ \/ st.winner \notin st.plans /\ Return([st EXCEPT !.outcome = "ESCALATED"])
       \/ /\ st.winner \in st.plans
          /\ \E v \in {"PASS", "VETO", "UNCERTAIN"} :
                Return([st EXCEPT !.verdict = v, !.verdictPlan = st.winner,
                                  !.outcome = IF v = "PASS" THEN @ ELSE "ESCALATED"])
       \/ Raise \/ NodeTimesOut
    /\ Elsewhere /\ UNCHANGED <<failed, twinVars>>

(***************************************************************************)
(* actuate and Actuator.apply_to_production.  The refusals (no PASS, wrong *)
(* plan, stale verdict, kill switch, caller guard) all come before the     *)
(* pre-actuation row, and the row before the first call that can change    *)
(* production.  The Kubernetes calls run in a thread that outlives a       *)
(* cancelled task, so a patch "inflight" may still land.                   *)
(***************************************************************************)
Authorised ==
    /\ st.verdict = "PASS"
    /\ st.winner \in st.plans
    /\ st.verdictPlan = st.winner

ActuateRefused ==
    /\ At("actuate", "run")
    /\ Raise
    /\ Elsewhere /\ UNCHANGED <<failed, twinVars>>

(* The row run_<incident>_pre_actuation, inserted by RunStore.record_run:  *)
(* its key refuses a second one for ever after.  (RunStore.claim_run, which*)
(* would also look for other active runs, is called by nobody.)            *)
InsertClaim(plan) == claim = NoPlan /\ claim' = plan

InsertClaimFails(plan) ==       \* refused, or the answer (or the store) is lost
    \/ UNCHANGED claim
    \/ claim = NoPlan /\ claim' = plan

(* Mutant: the pre-actuation row is not written.                           *)
RecordPreActuation_NoRow ==
    /\ At("actuate", "run") /\ Authorised
    /\ Goto("claimed")
    /\ Elsewhere /\ UNCHANGED <<failed, twinVars>>

RecordPreActuation ==
    /\ At("actuate", "run")
    /\ Authorised
    /\ \/ InsertClaim(st.winner) /\ Goto("claimed") /\ UNCHANGED failed
       \/ InsertClaimFails(st.winner) /\ Raise /\ Fault("store")
    /\ UNCHANGED <<wd, prod, pages, result, row, playbook, twinVars>>

(* The handler reads the resource first: a missing or invalid one raises,  *)
(* one already in the wanted state (and NO_ACTION) needs no patch.         *)
StartApply ==
    /\ At("actuate", "claimed")
    /\ \/ prod' = "inflight" /\ Goto("applying")
       \/ UNCHANGED prod /\ (Goto("probing") \/ Raise)
    /\ UNCHANGED <<wd, pages, result, failed, storeVars, twinVars>>

FinishApply ==
    /\ At("actuate", "applying")
    /\ \/ prod' = "mutated" /\ Goto("probing")
       \/ prod' \in {"clean", "inflight", "mutated"} /\ Raise
    /\ UNCHANGED <<wd, pages, result, failed, storeVars, twinVars>>

(* The probe recovered, or it did not and may have found things worse than *)
(* the baseline; a missing probe or a failed apply counts as not resolved. *)
ProbedOutcomes == {"resolved", "not_resolved", "worsened"}

ProbeProduction ==
    /\ At("actuate", "probing")
    /\ \/ \E o \in ProbedOutcomes :
             Return([st EXCEPT !.prodApplied = st.winner, !.prodOutcome = o,
                               !.outcome = IF o = "resolved" THEN "EXECUTED" ELSE @])
       \/ Raise
    /\ Elsewhere /\ UNCHANGED <<failed, twinVars>>

(* A patch whose caller was cancelled or timed out lands, or never does.   *)
AbandonedPatch ==
    /\ prod = "inflight" /\ ~At("actuate", "applying")
    /\ prod' \in {"clean", "mutated"}
    /\ UNCHANGED <<graphVars, wd, pages, result, failed, storeVars, twinVars>>

(***************************************************************************)
(* Telling people.  PagerDuty's answer may be lost after the page was      *)
(* delivered; a 404 for the incident is logged and treated as success,     *)
(* although nobody was paged.                                              *)
(***************************************************************************)
PostReasoning == Return(st) \/ Raise      \* delivered, or refused or unanswered

NotifySlack ==
    /\ At("notify_slack", "run")
    /\ PostReasoning
    /\ Elsewhere /\ UNCHANGED <<failed, twinVars>>

NoteAdded == pages' = pages + 1 /\ UNCHANGED failed

IncidentUnknown == UNCHANGED pages /\ Fault("notfound")

SendPage == NoteAdded \/ IncidentUnknown

PageFails == Raise /\ Fault("page")       \* the note, or the urgency after it

EscalatePagerduty ==
    /\ At("escalate_pagerduty", "run")
    /\ SendPage /\ Goto("paged")
    /\ UNCHANGED <<wd, prod, result, twinVars, storeVars>>

EscalatePagerdutyReturns ==
    /\ At("escalate_pagerduty", "paged")
    /\ Return([st EXCEPT !.outcome = "ESCALATED", !.escalated = TRUE])
    /\ Elsewhere /\ UNCHANGED <<failed, twinVars>>

EscalatePagerdutyFails ==
    /\ node = "escalate_pagerduty" /\ task = "running" /\ step # "left"
    /\ PageFails
    /\ Elsewhere /\ UNCHANGED twinVars

(***************************************************************************)
(* teardown_fleet and record_run, where any exception takes the error edge *)
(***************************************************************************)
UnregisterMirror ==
    /\ At("teardown_fleet", "run")
    /\ \E t \in st.twins \cap mirrors : mirrors' = mirrors \ {t}
    /\ Goto("run")
    /\ Elsewhere /\ UNCHANGED <<failed, cluster, pending>>

TeardownFleet ==
    /\ At("teardown_fleet", "run")
    /\ st.twins \cap mirrors = {}
    /\ cluster' = {}
    /\ Return(st)
    /\ Elsewhere /\ UNCHANGED <<failed, mirrors, pending>>

TeardownFleetFails ==
    /\ At("teardown_fleet", "run")
    /\ \/ st.twins \cap mirrors # {} /\ UNCHANGED cluster
       \/ st.twins \cap mirrors = {} /\ cluster' \in SUBSET cluster
    /\ Raise /\ Fault("cleanup")
    /\ Elsewhere /\ UNCHANGED <<mirrors, pending>>

(* RunStore.record_run: the runs table is append-only, so a second row of  *)
(* the same run is refused.                                                *)
(* Mutant: a second row of the run replaces the first.                     *)
InsertRow_Overwrites(r) == row' = r

InsertRow(r) == row = NoRow /\ row' = r

InsertFails(r) ==               \* refused, or the answer (or the store) is lost
    \/ UNCHANGED row
    \/ row = NoRow /\ row' = r

RecordRun ==
    /\ At("record_run", "run")
    /\ \/ InsertRow(RunRecord(st)) /\ Goto("inserted") /\ UNCHANGED failed
       \/ InsertFails(RunRecord(st)) /\ Raise /\ Fault("store")
    /\ UNCHANGED <<wd, prod, pages, result, claim, playbook, twinVars>>

(* Mutant: any applied plan counts as a success.                           *)
PlaybookVerdict_AppliedIsSuccess ==
    IF st.prodApplied = NoPlan THEN "none" ELSE "success"

PlaybookVerdict ==
    CASE st.prodApplied = NoPlan                        -> "none"
      [] st.prodApplied # NoPlan /\ st.prodOutcome = "resolved" -> "success"
      [] st.prodApplied \in PlaybookPlans /\ st.prodOutcome # "resolved" -> "failure"
      [] OTHER                                          -> "none"

RecordRunPlaybook ==
    /\ At("record_run", "inserted")
    /\ \/ /\ playbook' = PlaybookVerdict
          /\ Return([st EXCEPT !.outcome = ResolvedOutcome(st)])
       \/ /\ PlaybookVerdict # "none"
          /\ playbook' \in {playbook, PlaybookVerdict}
          /\ Raise
    /\ UNCHANGED <<wd, prod, pages, result, failed, claim, row, twinVars>>

(***************************************************************************)
(* cleanup_incident_twins: every unregister and the teardown are attempted *)
(* whatever the others did; only the handles in s are unregistered.        *)
(***************************************************************************)
(* Mutant: the cleanup forgets the mirror gateway.                         *)
Cleanup_TeardownOnly(s) ==
    \/ cluster' = {} /\ UNCHANGED <<mirrors, failed>>
    \/ cluster' \in SUBSET cluster /\ UNCHANGED mirrors /\ Fault("cleanup")

Cleanup(s) ==
    \/ /\ mirrors' = mirrors \ s.twins
       /\ cluster' = {}
       /\ UNCHANGED failed
    \/ /\ \E kept \in SUBSET (s.twins \cap mirrors) :
             mirrors' = (mirrors \ s.twins) \cup kept
       /\ cluster' \in SUBSET cluster
       /\ Fault("cleanup")


HandleFailureCleanup ==
    /\ At("handle_failure", "run")
    /\ Cleanup(st) /\ Goto("cleaned")
    /\ UNCHANGED <<wd, prod, pages, result, pending, storeVars>>

(* Mutant: on-call is not paged again of an incident that has its row.     *)
HandleFailurePage_UnlessRecorded ==
    /\ At("handle_failure", "cleaned")
    /\ \/ (st.escalated \/ row # NoRow) /\ UNCHANGED <<pages, failed>>
       \/ ~st.escalated /\ row = NoRow /\ SendPage
    /\ Goto("paged")
    /\ UNCHANGED <<wd, prod, result, twinVars, storeVars>>

HandleFailurePage ==
    /\ At("handle_failure", "cleaned")
    /\ \/ st.escalated /\ UNCHANGED <<pages, failed>>
       \/ ~st.escalated /\ SendPage
    /\ Goto("paged")
    /\ UNCHANGED <<wd, prod, result, twinVars, storeVars>>

(* Mutant: handle_failure swallows a failed page and goes on.              *)
HandleFailurePageFails_Swallowed ==
    /\ At("handle_failure", "cleaned") /\ ~st.escalated
    /\ Goto("paged") /\ Fault("page")
    /\ Elsewhere /\ UNCHANGED twinVars

HandleFailurePageFails ==
    /\ At("handle_failure", "cleaned") \/ At("handle_failure", "paged")
    /\ ~st.escalated
    /\ PageFails
    /\ Elsewhere /\ UNCHANGED twinVars

FailedState ==
    [st EXCEPT !.outcome = IF st.escalated THEN "ESCALATED" ELSE "FAILED",
               !.escalated = TRUE]

HandleFailureRecord ==
    /\ At("handle_failure", "paged")
    /\ \/ ~st.context /\ Return(FailedState) /\ UNCHANGED <<row, failed>>
       \/ st.context /\ InsertRow(RunRecord(FailedState)) /\ Return(FailedState)
                     /\ UNCHANGED failed
       \/ st.context /\ InsertFails(RunRecord(FailedState)) /\ Raise /\ Fault("store")
    /\ UNCHANGED <<wd, prod, pages, result, claim, playbook, twinVars>>

(***************************************************************************)
(* The watchdog, and execute_emergency_escalation, which works from the    *)
(* tracker's snapshot and swallows every failure it meets.                 *)
(***************************************************************************)
(* Mutant: the watchdog looks at its timer only between nodes.             *)
WatchdogFires_BetweenNodes ==
    /\ wd = "sleeping" /\ task = "running" /\ step = "left"
    /\ wd' = "cleanup" /\ task' = "cancelled"
    /\ UNCHANGED <<st, tracked, node, step, prod, pages, result, failed,
                   twinVars, storeVars>>

WatchdogFires ==
    /\ wd = "sleeping" /\ task = "running"
    /\ wd' = "cleanup" /\ task' = "cancelled"
    /\ UNCHANGED <<st, tracked, node, step, prod, pages, result, failed,
                   twinVars, storeVars>>

EmergencyCleanup ==
    /\ wd = "cleanup"
    /\ Cleanup(tracked)
    /\ wd' = "page"
    /\ UNCHANGED <<graphVars, prod, pages, result, pending, storeVars>>

(* Mutant: the emergency escalation does not page.                         *)
EmergencyPage_Skipped ==
    /\ wd = "page"
    /\ wd' = "record"
    /\ UNCHANGED <<graphVars, prod, pages, result, failed, twinVars, storeVars>>

EmergencyPage ==
    /\ wd = "page"
    /\ \/ SendPage
       \/ pages' \in {pages, pages + 1} /\ Fault("page")
    /\ wd' = "record"
    /\ UNCHANGED <<graphVars, prod, result, twinVars, storeVars>>

(* Mutant: a timed out run records a production outcome of its own.        *)
EscalatedState_TimedOut == [tracked EXCEPT !.outcome = "ESCALATED", !.prodOutcome = "timed_out"]

EscalatedState == [tracked EXCEPT !.outcome = "ESCALATED", !.escalated = TRUE]

EmergencyRecord ==
    /\ wd = "record"
    /\ \/ ~tracked.context /\ UNCHANGED <<row, failed>>
       \/ tracked.context /\ InsertRow(RunRecord(EscalatedState)) /\ UNCHANGED failed
       \/ tracked.context /\ InsertFails(RunRecord(EscalatedState)) /\ Fault("store")
    /\ wd' = "timed_out"
    /\ UNCHANGED <<graphVars, prod, pages, result, claim, playbook, twinVars>>

(* run_incident hands back the stored row; failing that, a record built    *)
(* from the final state, or an error.                                      *)
ReturnResult ==
    /\ result = "none"
    /\ task = "done" \/ wd = "timed_out"
    /\ result' = IF row # NoRow THEN "stored"
                 ELSE IF task = "done" /\ st.context THEN "unstored"
                 ELSE "raised"
    /\ UNCHANGED <<graphVars, wd, prod, pages, failed, twinVars, storeVars>>

-----------------------------------------------------------------------------
ProductionStep ==
    \/ ActuateRefused \/ RecordPreActuation \/ StartApply \/ FinishApply
    \/ ProbeProduction

NodeStep ==
    \/ Ingest \/ GatherContext \/ PlanCandidates \/ ForkRefused \/ StartFork
    \/ ForkFleet \/ ForkFleetFails \/ RegisterMirror \/ RegisterMirrors \/ ApplyCandidates
    \/ Observe \/ Tournament \/ SafetyKernel
    \/ ProductionStep
    \/ NotifySlack
    \/ EscalatePagerduty \/ EscalatePagerdutyReturns \/ EscalatePagerdutyFails
    \/ UnregisterMirror \/ TeardownFleet \/ TeardownFleetFails
    \/ RecordRun \/ RecordRunPlaybook
    \/ HandleFailureCleanup \/ HandleFailurePage \/ HandleFailurePageFails
    \/ HandleFailureRecord

WatchdogStep == EmergencyCleanup \/ EmergencyPage \/ EmergencyRecord

(* run_incident has returned and no abandoned call is still to end.        *)
Ended == result # "none" /\ prod # "inflight" /\ pending = {} /\ UNCHANGED vars

Next ==
    \/ NodeStep \/ Route
    \/ WatchdogFires \/ WatchdogStep
    \/ CreateTwin \/ AbandonedPatch
    \/ ReturnResult
    \/ Ended

Spec == Init /\ [][Next]_vars

(* The awaits of the graph task that end in a call of the store, whose     *)
(* connections time out neither on connecting nor on a statement.          *)
StoreCalls ==
    {<<"plan_candidates", "run">>, <<"safety_kernel", "run">>, <<"actuate", "run">>,
     <<"record_run", "run">>, <<"record_run", "inserted">>, <<"handle_failure", "paged">>}

AwaitsStore == task = "running" /\ <<node, step>> \in StoreCalls

(***************************************************************************)
(* Fairness.  A node's awaited call may hang for ever, so no node step is  *)
(* fair.  The event loop does run the watchdog's timer, and an await that  *)
(* is cancelled lets go, except perhaps one of the store, whose driver     *)
(* talks to the server to cancel.  The calls of the emergency cleanup and  *)
(* of its page have timeouts.  Its row, and the read of the row that ends  *)
(* run_incident, are calls of the store too: nothing is assumed of them.   *)
(***************************************************************************)
Fairness ==
    /\ WF_vars(~AwaitsStore /\ WatchdogFires)
    /\ WF_vars(EmergencyCleanup)
    /\ WF_vars(EmergencyPage)

FairSpec == Spec /\ Fairness

(***************************************************************************)
(* Properties                                                              *)
(***************************************************************************)
TypeOK ==
    /\ st \in States /\ tracked \in States
    /\ node \in Nodes \cup {"END"} /\ step \in Steps
    /\ task \in {"running", "cancelled", "done"} /\ (task = "done" <=> node = "END")
    /\ wd \in {"sleeping", "cleanup", "page", "record", "timed_out"}
    /\ mirrors \in SUBSET Plans /\ cluster \in SUBSET Plans /\ pending \in SUBSET Plans
    /\ prod \in {"clean", "inflight", "mutated"}
    /\ claim \in OptPlan /\ row \in Rows
    /\ pages \in Nat
    /\ playbook \in {"none", "success", "failure"}
    /\ result \in {"none", "stored", "unstored", "raised"}
    /\ failed \in SUBSET {"page", "notfound", "store", "cleanup"}

(* Production is changed, or is being changed, only under a durable        *)
(* pre-actuation row that names the very plan the kernel passed (K10), and *)
(* this stays true while failures, a late patch and the watchdog unwind    *)
(* the run: K5 and K7 count on that row.                                   *)
MutationClaimed ==
    prod # "clean" => claim # NoPlan /\ claim = st.winner /\ Authorised

(* Whenever the watchdog strikes, the tracker's snapshot names every twin  *)
(* that receives mirrored traffic, so the emergency cleanup can stop it.   *)
MirrorsTracked == mirrors \subseteq tracked.twins

(* The final row never claims more than happened: an EXECUTED row is of a  *)
(* plan that was claimed and whose production probe saw the recovery, and  *)
(* a plan named by the row is the claimed one.                             *)
RowIsTrue ==
    /\ row.outcome = "EXECUTED" => row.prodOutcome = "resolved" /\ row.applied # NoPlan
    /\ row.applied # NoPlan => row.applied = claim

(* The playbook library learns from a run only what its row will say:      *)
(* success of an EXECUTED run, failure of an escalated playbook plan.      *)
PlaybookAgreesWithRow ==
    /\ playbook = "success" => row.outcome = "EXECUTED"
    /\ playbook = "failure" =>
          row.outcome = "ESCALATED" /\ row.applied \in PlaybookPlans

(* What a run leaves in the store, its final row (append-only, inserted by *)
(* three different hands) and its playbook write, agrees with what it did. *)
RecordSound == RowIsTrue /\ PlaybookAgreesWithRow

(* Without a watchdog timeout, escalate_pagerduty, the error edge after it *)
(* and handle_failure page on-call at most once between them, unless a     *)
(* paging call itself failed.                                              *)
GraphPagesOnce ==
    pages > 1 => wd # "sleeping" \/ "page" \in failed

(* No incident ends in silence: either production was seen to recover, or  *)
(* on-call was paged, or paging was tried and failed (a 404 included).     *)
NoSilentEnd ==
    result # "none" /\ pages = 0 /\ failed \cap {"page", "notfound"} = {}
        => row.outcome = "EXECUTED"

(* A row that is not EXECUTED is written after on-call was paged; only the *)
(* watchdog writes one although its page failed.                           *)
UnresolvedRowsPaged ==
    row.outcome \in {"ESCALATED", "FAILED"} /\ pages = 0
        => "notfound" \in failed \/ ("page" \in failed /\ wd = "timed_out")

(* On-call hears of every run that did not resolve its incident, and hears *)
(* of it once, up to the failures of the paging service itself.            *)
PagingSound == GraphPagesOnce /\ NoSilentEnd /\ UnresolvedRowsPaged

(* However the run ends, a mirror is left registered only if a cleanup     *)
(* call failed, and a twin is left only if a cleanup call failed or the    *)
(* fork itself was abandoned before its handles reached the state.         *)
OnlyFailedCleanupLeaks ==
    result # "none" /\ "cleanup" \notin failed =>
        mirrors = {} /\ (cluster # {} => tracked.twins = {} /\ st.twins = {})

(* The control loop, with its failures and its watchdog, keeps the promises*)
(* of IncidentContract; on-call counts as called once paging was tried.    *)
Contract == INSTANCE IncidentContract WITH
    row    <- [outcome |-> row.outcome, applied |-> row.applied],
    called <- pages > 0 \/ failed \cap {"page", "notfound"} # {},
    over   <- result # "none"

KeepsContract == Contract!Spec

(* Whatever call of whatever node hangs for ever, unless it is one of the  *)
(* store: in the end the graph task is done, or the emergency escalation   *)
(* has cleaned up and has tried to page on-call.  It pages before it       *)
(* writes, so that a hanging store cannot keep the page back.  That        *)
(* run_incident returns is not promised: it awaits the store to do so.     *)
HungNodeEscalates ==
    \/ <>(task = "done" \/ wd \in {"record", "timed_out"})
    \/ <>[]AwaitsStore

=============================================================================
