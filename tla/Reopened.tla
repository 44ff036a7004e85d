------------------------------- MODULE Reopened -------------------------------
(***************************************************************************)
(* An incident whose alert comes more than once: PagerDuty reopens it, or  *)
(* delivers a webhook again, or the process dies and the alert is raised   *)
(* anew.  Every alert of one PagerDuty incident has the same id, so every  *)
(* run of it has the same incident id, the same thread and the same keys   *)
(* in the runs table.                                                      *)
(*                                                                         *)
(* A run starts from a fresh state (no checkpoint store is wired), amid    *)
(* what earlier runs left: rows, twins, mirrors, production.  The queue of *)
(* the receiver lives in memory, and no process but a run's own knows of   *)
(* its watchdog: a crash takes all of them.                                *)
(***************************************************************************)
EXTENDS ControlLoop, Sequences, SequencesExt

CONSTANT MaxAlerts   \* bound on the alerts that are accepted

ASSUME MaxAlertsAssumption == MaxAlerts \in Nat \ {0}

VARIABLES
    accepted,  \* how many alerts were accepted
    queue,     \* the incidents of the alerts in the receiver's queue
    running,   \* a run of the incident has been started and has not crashed
    called,    \* history: on-call was paged, or paging was tried, in any run
    inherited  \* history: the mirrors that were registered when the run began

intakeVars == <<accepted, queue, running>>

reopenedVars == <<vars, intakeVars, called, inherited>>

ReopenedInit ==
    /\ Init
    /\ accepted = 0 /\ queue = <<>> /\ running = FALSE
    /\ called = FALSE /\ inherited = {}

-------------------------------------------------------------------------------
(***************************************************************************)
(* The webhook receiver.  A payload is a list of messages: one in format 3 *)
(* and in the direct format, any number in format 2, of which the first    *)
(* that is a trigger counts.                                               *)
(***************************************************************************)
Messages == [event : {"triggered", "reopened", "other"}, incident : {"this", "another"}]

Payloads == BoundedSeq(Messages, 2)

IsTrigger(message) == message.event \in {"triggered", "reopened"}

(* The incident of the alert, or none.                                     *)
ParseWebhook(payload) ==
    LET triggers == SelectSeq(payload, IsTrigger)
    IN  IF triggers = <<>> THEN "none" ELSE Head(triggers).incident

(* The header may carry several signatures, of which one has to match.     *)
VerifySignature(header) == "valid" \in header

EnqueueAlert(incident) ==
    /\ accepted < MaxAlerts
    /\ accepted' = accepted + 1 /\ queue' = Append(queue, incident)

(* A signature that does not match is refused, another event ignored.      *)
HandleWebhook ==
    /\ \E payload \in Payloads, header \in SUBSET {"valid", "wrong"} :
          /\ VerifySignature(header) /\ ParseWebhook(payload) # "none"
          /\ EnqueueAlert(ParseWebhook(payload))
    /\ UNCHANGED <<vars, running, called, inherited>>

(* The injection endpoint takes any alert id, and asks for no signature.   *)
InjectAlert ==
    /\ \E incident \in {"this", "another"} : EnqueueAlert(incident)
    /\ UNCHANGED <<vars, running, called, inherited>>

-------------------------------------------------------------------------------
(***************************************************************************)
(* run_incident, called with each alert that is received: the state, the   *)
(* tracker and the watchdog are new.  The threads of an earlier run that   *)
(* timed out have ended by then (pending); a patch of production that they *)
(* sent may still be on its way.                                           *)
(***************************************************************************)
FreshRun ==
    /\ st' = InitialState /\ tracked' = InitialState
    /\ node' = "ingest" /\ step' = "run" /\ task' = "running" /\ wd' = "sleeping"
    /\ pages' = 0 /\ result' = "none" /\ failed' = {}

RunIncident ==
    /\ queue # <<>> /\ Head(queue) = "this"
    /\ running => result # "none"
    /\ pending = {}
    /\ queue' = Tail(queue) /\ running' = TRUE
    /\ FreshRun
    /\ inherited' = mirrors
    /\ UNCHANGED <<accepted, called, prod, storeVars, twinVars>>

(* The run of another incident; SingleWriter has runs that meet.           *)
RunAnother ==
    /\ queue # <<>> /\ Head(queue) = "another"
    /\ queue' = Tail(queue)
    /\ UNCHANGED <<vars, accepted, running, called, inherited>>

(* The process dies, at any moment: its queue, its run and its watchdog    *)
(* are gone; a twin that was being created is left behind or not.          *)
Crash ==
    /\ running \/ queue # <<>>
    /\ running' = FALSE /\ queue' = <<>>
    /\ FreshRun
    /\ pending' = {}
    /\ \E landed \in SUBSET pending : cluster' = cluster \cup landed
    /\ UNCHANGED <<accepted, called, inherited, prod, mirrors, storeVars>>

(* A step of the run in progress, of its watchdog or of its caller.        *)
RunStep ==
    /\ running
    /\ NodeStep \/ Route \/ WatchdogFires \/ WatchdogStep \/ ReturnResult
    /\ called' = (called \/ pages' > 0 \/ failed' \cap {"page", "notfound"} # {})
    /\ UNCHANGED <<intakeVars, inherited>>

(* Calls whose caller is gone.                                             *)
AbandonedCall ==
    /\ CreateTwin \/ AbandonedPatch
    /\ UNCHANGED <<intakeVars, called, inherited>>

(* No alert is left, no run and no call.                                   *)
Quiet ==
    /\ accepted = MaxAlerts /\ queue = <<>>
    /\ running => result # "none"
    /\ prod # "inflight" /\ pending = {}
    /\ UNCHANGED reopenedVars

ReopenedNext ==
    \/ HandleWebhook \/ InjectAlert \/ RunIncident \/ RunAnother \/ Crash
    \/ RunStep \/ AbandonedCall
    \/ Quiet

ReopenedSpec == ReopenedInit /\ [][ReopenedNext]_reopenedVars

-------------------------------------------------------------------------------
(* The one final row of an incident may belong to a run that changed       *)
(* nothing, while an earlier or a later run changed production: whenever   *)
(* the row does not name the plan that was claimed for production, on-call *)
(* was called (execute_emergency_escalation, handle_failure, record_run).  *)
UnrecordedChangesCalled ==
    prod # "clean" /\ row # NoRow /\ row.applied # claim => called

(* A run that does not itself see production recover pages on-call or      *)
(* tries to, also when an earlier run's row says EXECUTED or ESCALATED and *)
(* run_incident hands that row back (handle_failure, run_incident).        *)
NoSilentRun ==
    result # "none" /\ pages = 0 /\ failed \cap {"page", "notfound"} = {}
        => st.prodOutcome = "resolved"

(* Whatever crashed or failing runs left behind, a run that returns with   *)
(* no cleanup call failed leaves no mirror but those it inherited, and no  *)
(* twin, its own or another's, unless its fork was abandoned before its    *)
(* handles reached the state (teardown_all goes by label, the mirrors by   *)
(* handle).                                                                *)
OnlyInheritedLeaks ==
    result # "none" /\ "cleanup" \notin failed =>
        /\ mirrors \subseteq inherited
        /\ cluster # {} => tracked.twins = {} /\ st.twins = {}
===============================================================================
