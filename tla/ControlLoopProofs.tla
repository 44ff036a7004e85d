-------------------------- MODULE ControlLoopProofs --------------------------
(***************************************************************************)
(* Proofs about the control loop, for any sets of plans: what it claims,   *)
(* tracks and cleans up; what it tells of a run; that it keeps the         *)
(* contract of an incident run; and what remains true when an incident is  *)
(* run again after a crash or a second alert.                              *)
(***************************************************************************)
EXTENDS Reopened, TLAPS

USE PlansAssumption

(* The two halves of TypeOK: where the graph task is, and all the rest.    *)
GraphOK ==
    /\ st \in States /\ tracked \in States
    /\ node \in Nodes \cup {"END"} /\ step \in Steps
    /\ task \in {"running", "cancelled", "done"} /\ (task = "done" <=> node = "END")

EnvOK ==
    /\ wd \in {"sleeping", "cleanup", "page", "record", "timed_out"}
    /\ mirrors \in SUBSET Plans /\ cluster \in SUBSET Plans /\ pending \in SUBSET Plans
    /\ prod \in {"clean", "inflight", "mutated"}
    /\ claim \in OptPlan /\ row \in Rows
    /\ pages \in Nat
    /\ playbook \in {"none", "success", "failure"}
    /\ result \in {"none", "stored", "unstored", "raised"}
    /\ failed \in SUBSET {"page", "notfound", "store", "cleanup"}

LEMMA TypeHalves == TypeOK <=> GraphOK /\ EnvOK
  BY DEF TypeOK, GraphOK, EnvOK

(* The updates nodes return keep the state a state.                        *)
LEMMA StateUpdates ==
    ASSUME NEW s \in States
    PROVE  /\ [s EXCEPT !.errors = TRUE] \in States
           /\ [s EXCEPT !.context = TRUE] \in States
           /\ \A ps \in SUBSET Plans : /\ [s EXCEPT !.plans = @ \cup ps] \in States
                                      /\ [s EXCEPT !.twins = @ \cup ps] \in States
           /\ \A t \in Tournaments, w \in OptPlan :
                 [s EXCEPT !.tournament = t, !.winner = w] \in States
           /\ \A o \in Outcomes : /\ [s EXCEPT !.outcome = o] \in States
                                 /\ [s EXCEPT !.outcome = o, !.escalated = TRUE] \in
                                    States
           /\ \A v \in Verdicts, w \in OptPlan, o \in Outcomes :
                 [s EXCEPT !.verdict = v, !.verdictPlan = w, !.outcome = o] \in States
           /\ \A w \in OptPlan, p \in ProdOutcomes, o \in Outcomes :
                 [s EXCEPT !.prodApplied = w, !.prodOutcome = p, !.outcome = o] \in States
  BY DEF States

LEMMA StateFields ==
    ASSUME NEW s \in States
    PROVE  /\ s.plans \in SUBSET Plans /\ s.twins \in SUBSET Plans
           /\ s.outcome \in Outcomes /\ s.prodOutcome \in ProdOutcomes
           /\ s.winner \in OptPlan /\ s.prodApplied \in OptPlan
           /\ s.errors \in BOOLEAN /\ s.escalated \in BOOLEAN /\ s.context \in BOOLEAN
  BY DEF States

LEMMA Constants ==
    /\ {"none", "EXECUTED", "ESCALATED", "FAILED"} \subseteq Outcomes
    /\ {"resolved", "not_resolved", "worsened"} \subseteq ProdOutcomes
    /\ {"DECIDED", "AMBIGUOUS", "NO_VIABLE_CANDIDATE"} \subseteq Tournaments
    /\ {"PASS", "VETO", "UNCERTAIN"} \subseteq Verdicts
    /\ {"run", "forking", "claimed", "applying", "probing", "inserted", "cleaned",
        "paged", "left"} \subseteq Steps
    /\ Plans \subseteq OptPlan /\ NoPlan \in OptPlan
  BY DEF Outcomes, ProdOutcomes, Tournaments, Verdicts, Steps, OptPlan

(* What a node does to the graph task: it returns, raises or awaits.       *)
LEMMA TaskMoves ==
    ASSUME GraphOK
    PROVE  /\ \A s \in States : Return(s) => GraphOK'
           /\ Raise => GraphOK'
           /\ \A at \in Steps : Goto(at) => GraphOK'
           /\ UNCHANGED graphVars => GraphOK'
<1>1. ASSUME NEW s \in States, Return(s) PROVE GraphOK'
  BY <1>1, Constants DEF GraphOK, Return
<1>2. [st EXCEPT !.errors = TRUE] \in States
  BY StateUpdates DEF GraphOK
<1>3. Raise => GraphOK'
  BY <1>1, <1>2 DEF Raise
<1>4. ASSUME NEW at \in Steps, Goto(at) PROVE GraphOK'
  BY <1>4 DEF GraphOK, Goto
<1>5. UNCHANGED graphVars => GraphOK'
  BY DEF GraphOK, graphVars
<1> QED
  BY <1>1, <1>3, <1>4, <1>5

LEMMA RecordTypes ==
    ASSUME NEW s \in States
    PROVE  ResolvedOutcome(s) \in Outcomes /\ RunRecord(s) \in Rows
<1>1. ResolvedOutcome(s) \in Outcomes
  BY StateFields, Constants DEF ResolvedOutcome
<1>2. RunRecord(s) \in Rows
  BY <1>1, StateFields DEF RunRecord, Rows
<1> QED
  BY <1>1, <1>2

LEMMA RouteTypes ==
    ASSUME GraphOK, Route
    PROVE  GraphOK'
<1>1. NextNode(st, node) \in Nodes \cup {"END"}
  <2>1. CASE node = "tournament"
    BY <2>1 DEF NextNode, RouteTournament, Nodes
  <2>2. CASE node = "safety_kernel"
    BY <2>2 DEF NextNode, RouteSafetyKernel, Nodes
  <2>3. CASE node = "actuate"
    BY <2>3 DEF NextNode, RouteActuation, Nodes
  <2>4. CASE node = "handle_failure"
    BY <2>4 DEF NextNode, Nodes
  <2>5. CASE node \in DOMAIN LinearNext
    <3>1. LinearNext[node] \in Nodes \cup {"END"}
      BY <2>5 DEF LinearNext, Nodes
    <3>2. NextNode(st, node) = RouteLinear(st, node)
      BY <2>5 DEF NextNode, LinearNext
    <3> QED
      BY <3>1, <3>2 DEF RouteLinear, Nodes
  <2>6. node \in DOMAIN LinearNext
          \cup {"tournament", "safety_kernel", "actuate", "handle_failure"}
    BY DEF Route, GraphOK, Nodes, LinearNext
  <2> QED
    BY <2>1, <2>2, <2>3, <2>4, <2>5, <2>6
<1> QED
  BY <1>1, Constants DEF Route, GraphOK

LEMMA RehearsalTypes ==
    ASSUME GraphOK,
           Ingest \/ GatherContext \/ PlanCandidates \/ ForkRefused \/
           StartFork \/ ForkFleet \/ ForkFleetFails \/ RegisterMirror \/
           RegisterMirrors \/ ApplyCandidates \/ Observe \/ Tournament \/
           SafetyKernel
    PROVE  GraphOK'
<1> st \in States
  BY DEF GraphOK
<1>1. CASE Ingest
  BY <1>1, TaskMoves, StateUpdates, StateFields, Constants DEF Ingest
<1>2. CASE GatherContext
  BY <1>2, TaskMoves, StateUpdates, StateFields, Constants DEF GatherContext
<1>3. CASE PlanCandidates
  BY <1>3, TaskMoves, StateUpdates, StateFields, Constants DEF PlanCandidates
<1>4. CASE ForkRefused
  BY <1>4, TaskMoves, StateUpdates, StateFields, Constants DEF ForkRefused
<1>5. CASE StartFork
  BY <1>5, TaskMoves, StateUpdates, StateFields, Constants DEF StartFork
<1>6. CASE ForkFleet
  BY <1>6, TaskMoves, StateUpdates, StateFields, Constants DEF ForkFleet
<1>7. CASE ForkFleetFails
  BY <1>7, TaskMoves, StateUpdates, StateFields, Constants DEF ForkFleetFails,
     NodeTimesOut
<1>8. CASE RegisterMirror
  BY <1>8, TaskMoves, StateUpdates, StateFields, Constants DEF RegisterMirror
<1>9. CASE RegisterMirrors
  BY <1>9, TaskMoves, StateUpdates, StateFields, Constants DEF RegisterMirrors
<1>10. CASE ApplyCandidates
  BY <1>10, TaskMoves, StateUpdates, StateFields, Constants DEF ApplyCandidates,
     NodeTimesOut
<1>11. CASE Observe
  BY <1>11, TaskMoves, StateUpdates, StateFields, Constants DEF Observe, NodeTimesOut
<1>12. CASE Tournament
  BY <1>12, TaskMoves, StateUpdates, StateFields, Constants DEF Tournament
<1>13. CASE SafetyKernel
  BY <1>13, TaskMoves, StateUpdates, StateFields, Constants DEF SafetyKernel, NodeTimesOut
<1> QED
  BY <1>1, <1>2, <1>3, <1>4, <1>5, <1>6, <1>7, <1>8, <1>9, <1>10, <1>11, <1>12, <1>13

LEMMA ProductionTypes ==
    ASSUME GraphOK,
           ActuateRefused \/ RecordPreActuation \/ StartApply \/ FinishApply
           \/ ProbeProduction
    PROVE  GraphOK'
<1> st \in States
  BY DEF GraphOK
<1>1. CASE ActuateRefused
  BY <1>1, TaskMoves, StateUpdates, StateFields, Constants DEF ActuateRefused
<1>2. CASE RecordPreActuation
  BY <1>2, TaskMoves, StateUpdates, StateFields, Constants DEF RecordPreActuation,
     InsertClaim, InsertClaimFails
<1>3. CASE StartApply
  BY <1>3, TaskMoves, StateUpdates, StateFields, Constants DEF StartApply
<1>4. CASE FinishApply
  BY <1>4, TaskMoves, StateUpdates, StateFields, Constants DEF FinishApply
<1>5. CASE ProbeProduction
  BY <1>5, TaskMoves, StateUpdates, StateFields, Constants DEF ProbeProduction,
     ProbedOutcomes
<1> QED
  BY <1>1, <1>2, <1>3, <1>4, <1>5

LEMMA ExitTypes ==
    ASSUME GraphOK,
           NotifySlack \/ EscalatePagerduty \/ EscalatePagerdutyReturns \/
           EscalatePagerdutyFails \/ UnregisterMirror \/ TeardownFleet \/
           TeardownFleetFails \/ RecordRun \/ RecordRunPlaybook \/
           HandleFailureCleanup \/ HandleFailurePage \/
           HandleFailurePageFails \/ HandleFailureRecord
    PROVE  GraphOK'
<1> st \in States
  BY DEF GraphOK
<1>1. CASE NotifySlack
  BY <1>1, TaskMoves, StateUpdates, StateFields, Constants DEF NotifySlack, PostReasoning
<1>2. CASE EscalatePagerduty
  BY <1>2, TaskMoves, StateUpdates, StateFields, Constants DEF EscalatePagerduty
<1>3. CASE EscalatePagerdutyReturns
  BY <1>3, TaskMoves, StateUpdates, StateFields, Constants DEF EscalatePagerdutyReturns
<1>4. CASE EscalatePagerdutyFails
  BY <1>4, TaskMoves, StateUpdates, StateFields, Constants DEF
     EscalatePagerdutyFails, PageFails
<1>5. CASE UnregisterMirror
  BY <1>5, TaskMoves, StateUpdates, StateFields, Constants DEF UnregisterMirror
<1>6. CASE TeardownFleet
  BY <1>6, TaskMoves, StateUpdates, StateFields, Constants DEF TeardownFleet
<1>7. CASE TeardownFleetFails
  BY <1>7, TaskMoves, StateUpdates, StateFields, Constants DEF TeardownFleetFails
<1>8. CASE RecordRun
  BY <1>8, TaskMoves, StateUpdates, StateFields, Constants DEF RecordRun
<1>9. CASE RecordRunPlaybook
  BY <1>9, TaskMoves, StateUpdates, StateFields, Constants, RecordTypes DEF
     RecordRunPlaybook
<1>10. CASE HandleFailureCleanup
  BY <1>10, TaskMoves, StateUpdates, StateFields, Constants DEF HandleFailureCleanup
<1>11. CASE HandleFailurePage
  BY <1>11, TaskMoves, StateUpdates, StateFields, Constants DEF HandleFailurePage
<1>12. CASE HandleFailurePageFails
  BY <1>12, TaskMoves, StateUpdates, StateFields, Constants DEF
     HandleFailurePageFails, PageFails
<1>13. CASE HandleFailureRecord
  BY <1>13, TaskMoves, StateUpdates, StateFields, Constants DEF HandleFailureRecord,
     FailedState
<1> QED
  BY <1>1, <1>2, <1>3, <1>4, <1>5, <1>6, <1>7, <1>8, <1>9, <1>10, <1>11, <1>12, <1>13

(* A page that is sent is counted.                                         *)
LEMMA SendPageTypes ==
    ASSUME EnvOK, SendPage
    PROVE  pages' \in Nat /\ failed' \in SUBSET {"page", "notfound", "store", "cleanup"}
<1>1. pages \in Nat /\ failed \in SUBSET {"page", "notfound", "store", "cleanup"}
  BY DEF EnvOK
<1>2. pages + 1 \in Nat
  BY <1>1
<1>3. failed \cup {"notfound"} \in SUBSET {"page", "notfound", "store", "cleanup"}
  BY <1>1
<1> QED
  BY <1>1, <1>2, <1>3 DEF SendPage, NoteAdded, IncidentUnknown, Fault

LEMMA EnvTypes ==
    ASSUME GraphOK, EnvOK, Next
    PROVE  EnvOK'
<1> USE DEF EnvOK, Elsewhere, twinVars, storeVars
<1>1. /\ st \in States /\ tracked \in States
      /\ st.plans \in SUBSET Plans /\ st.winner \in OptPlan
  BY StateFields DEF GraphOK
<1>2. FailedState \in States
  BY <1>1, StateUpdates, Constants DEF FailedState
<1>3. EscalatedState \in States
  BY <1>1, StateUpdates, Constants DEF EscalatedState
<1>4. CASE Ingest
  BY <1>4, <1>1 DEF Ingest
<1>5. CASE GatherContext
  BY <1>5, <1>1 DEF GatherContext
<1>6. CASE PlanCandidates
  BY <1>6, <1>1 DEF PlanCandidates
<1>7. CASE ForkRefused
  BY <1>7, <1>1 DEF ForkRefused
<1>8. CASE StartFork
  BY <1>8, <1>1 DEF StartFork
<1>9. CASE ForkFleet
  BY <1>9, <1>1 DEF ForkFleet
<1>10. CASE ForkFleetFails
  BY <1>10, <1>1 DEF ForkFleetFails, NodeTimesOut
<1>11. CASE RegisterMirror
  <2>1. st.twins \in SUBSET Plans
    BY StateFields DEF GraphOK
  <2>2. mirrors' \in SUBSET Plans
    BY <1>11, <2>1 DEF RegisterMirror
  <2> QED
    BY <1>11, <2>2 DEF RegisterMirror
<1>12. CASE RegisterMirrors
  BY <1>12, <1>1 DEF RegisterMirrors
<1>13. CASE ApplyCandidates
  BY <1>13, <1>1 DEF ApplyCandidates, NodeTimesOut
<1>14. CASE Observe
  BY <1>14, <1>1 DEF Observe, NodeTimesOut
<1>15. CASE Tournament
  BY <1>15, <1>1 DEF Tournament
<1>16. CASE SafetyKernel
  BY <1>16, <1>1 DEF SafetyKernel, NodeTimesOut
<1>17. CASE ActuateRefused
  BY <1>17, <1>1 DEF ActuateRefused
<1>18. CASE RecordPreActuation
  BY <1>18, <1>1 DEF RecordPreActuation, InsertClaim, InsertClaimFails, Authorised, Fault
<1>19. CASE StartApply
  BY <1>19, <1>1 DEF StartApply
<1>20. CASE FinishApply
  BY <1>20, <1>1 DEF FinishApply
<1>21. CASE ProbeProduction
  BY <1>21, <1>1 DEF ProbeProduction, ProbedOutcomes
<1>22. CASE NotifySlack
  BY <1>22, <1>1 DEF NotifySlack, PostReasoning
<1>23. CASE EscalatePagerduty
  <2>1. pages' \in Nat /\ failed' \in SUBSET {"page", "notfound", "store", "cleanup"}
    BY <1>23, SendPageTypes DEF EscalatePagerduty, Fault
  <2> QED
    BY <1>23, <2>1 DEF EscalatePagerduty
<1>24. CASE EscalatePagerdutyReturns
  BY <1>24, <1>1 DEF EscalatePagerdutyReturns
<1>25. CASE EscalatePagerdutyFails
  BY <1>25, <1>1 DEF EscalatePagerdutyFails, PageFails, Fault
<1>26. CASE UnregisterMirror
  BY <1>26, <1>1 DEF UnregisterMirror
<1>27. CASE TeardownFleet
  BY <1>27, <1>1 DEF TeardownFleet
<1>28. CASE TeardownFleetFails
  BY <1>28, <1>1 DEF TeardownFleetFails, Fault
<1>29. CASE RecordRun
  BY <1>29, <1>1, RecordTypes DEF RecordRun, InsertRow, InsertFails, Fault
<1>30. CASE RecordRunPlaybook
  BY <1>30, <1>1 DEF RecordRunPlaybook, PlaybookVerdict
<1>31. CASE HandleFailureCleanup
  BY <1>31, <1>1 DEF HandleFailureCleanup, Cleanup, Fault
<1>32. CASE HandleFailurePage
  <2>1. pages' \in Nat /\ failed' \in SUBSET {"page", "notfound", "store", "cleanup"}
    BY <1>32, SendPageTypes DEF HandleFailurePage, Fault
  <2> QED
    BY <1>32, <2>1 DEF HandleFailurePage
<1>33. CASE HandleFailurePageFails
  BY <1>33, <1>1 DEF HandleFailurePageFails, PageFails, Fault
<1>34. CASE HandleFailureRecord
  BY <1>34, <1>1, RecordTypes, <1>2 DEF HandleFailureRecord, InsertRow, InsertFails, Fault
<1>35. CASE Route
  BY <1>35, <1>1 DEF Route
<1>36. CASE WatchdogFires
  BY <1>36, <1>1 DEF WatchdogFires
<1>37. CASE EmergencyCleanup
  BY <1>37, <1>1 DEF EmergencyCleanup, Cleanup, Fault
<1>38. CASE EmergencyPage
  <2>1. pages' \in Nat /\ failed' \in SUBSET {"page", "notfound", "store", "cleanup"}
    <3>1. CASE SendPage
      BY <3>1, SendPageTypes
    <3>2. CASE pages' \in {pages, pages + 1} /\ Fault("page")
      <4>1. pages \in Nat /\ pages + 1 \in Nat
        OBVIOUS
      <4>2. failed \cup {"page"} \in SUBSET {"page", "notfound", "store", "cleanup"}
        OBVIOUS
      <4> QED
        BY <3>2, <4>1, <4>2 DEF Fault
    <3> QED
      BY <1>38, <3>1, <3>2 DEF EmergencyPage
  <2> QED
    BY <1>38, <2>1 DEF EmergencyPage
<1>39. CASE EmergencyRecord
  BY <1>39, <1>1, RecordTypes, <1>3 DEF EmergencyRecord, InsertRow, InsertFails, Fault
<1>40. CASE CreateTwin
  BY <1>40, <1>1 DEF CreateTwin
<1>41. CASE AbandonedPatch
  BY <1>41, <1>1 DEF AbandonedPatch
<1>42. CASE ReturnResult
  BY <1>42, <1>1 DEF ReturnResult
<1>43. CASE Ended
  BY <1>43 DEF Ended, vars
<1> QED
  BY <1>4, <1>5, <1>6, <1>7, <1>8, <1>9, <1>10, <1>11, <1>12, <1>13, <1>14, <1>15,
     <1>16, <1>17, <1>18, <1>19, <1>20, <1>21, <1>22, <1>23, <1>24, <1>25, <1>26,
     <1>27, <1>28, <1>29, <1>30, <1>31, <1>32, <1>33, <1>34, <1>35, <1>36, <1>37,
     <1>38, <1>39, <1>40, <1>41, <1>42, <1>43
     DEF Next, NodeStep, ProductionStep, WatchdogStep

(* Every step keeps the types.                                            *)
LEMMA TypeNext ==
    ASSUME TypeOK, [Next]_vars
    PROVE  TypeOK'
<1>1. GraphOK /\ EnvOK
  BY TypeHalves
<1>2. CASE Next
  <2>1. EnvOK'
    BY <1>1, <1>2, EnvTypes
  <2>2. GraphOK'
    <3>1. CASE NodeStep
      BY <3>1, <1>1, RehearsalTypes, ProductionTypes, ExitTypes DEF NodeStep,
         ProductionStep
    <3>2. CASE Route
      BY <3>2, <1>1, RouteTypes
    <3>3. CASE WatchdogFires
      BY <3>3, <1>1 DEF WatchdogFires, GraphOK
    <3>4. CASE WatchdogStep \/ CreateTwin \/ AbandonedPatch \/ ReturnResult \/ Ended
      <4>1. UNCHANGED graphVars
        BY <3>4 DEF WatchdogStep, EmergencyCleanup, EmergencyPage, EmergencyRecord,
                    CreateTwin, AbandonedPatch, ReturnResult, Ended, vars, graphVars
      <4> QED
        BY <4>1, <1>1, TaskMoves
    <3> QED
      BY <3>1, <3>2, <3>3, <3>4, <1>2 DEF Next
  <2> QED
    BY <2>1, <2>2 DEF TypeOK, GraphOK, EnvOK
<1>3. CASE UNCHANGED vars
  BY <1>3 DEF TypeOK, vars
<1> QED
  BY <1>2, <1>3

(* Every variable keeps its type, for any sets of plans.                   *)
THEOREM TypeInvariant == Spec => []TypeOK
<1>1. Init => TypeOK
  BY DEF Init, TypeOK, InitialState, NoRow, States, Rows, Steps, Nodes, OptPlan,
         Outcomes, ProdOutcomes, Tournaments, Verdicts
<1> QED
  BY <1>1, TypeNext, PTL DEF Spec


-----------------------------------------------------------------------------
(***************************************************************************)
(* MutationClaimed.  By itself it is not inductive: nothing in it says that*)
(* the claim stays the plan of the verdict while the run goes on.  It does *)
(* because the claim is made in actuate, and no node that can run from     *)
(* there on changes the plans, the winner or the verdict; and a patch is   *)
(* started only at the step that follows the claim.                        *)
(***************************************************************************)
LateNodes == {"actuate", "notify_slack", "escalate_pagerduty", "teardown_fleet",
              "record_run", "handle_failure", "END"}

ClaimInv ==
    /\ claim # NoPlan => claim = st.winner /\ Authorised /\ node \in LateNodes
    /\ prod # "clean" => claim # NoPlan
    /\ node = "actuate" /\ step \in {"claimed", "applying"} => claim # NoPlan

(* What a step leaves alone of what the claim was made from.               *)
VerdictKept ==
    /\ st'.plans = st.plans /\ st'.winner = st.winner
    /\ st'.verdict = st.verdict /\ st'.verdictPlan = st.verdictPlan

LEMMA VerdictUpdates ==
    ASSUME NEW s \in States, NEW p \in {"plans", "winner", "verdict", "verdictPlan", "twins"}
    PROVE  /\ [s EXCEPT !.errors = TRUE][p] = s[p]
           /\ \A o \in Outcomes : /\ [s EXCEPT !.outcome = o][p] = s[p]
                                 /\ [s EXCEPT !.outcome = o, !.escalated = TRUE][p] = s[p]
           /\ \A w \in OptPlan, q \in ProdOutcomes, o \in Outcomes :
                 [s EXCEPT !.prodApplied = w, !.prodOutcome = q, !.outcome = o][p] = s[p]
  BY DEF States

(* The nodes before actuate cannot meet a claim, so what they change of    *)
(* the verdict does not matter.                                            *)
EarlyStep ==
    \/ Ingest \/ GatherContext \/ PlanCandidates \/ ForkRefused \/ StartFork
    \/ ForkFleet \/ ForkFleetFails \/ RegisterMirror \/ RegisterMirrors \/ ApplyCandidates
    \/ Observe \/ Tournament \/ SafetyKernel

LEMMA EarlySteps ==
    ASSUME EarlyStep
    PROVE  /\ node \notin LateNodes
           /\ UNCHANGED <<claim, prod, node>>
  BY DEF EarlyStep, Ingest, GatherContext, PlanCandidates, ForkRefused, StartFork,
     ForkFleet, ForkFleetFails, NodeTimesOut, RegisterMirror, RegisterMirrors,
     ApplyCandidates, Observe, Tournament, SafetyKernel, At, LateNodes, Elsewhere,
     storeVars, Return, Raise, Goto

LEMMA ReturnKeepsVerdict ==
    ASSUME st \in States
    PROVE  /\ Return(st) => VerdictKept
           /\ Raise => VerdictKept
           /\ \A at : Goto(at) => VerdictKept
           /\ UNCHANGED st => VerdictKept
<1>1. Return(st) => VerdictKept
  BY DEF Return, VerdictKept
<1>2. Raise => VerdictKept
  BY VerdictUpdates DEF Raise, Return, VerdictKept
<1> QED
  BY <1>1, <1>2 DEF Goto, VerdictKept

LEMMA LateSteps ==
    ASSUME TypeOK, Next, ~EarlyStep
    PROVE  VerdictKept
<1>1. st \in States /\ st.winner \in OptPlan /\ st.outcome \in Outcomes
  BY StateFields DEF TypeOK
<1>2. CASE ActuateRefused \/ RecordPreActuation \/ StartApply \/ FinishApply
  BY <1>2, <1>1, ReturnKeepsVerdict
     DEF ActuateRefused, RecordPreActuation, StartApply, FinishApply
<1>3. CASE ProbeProduction
  <2>1. CASE Raise
    BY <2>1, <1>1, ReturnKeepsVerdict
  <2>2. CASE ~Raise
    <3>1. PICK o \in {"resolved", "not_resolved", "worsened"} :
             st' = [st EXCEPT !.prodApplied = st.winner, !.prodOutcome = o,
                              !.outcome = IF o = "resolved" THEN "EXECUTED" ELSE @]
      BY <2>2, <1>3 DEF ProbeProduction, ProbedOutcomes, Return
    <3>2. (IF o = "resolved" THEN "EXECUTED" ELSE st.outcome) \in Outcomes /\ o \in ProdOutcomes
      BY <1>1, Constants
    <3> QED
      BY <3>1, <3>2, <1>1, VerdictUpdates DEF VerdictKept
  <2> QED
    BY <2>1, <2>2
<1>4. CASE NotifySlack \/ EscalatePagerduty \/ EscalatePagerdutyFails
           \/ UnregisterMirror \/ TeardownFleet \/ TeardownFleetFails
           \/ RecordRun \/ HandleFailureCleanup \/ HandleFailurePage
           \/ HandleFailurePageFails
  BY <1>4, <1>1, ReturnKeepsVerdict
     DEF NotifySlack, PostReasoning, EscalatePagerduty, EscalatePagerdutyFails,
        PageFails, UnregisterMirror, TeardownFleet, TeardownFleetFails, RecordRun,
        HandleFailureCleanup, HandleFailurePage, HandleFailurePageFails
<1>5. CASE EscalatePagerdutyReturns
  BY <1>5, <1>1, Constants, VerdictUpdates DEF EscalatePagerdutyReturns, Return,
     VerdictKept
<1>6. CASE RecordRunPlaybook
  <2>1. Raise \/ st' = [st EXCEPT !.outcome = ResolvedOutcome(st)]
    BY <1>6 DEF RecordRunPlaybook, Return
  <2>2. CASE st' = [st EXCEPT !.outcome = ResolvedOutcome(st)]
    <3>1. ResolvedOutcome(st) \in Outcomes
      BY <1>1, RecordTypes
    <3> QED
      BY <2>2, <3>1, <1>1, VerdictUpdates DEF VerdictKept
  <2> QED
    BY <2>1, <2>2, <1>1, ReturnKeepsVerdict
<1>7. CASE HandleFailureRecord
  <2>1. Raise \/ st' = FailedState
    BY <1>7 DEF HandleFailureRecord, Return
  <2>2. (IF st.escalated THEN "ESCALATED" ELSE "FAILED") \in Outcomes
    BY Constants
  <2>3. FailedState.plans = st.plans /\ FailedState.winner = st.winner
        /\ FailedState.verdict = st.verdict /\ FailedState.verdictPlan = st.verdictPlan
    BY <2>2, <1>1, VerdictUpdates DEF FailedState
  <2> QED
    BY <2>1, <2>3, <1>1, ReturnKeepsVerdict DEF VerdictKept
<1>8. CASE Route \/ WatchdogFires \/ WatchdogStep \/ CreateTwin \/ AbandonedPatch
           \/ ReturnResult \/ Ended
  BY <1>8, <1>1, ReturnKeepsVerdict
     DEF Route, WatchdogFires, WatchdogStep, EmergencyCleanup, EmergencyPage,
         EmergencyRecord, CreateTwin, AbandonedPatch, ReturnResult, Ended, vars, graphVars
<1> QED
  BY <1>2, <1>3, <1>4, <1>5, <1>6, <1>7, <1>8
     DEF Next, NodeStep, ProductionStep, EarlyStep

(* From a node that may meet a claim, only such nodes are reached.         *)
LEMMA LateRoutes ==
    ASSUME TypeOK, Route, node \in LateNodes
    PROVE  node' \in LateNodes
<1>1. node # "END" /\ node' = NextNode(st, node)
  BY DEF Route, TypeOK
<1>2. CASE node = "actuate"
  BY <1>1, <1>2 DEF NextNode, RouteActuation, LateNodes
<1>3. CASE node = "handle_failure"
  BY <1>1, <1>3 DEF NextNode, LateNodes
<1>4. CASE node \in {"notify_slack", "escalate_pagerduty", "teardown_fleet", "record_run"}
  BY <1>1, <1>4 DEF NextNode, RouteLinear, LinearNext, LateNodes
<1> QED
  BY <1>1, <1>2, <1>3, <1>4 DEF LateNodes

LEMMA ClaimInvInit == Init => ClaimInv
  BY DEF Init, ClaimInv

LEMMA ClaimInvNext ==
    ASSUME TypeOK, ClaimInv, [Next]_vars
    PROVE  ClaimInv'
<1>1. CASE UNCHANGED vars
  BY <1>1 DEF ClaimInv, Authorised, vars
<1>2. CASE EarlyStep
  <2>1. claim = NoPlan /\ prod = "clean" /\ node # "actuate"
    BY <1>2, EarlySteps DEF ClaimInv, LateNodes
  <2> QED
    BY <1>2, <2>1, EarlySteps DEF ClaimInv
<1>3. CASE Next /\ ~EarlyStep
  <2>1. VerdictKept
    BY <1>3, LateSteps
  <2>2. Authorised' = Authorised /\ st'.winner = st.winner
    BY <2>1 DEF VerdictKept, Authorised
  <2>3. CASE RecordPreActuation
    <3>1. node = "actuate" /\ node' = node /\ Authorised /\ prod' = prod /\ step' # "applying"
      BY <2>3 DEF RecordPreActuation, At, Goto, Raise, Return
    <3>2. claim' \in {claim, st.winner} /\ (step' = "claimed" => claim' = st.winner)
      BY <2>3 DEF RecordPreActuation, InsertClaim, InsertClaimFails, Goto, Raise, Return
    <3>3. st.winner # NoPlan
      BY <3>1, StateFields DEF TypeOK, Authorised
    <3> QED
      BY <3>1, <3>2, <3>3, <2>2 DEF ClaimInv, LateNodes
  <2>4. CASE StartApply \/ FinishApply
    <3>1. /\ node = "actuate" /\ step \in {"claimed", "applying"}
          /\ node' = node /\ claim' = claim
      BY <2>4 DEF StartApply, FinishApply, At, Goto, Raise, Return, storeVars
    <3> QED
      BY <3>1, <2>2 DEF ClaimInv
  <2>5. CASE AbandonedPatch
    <3>1. prod # "clean" /\ claim' = claim /\ node' = node /\ step' = step
      BY <2>5 DEF AbandonedPatch, storeVars, graphVars
    <3> QED
      BY <3>1, <2>2 DEF ClaimInv
  <2>6. CASE Route
    <3>1. claim' = claim /\ prod' = prod /\ (step' = "run" \/ node' = "END")
      BY <2>6 DEF Route, storeVars
    <3> QED
      BY <3>1, <2>2, <2>6, LateRoutes DEF ClaimInv
  <2>7. CASE ~(RecordPreActuation \/ StartApply \/ FinishApply \/ AbandonedPatch \/ Route)
    <3>1. claim' = claim /\ prod' = prod /\ node' = node
      BY <2>7, <1>3
         DEF Next, NodeStep, ProductionStep, WatchdogStep, EarlyStep,
            ActuateRefused, ProbeProduction, ProbedOutcomes, NotifySlack,
            PostReasoning, EscalatePagerduty, EscalatePagerdutyReturns,
            EscalatePagerdutyFails, PageFails, UnregisterMirror, TeardownFleet,
            TeardownFleetFails, RecordRun, RecordRunPlaybook, HandleFailureCleanup,
            HandleFailurePage, HandleFailurePageFails, HandleFailureRecord,
            WatchdogFires, EmergencyCleanup, EmergencyPage, EmergencyRecord,
            CreateTwin, ReturnResult, Ended, vars, graphVars, storeVars, Elsewhere,
            Goto, Raise, Return
    <3>2. step' \in {"claimed", "applying"} => step' = step
      BY <2>7, <1>3
         DEF Next, NodeStep, ProductionStep, WatchdogStep, EarlyStep,
            ActuateRefused, ProbeProduction, ProbedOutcomes, NotifySlack,
            PostReasoning, EscalatePagerduty, EscalatePagerdutyReturns,
            EscalatePagerdutyFails, PageFails, UnregisterMirror, TeardownFleet,
            TeardownFleetFails, RecordRun, RecordRunPlaybook, HandleFailureCleanup,
            HandleFailurePage, HandleFailurePageFails, HandleFailureRecord,
            WatchdogFires, EmergencyCleanup, EmergencyPage, EmergencyRecord,
            CreateTwin, ReturnResult, Ended, vars, graphVars, storeVars, Elsewhere,
            Goto, Raise, Return
    <3> QED
      BY <3>1, <3>2, <2>2 DEF ClaimInv
  <2> QED
    BY <2>3, <2>4, <2>5, <2>6, <2>7
<1> QED
  BY <1>1, <1>2, <1>3

(* Production changes only under the durable row of the plan the kernel    *)
(* passed, whatever fails and whenever the watchdog strikes.               *)
THEOREM MutationIsClaimed == Spec => []MutationClaimed
<1>1. ClaimInv => MutationClaimed
  BY DEF ClaimInv, MutationClaimed
<1> QED
  BY <1>1, TypeInvariant, ClaimInvInit, ClaimInvNext, PTL DEF Spec

-----------------------------------------------------------------------------
(***************************************************************************)
(* MirrorsTracked.  A mirror is registered in a node that the tracker saw  *)
(* entered with the same state, and twins are never dropped from the state,*)
(* so what a later entry records still names it.                           *)
(***************************************************************************)
SnapInv ==
    /\ tracked.twins \subseteq st.twins
    /\ task = "running" /\ step # "left" => tracked = st

TrackInv == mirrors \subseteq tracked.twins /\ SnapInv

(* A step of the graph task that is not the entry of a node: the tracker   *)
(* does not move, and no twin leaves the state.                            *)
Inside ==
    /\ UNCHANGED tracked
    /\ st.twins \subseteq st'.twins
    /\ \/ st' = st /\ (task' = "running" /\ step' # "left" => task = "running" /\ step # "left")
       \/ task' # "running"
       \/ step' = "left"

LEMMA TwinUpdates ==
    ASSUME NEW s \in States
    PROVE  /\ [s EXCEPT !.context = TRUE].twins = s.twins
           /\ \A ps \in SUBSET Plans :
                 /\ [s EXCEPT !.plans = @ \cup ps].twins = s.twins
                 /\ [s EXCEPT !.twins = @ \cup ps].twins = s.twins \cup ps
           /\ \A t \in Tournaments, w \in OptPlan :
                 [s EXCEPT !.tournament = t, !.winner = w].twins = s.twins
           /\ \A v \in Verdicts, w \in OptPlan, o \in Outcomes :
                 [s EXCEPT !.verdict = v, !.verdictPlan = w, !.outcome = o].twins =
                    s.twins
  BY DEF States

LEMMA ReturnIsInside ==
    ASSUME st \in States
    PROVE  /\ \A s : Return(s) /\ st.twins \subseteq s.twins => Inside
           /\ Raise => Inside
           /\ \A at : Goto(at) /\ task = "running" /\ step # "left" => Inside
           /\ UNCHANGED <<st, tracked, step, task>> => Inside
<1>1. \A s : Return(s) /\ st.twins \subseteq s.twins => Inside
  BY DEF Return, Inside
<1>2. [st EXCEPT !.errors = TRUE].twins = st.twins
  BY VerdictUpdates
<1>3. Raise => Inside
  BY <1>1, <1>2 DEF Raise
<1>4. \A at : Goto(at) /\ task = "running" /\ step # "left" => Inside
  BY DEF Goto, Inside
<1>5. UNCHANGED <<st, tracked, step, task>> => Inside
  BY DEF Inside
<1> QED
  BY <1>1, <1>3, <1>4, <1>5

LEMMA EarlyInside ==
    ASSUME TypeOK, EarlyStep
    PROVE  Inside
<1>1. st \in States /\ st.winner \in OptPlan /\ st.outcome \in Outcomes
      /\ st.plans \in SUBSET Plans
  BY StateFields DEF TypeOK
<1>2. CASE Ingest \/ ForkRefused \/ StartFork \/ ForkFleetFails \/ RegisterMirror
           \/ RegisterMirrors \/ ApplyCandidates
  BY <1>2, <1>1, ReturnIsInside
     DEF Ingest, ForkRefused, StartFork, ForkFleetFails, NodeTimesOut,
        RegisterMirror, RegisterMirrors, ApplyCandidates, At
<1>3. CASE GatherContext
  BY <1>3, <1>1, ReturnIsInside, TwinUpdates DEF GatherContext
<1>4. CASE PlanCandidates
  BY <1>4, <1>1, ReturnIsInside, TwinUpdates DEF PlanCandidates
<1>5. CASE ForkFleet
  <2>1. Return([st EXCEPT !.twins = @ \cup st.plans])
    BY <1>5 DEF ForkFleet
  <2>2. [st EXCEPT !.twins = @ \cup st.plans].twins = st.twins \cup st.plans
    BY <1>1, TwinUpdates
  <2> QED
    BY <2>1, <2>2, <1>1, ReturnIsInside
<1>6. CASE Observe
  <2>1. CASE Raise
    BY <2>1, <1>1, ReturnIsInside
  <2>2. ASSUME NEW t \in Tournaments, NEW w \in OptPlan,
               Return([st EXCEPT !.tournament = t, !.winner = w])
        PROVE  Inside
    <3>1. [st EXCEPT !.tournament = t, !.winner = w].twins = st.twins
      BY <1>1, TwinUpdates
    <3> QED
      BY <2>2, <3>1, <1>1, ReturnIsInside
  <2>3. "DECIDED" \in Tournaments /\ {"AMBIGUOUS", "NO_VIABLE_CANDIDATE"} \subseteq Tournaments
        /\ st.plans \subseteq OptPlan /\ NoPlan \in OptPlan
    BY <1>1, Constants
  <2> QED
    BY <1>6, <2>1, <2>2, <2>3 DEF Observe, NodeTimesOut
<1>7. CASE Tournament
  <2>1. Return(st) \/ Return([st EXCEPT !.outcome = "ESCALATED"])
    BY <1>7 DEF Tournament
  <2> QED
    BY <2>1, <1>1, ReturnIsInside, VerdictUpdates, Constants
<1>8. CASE SafetyKernel
  <2>1. CASE Raise
    BY <2>1, <1>1, ReturnIsInside
  <2>2. CASE Return([st EXCEPT !.outcome = "ESCALATED"])
    BY <2>2, <1>1, ReturnIsInside, VerdictUpdates, Constants
  <2>3. CASE \E v \in {"PASS", "VETO", "UNCERTAIN"} :
                Return([st EXCEPT !.verdict = v, !.verdictPlan = st.winner,
                                  !.outcome = IF v = "PASS" THEN @ ELSE "ESCALATED"])
    <3>1. PICK v \in {"PASS", "VETO", "UNCERTAIN"} :
             Return([st EXCEPT !.verdict = v, !.verdictPlan = st.winner,
                               !.outcome = IF v = "PASS" THEN @ ELSE "ESCALATED"])
      BY <2>3
    <3> DEFINE o == IF v = "PASS" THEN st.outcome ELSE "ESCALATED"
    <3>2. v \in Verdicts /\ o \in Outcomes
      BY <1>1, Constants
    <3>3. [st EXCEPT !.verdict = v, !.verdictPlan = st.winner, !.outcome = o].twins = st.twins
      BY <3>2, <1>1, TwinUpdates
    <3>4. Return([st EXCEPT !.verdict = v, !.verdictPlan = st.winner, !.outcome = o])
      BY <3>1
    <3> QED
      BY <3>3, <3>4, <1>1, ReturnIsInside
  <2> QED
    BY <2>1, <2>2, <2>3, <1>8 DEF SafetyKernel, NodeTimesOut
<1> QED
  BY <1>2, <1>3, <1>4, <1>5, <1>6, <1>7, <1>8 DEF EarlyStep

LEMMA LateInside ==
    ASSUME TypeOK, NodeStep, ~EarlyStep
    PROVE  Inside
<1>1. st \in States /\ st.winner \in OptPlan /\ st.outcome \in Outcomes
  BY StateFields DEF TypeOK
<1>2. CASE ActuateRefused \/ RecordPreActuation \/ StartApply \/ FinishApply
  BY <1>2, <1>1, ReturnIsInside
     DEF ActuateRefused, RecordPreActuation, StartApply, FinishApply, At
<1>3. CASE ProbeProduction
  <2>1. ASSUME NEW w \in OptPlan, NEW q \in ProdOutcomes, NEW o \in Outcomes,
               Return([st EXCEPT !.prodApplied = w, !.prodOutcome = q, !.outcome = o])
        PROVE  Inside
    <3>1. [st EXCEPT !.prodApplied = w, !.prodOutcome = q, !.outcome = o].twins = st.twins
      BY <1>1, VerdictUpdates
    <3> QED
      BY <2>1, <3>1, <1>1, ReturnIsInside
  <2>2. CASE Raise
    BY <2>2, <1>1, ReturnIsInside
  <2>3. CASE ~Raise
    <3>1. PICK q \in {"resolved", "not_resolved", "worsened"} :
             Return([st EXCEPT !.prodApplied = st.winner, !.prodOutcome = q,
                               !.outcome = IF q = "resolved" THEN "EXECUTED" ELSE @])
      BY <2>3, <1>3 DEF ProbeProduction, ProbedOutcomes
    <3> DEFINE o == IF q = "resolved" THEN "EXECUTED" ELSE st.outcome
    <3>2. q \in ProdOutcomes /\ o \in Outcomes
      BY <1>1, Constants
    <3>3. Return([st EXCEPT !.prodApplied = st.winner, !.prodOutcome = q, !.outcome = o])
      BY <3>1
    <3> QED
      BY <3>2, <3>3, <2>1, <1>1
  <2> QED
    BY <2>2, <2>3
<1>4. CASE NotifySlack \/ EscalatePagerduty \/ EscalatePagerdutyFails
           \/ UnregisterMirror \/ TeardownFleet \/ TeardownFleetFails
           \/ RecordRun \/ HandleFailureCleanup \/ HandleFailurePage
           \/ HandleFailurePageFails
  BY <1>4, <1>1, ReturnIsInside
     DEF NotifySlack, PostReasoning, EscalatePagerduty, EscalatePagerdutyFails,
        PageFails, UnregisterMirror, TeardownFleet, TeardownFleetFails, RecordRun,
        HandleFailureCleanup, HandleFailurePage, HandleFailurePageFails, At
<1>5. CASE EscalatePagerdutyReturns
  <2>1. [st EXCEPT !.outcome = "ESCALATED", !.escalated = TRUE].twins = st.twins
    BY <1>1, Constants, VerdictUpdates
  <2> QED
    BY <1>5, <2>1, <1>1, ReturnIsInside DEF EscalatePagerdutyReturns
<1>6. CASE RecordRunPlaybook
  <2>1. ResolvedOutcome(st) \in Outcomes
    BY <1>1, RecordTypes
  <2>2. [st EXCEPT !.outcome = ResolvedOutcome(st)].twins = st.twins
    BY <1>1, <2>1, VerdictUpdates
  <2> QED
    BY <1>6, <2>2, <1>1, ReturnIsInside DEF RecordRunPlaybook
<1>7. CASE HandleFailureRecord
  <2>1. (IF st.escalated THEN "ESCALATED" ELSE "FAILED") \in Outcomes
    BY Constants
  <2>2. FailedState.twins = st.twins
    BY <2>1, <1>1, VerdictUpdates DEF FailedState
  <2>3. Raise \/ Return(FailedState)
    BY <1>7 DEF HandleFailureRecord
  <2> QED
    BY <2>2, <2>3, <1>1, ReturnIsInside
<1> QED
  BY <1>2, <1>3, <1>4, <1>5, <1>6, <1>7 DEF NodeStep, ProductionStep, EarlyStep

(* Mirrors are added in register_mirrors only, and only for known twins.   *)
LEMMA MirrorMoves ==
    ASSUME Next
    PROVE  \/ mirrors' \subseteq mirrors
           \/ mirrors' \subseteq mirrors \cup st.twins /\ task = "running" /\ step # "left"
<1>1. CASE RegisterMirror
  BY <1>1 DEF RegisterMirror, At
<1>2. ASSUME NEW s, Cleanup(s) PROVE mirrors' \subseteq mirrors
  BY <1>2 DEF Cleanup
<1>3. CASE HandleFailureCleanup \/ EmergencyCleanup
  BY <1>2, <1>3 DEF HandleFailureCleanup, EmergencyCleanup
<1>4. CASE UnregisterMirror
  BY <1>4 DEF UnregisterMirror
<1>5. CASE ~(RegisterMirror \/ HandleFailureCleanup \/ EmergencyCleanup \/ UnregisterMirror)
  <2>1. UNCHANGED mirrors
    BY <1>5
       DEF Next, NodeStep, ProductionStep, WatchdogStep, Ingest, GatherContext,
          PlanCandidates, ForkRefused, StartFork, ForkFleet, ForkFleetFails,
          NodeTimesOut, RegisterMirrors, ApplyCandidates, Observe, Tournament,
          SafetyKernel, ActuateRefused, RecordPreActuation, StartApply, FinishApply,
          ProbeProduction, ProbedOutcomes, NotifySlack, PostReasoning,
          EscalatePagerduty, EscalatePagerdutyReturns, EscalatePagerdutyFails,
          PageFails, TeardownFleet, TeardownFleetFails, RecordRun,
          RecordRunPlaybook, HandleFailurePage, HandleFailurePageFails,
          HandleFailureRecord, Route, WatchdogFires, EmergencyPage, EmergencyRecord,
          CreateTwin, AbandonedPatch, ReturnResult, Ended, vars, twinVars
  <2> QED
    BY <2>1
<1> QED
  BY <1>1, <1>3, <1>4, <1>5

(* The snapshot follows the state and never loses a handle.                *)
LEMMA SnapNext ==
    ASSUME TypeOK, SnapInv, [Next]_vars
    PROVE  SnapInv' /\ tracked.twins \subseteq tracked'.twins
<1>1. CASE UNCHANGED vars
  BY <1>1 DEF SnapInv, vars
<1>2. CASE Route
  <2>1. st' = st
    BY <1>2 DEF Route
  <2>2. \/ node' = "END" /\ task' = "done" /\ tracked' = tracked
        \/ tracked' = st
    BY <1>2 DEF Route
  <2> QED
    BY <2>1, <2>2 DEF SnapInv
<1>3. CASE Next /\ ~Route
  <2>1. Inside
    <3>1. CASE NodeStep
      BY <3>1, EarlyInside, LateInside
    <3>2. CASE WatchdogFires
      BY <3>2 DEF WatchdogFires, Inside
    <3>3. CASE WatchdogStep \/ CreateTwin \/ AbandonedPatch \/ ReturnResult \/ Ended
      BY <3>3 DEF WatchdogStep, EmergencyCleanup, EmergencyPage, EmergencyRecord,
                  CreateTwin, AbandonedPatch, ReturnResult, Ended, vars, graphVars, Inside
    <3> QED
      BY <3>1, <3>2, <3>3, <1>3 DEF Next
  <2> QED
    BY <2>1 DEF SnapInv, Inside
<1> QED
  BY <1>1, <1>2, <1>3

(* Whatever mirrors a run found, those it adds are in the snapshot.        *)
LEMMA MirrorsNext ==
    ASSUME TypeOK, SnapInv, NEW found, mirrors \subseteq tracked.twins \cup found,
           [Next]_vars
    PROVE  mirrors' \subseteq tracked'.twins \cup found
<1>1. tracked.twins \subseteq tracked'.twins
  BY SnapNext
<1>2. CASE UNCHANGED vars
  BY <1>1, <1>2 DEF vars
<1>3. CASE Next
  <2>1. mirrors' \subseteq mirrors \cup tracked.twins
    BY <1>3, MirrorMoves DEF SnapInv
  <2> QED
    BY <1>1, <2>1
<1> QED
  BY <1>2, <1>3

LEMMA TrackInvNext ==
    ASSUME TypeOK, TrackInv, [Next]_vars
    PROVE  TrackInv'
<1>1. SnapInv /\ mirrors \subseteq tracked.twins \cup {}
  BY DEF TrackInv
<1>2. SnapInv'
  BY <1>1, SnapNext
<1>3. mirrors' \subseteq tracked'.twins \cup {}
  BY <1>1, MirrorsNext
<1> QED
  BY <1>2, <1>3 DEF TrackInv

(* Every registered mirror is in the snapshot that the emergency cleanup   *)
(* works from, at whatever await the watchdog cancels the graph task.      *)
THEOREM MirrorsAreTracked == Spec => []MirrorsTracked
<1>1. Init => TrackInv
  BY DEF Init, TrackInv, SnapInv
<1>2. TrackInv => MirrorsTracked
  BY DEF TrackInv, MirrorsTracked
<1> QED
  BY <1>1, <1>2, TypeInvariant, TrackInvNext, PTL DEF Spec

-------------------------------------------------------------------------------
(***************************************************************************)
(* What the control loop tells of a run: its final row, its playbook write *)
(* and its pages, for any sets of plans.                                   *)
(***************************************************************************)

(***************************************************************************)
(* Where the run may be with which outcome.  The nodes before production   *)
(* know nothing of it; from actuate on the way is decided by the probe, so *)
(* that a run that is closed without an error was resolved and says so, or *)
(* was not and is escalated.                                               *)
(***************************************************************************)
Fresh(s) ==
    /\ s.prodOutcome = "none" /\ s.prodApplied = NoPlan
    /\ s.outcome \in {"none", "ESCALATED"} /\ s.escalated = FALSE

Executed(s) == s.outcome = "EXECUTED" => s.prodOutcome = "resolved" /\ s.prodApplied # NoPlan

Closed(s) ==
    \/ s.outcome = "EXECUTED"
    \/ s.outcome = "ESCALATED" /\ s.prodOutcome # "resolved" /\ s.escalated = TRUE

PathInv ==
    /\ Executed(st)
    /\ st.prodApplied # NoPlan => st.prodApplied = claim
    /\ tracked.prodApplied # NoPlan => tracked.prodApplied = claim
    /\ node \notin LateNodes \/ (node = "actuate" /\ step # "left") => Fresh(st)
    /\ node = "actuate" /\ st.prodOutcome = "resolved" => st.outcome = "EXECUTED"
    /\ node = "actuate" => st.escalated = FALSE
    /\ node = "actuate" /\ step \in {"claimed", "applying", "probing"} =>
          claim = st.winner /\ claim # NoPlan
    /\ node = "notify_slack" => st.outcome = "EXECUTED"
    /\ node = "escalate_pagerduty" => st.prodOutcome # "resolved"
    /\ node = "escalate_pagerduty" /\ step # "left" => st.escalated = FALSE
    /\ node = "escalate_pagerduty" /\ step = "left" /\ st.errors = FALSE => Closed(st)
    /\ node \in {"teardown_fleet", "record_run"} => Closed(st)
    /\ node = "record_run" /\ step # "left" => st.errors = FALSE

RowInv ==
    /\ RowIsTrue /\ PlaybookAgreesWithRow
    /\ node = "record_run" /\ step = "inserted" => row = RunRecord(st)

(***************************************************************************)
(* Who has been told.  On-call hears of it in escalate_pagerduty, in       *)
(* handle_failure or from the watchdog; escalated says that the graph did. *)
(***************************************************************************)
Delivered == pages > 0 \/ "notfound" \in failed

Called == Delivered \/ "page" \in failed

Told ==
    \/ st.escalated = TRUE
    \/ node = "escalate_pagerduty" /\ step = "paged"
    \/ node = "handle_failure" /\ step \in {"paged", "left"}
    \/ node = "END"

PagedInv ==
    /\ st.escalated = TRUE => Delivered
    /\ node \in {"escalate_pagerduty", "handle_failure"} /\ step = "paged" => Delivered
    /\ node = "handle_failure" /\ step = "left" => Called
    /\ node = "record_run" /\ step = "left" /\ st.errors = FALSE =>
          row.outcome = "EXECUTED" \/ Called
    /\ wd \in {"record", "timed_out"} => Called
    /\ node = "END" => row.outcome = "EXECUTED" \/ Called
    /\ result # "none" => node = "END" \/ wd = "timed_out"
    /\ wd = "sleeping" /\ "page" \notin failed /\ pages > 0 => pages = 1 /\ Told

ReportInv == PathInv /\ RowInv /\ PagedInv

(***************************************************************************)
(* The row of a run is written by somebody who has called on-call.  This   *)
(* speaks of the only run of an incident; RowCalledInv below of any.       *)
(***************************************************************************)
RowPagedInv ==
    row.outcome \in {"ESCALATED", "FAILED"} =>
        Delivered \/ ("page" \in failed /\ wd = "timed_out")

\* At first nothing has been told and nothing written.
LEMMA ReportInit == Init => ReportInv
<1>1. Init => PathInv
  BY DEF Init, InitialState, PathInv, Fresh, Executed, Closed, LateNodes
<1>2. Init => RowInv
  BY DEF Init, InitialState, RowInv, RowIsTrue, PlaybookAgreesWithRow, NoRow
<1>3. Init => PagedInv
  BY DEF Init, InitialState, PagedInv, NoRow
<1> QED
  BY <1>1, <1>2, <1>3 DEF ReportInv

\* What the updates of a node leave alone.
LEMMA UpdatedFields ==
    ASSUME NEW s \in States
    PROVE  /\ LET e == [s EXCEPT !.errors = TRUE]
              IN  /\ e.errors = TRUE /\ e.outcome = s.outcome /\ e.prodOutcome = s.prodOutcome
                  /\ e.prodApplied = s.prodApplied /\ e.winner = s.winner
                  /\ e.escalated = s.escalated
           /\ \A o \in Outcomes :
                 LET e == [s EXCEPT !.outcome = o]
                 IN  /\ e.errors = s.errors /\ e.outcome = o /\ e.prodOutcome = s.prodOutcome
                     /\ e.prodApplied = s.prodApplied /\ e.winner = s.winner
                     /\ e.escalated = s.escalated
           /\ \A o \in Outcomes :
                 LET e == [s EXCEPT !.outcome = o, !.escalated = TRUE]
                 IN  /\ e.errors = s.errors /\ e.outcome = o /\ e.prodOutcome = s.prodOutcome
                     /\ e.prodApplied = s.prodApplied /\ e.winner = s.winner
                     /\ e.escalated = TRUE
  BY DEF States

\* The row of a run, whoever writes it.
LEMMA RowOf ==
    ASSUME NEW s \in States
    PROVE  /\ RunRecord(s).applied = s.prodApplied /\ RunRecord(s).prodOutcome = s.prodOutcome
           /\ RunRecord(s).outcome \in {"EXECUTED", "ESCALATED", "FAILED"}
           /\ s.outcome \in {"ESCALATED", "FAILED"} => RunRecord(s).outcome # "EXECUTED"
           /\ Closed(s) /\ s.errors = FALSE => RunRecord(s).outcome = s.outcome
           /\ RunRecord(s) # NoRow
<1>1. s.outcome \in Outcomes /\ s.errors \in BOOLEAN
  BY StateFields
<1>2. RunRecord(s).outcome = ResolvedOutcome(s)
  BY DEF RunRecord
<1>3. ResolvedOutcome(s) \in {"EXECUTED", "ESCALATED", "FAILED"}
  BY <1>1 DEF ResolvedOutcome, Outcomes
<1>4. s.outcome \in {"ESCALATED", "FAILED"} => ResolvedOutcome(s) # "EXECUTED"
  BY <1>1 DEF ResolvedOutcome
<1>5. Closed(s) /\ s.errors = FALSE => ResolvedOutcome(s) = s.outcome
  BY <1>1 DEF ResolvedOutcome, Closed
<1>6. NoRow.outcome = "none"
  BY DEF NoRow
<1> QED
  BY <1>1, <1>2, <1>3, <1>4, <1>5, <1>6 DEF RunRecord

\* A node before production learns nothing of it.
LEMMA EarlyStaysFresh ==
    ASSUME TypeOK, EarlyStep, Fresh(st)
    PROVE  /\ Fresh(st')
           /\ UNCHANGED <<tracked, node, claim, row, playbook, wd, pages, result, failed>>
<1>1. UNCHANGED <<tracked, node, claim, row, playbook, wd, pages, result, failed>>
  BY DEF EarlyStep, Ingest, GatherContext, PlanCandidates, ForkRefused, StartFork,
     ForkFleet, ForkFleetFails, NodeTimesOut, RegisterMirror, RegisterMirrors,
     ApplyCandidates, Observe, Tournament, SafetyKernel, Elsewhere,
     storeVars, Return, Raise, Goto
<1>2. ASSUME NEW s \in States, Fresh(s)
      PROVE  /\ Fresh([s EXCEPT !.errors = TRUE]) /\ Fresh([s EXCEPT !.context = TRUE])
             /\ Fresh([s EXCEPT !.outcome = "ESCALATED"])
             /\ \A ps \in SUBSET Plans : /\ Fresh([s EXCEPT !.plans = @ \cup ps])
                                        /\ Fresh([s EXCEPT !.twins = @ \cup ps])
             /\ \A t, w : Fresh([s EXCEPT !.tournament = t, !.winner = w])
             /\ \A v, w, o : o \in {s.outcome, "ESCALATED"} =>
                   Fresh([s EXCEPT !.verdict = v, !.verdictPlan = w, !.outcome = o])
  BY <1>2 DEF Fresh, States
<1>3. st \in States /\ st.plans \in SUBSET Plans
  BY StateFields DEF TypeOK
<1>4. CASE Ingest \/ GatherContext \/ ForkRefused \/ StartFork \/ ForkFleetFails
           \/ RegisterMirror \/ RegisterMirrors \/ ApplyCandidates
  BY <1>1, <1>2, <1>3, <1>4
     DEF Ingest, GatherContext, ForkRefused, StartFork, ForkFleetFails, NodeTimesOut,
         RegisterMirror, RegisterMirrors, ApplyCandidates, Return, Raise, Goto
<1>5. CASE PlanCandidates
  BY <1>1, <1>2, <1>3, <1>5 DEF PlanCandidates, Return, Raise
<1>6. CASE ForkFleet
  BY <1>1, <1>2, <1>3, <1>6 DEF ForkFleet, Return
<1>7. CASE Observe
  <2>1. \/ st' = [st EXCEPT !.errors = TRUE]
        \/ \E t, w : st' = [st EXCEPT !.tournament = t, !.winner = w]
    BY <1>7 DEF Observe, NodeTimesOut, Return, Raise
  <2>2. ASSUME NEW t, NEW w, st' = [st EXCEPT !.tournament = t, !.winner = w]
        PROVE  Fresh(st')
    BY <1>2, <1>3, <2>2
  <2>3. Fresh(st')
    BY <1>2, <1>3, <2>1, <2>2
  <2> QED
    BY <1>1, <2>3
<1>8. CASE Tournament
  BY <1>1, <1>2, <1>3, <1>8 DEF Tournament, Return
<1>9. CASE SafetyKernel
  <2>1. \/ st' = [st EXCEPT !.errors = TRUE] \/ st' = [st EXCEPT !.outcome = "ESCALATED"]
        \/ \E v : st' = [st EXCEPT !.verdict = v, !.verdictPlan = st.winner,
                                  !.outcome = IF v = "PASS" THEN @ ELSE "ESCALATED"]
    BY <1>9 DEF SafetyKernel, NodeTimesOut, Return, Raise
  <2>2. ASSUME NEW v, st' = [st EXCEPT !.verdict = v, !.verdictPlan = st.winner,
                                       !.outcome = IF v = "PASS" THEN @ ELSE "ESCALATED"]
        PROVE  Fresh(st')
    <3> DEFINE o == IF v = "PASS" THEN st.outcome ELSE "ESCALATED"
    <3>1. st' = [st EXCEPT !.verdict = v, !.verdictPlan = st.winner, !.outcome = o]
      BY <2>2
    <3> QED
      BY <1>2, <1>3, <3>1
  <2> QED
    BY <1>1, <1>2, <1>3, <2>1, <2>2
<1> QED
  BY <1>1, <1>4, <1>5, <1>6, <1>7, <1>8, <1>9 DEF EarlyStep

(***************************************************************************)
(* Steps that leave a part of the invariant alone.                         *)
(***************************************************************************)
StateStays == st' = st \/ (st' = [st EXCEPT !.errors = TRUE] /\ step' = "left")

Silent ==
    /\ UNCHANGED <<pages, wd, result, row>>
    /\ \A k \in {"page", "notfound"} : k \in failed' <=> k \in failed

\* A step within a node that returns no outcome keeps the path.
LEMMA PathStays ==
    ASSUME TypeOK, PathInv, UNCHANGED <<node, tracked, claim>>, StateStays,
           step' # "left" => step # "left",
           node = "escalate_pagerduty" /\ step' = "left" /\ st'.errors = FALSE => step = "left",
           node = "actuate" /\ step' \in {"claimed", "applying", "probing"} =>
              step \in {"claimed", "applying", "probing"}
    PROVE  PathInv'
<1>1. st \in States
  BY DEF TypeOK
<1>2. /\ st'.outcome = st.outcome /\ st'.prodOutcome = st.prodOutcome
      /\ st'.prodApplied = st.prodApplied /\ st'.winner = st.winner
      /\ st'.escalated = st.escalated
      /\ st'.errors = FALSE => st.errors = FALSE
      /\ step' # "left" => st'.errors = st.errors
  <2>1. CASE st' = st
    BY <2>1
  <2>2. CASE st' = [st EXCEPT !.errors = TRUE] /\ step' = "left"
    BY <1>1, <2>2, UpdatedFields
  <2> QED BY <2>1, <2>2 DEF StateStays
<1> QED
  BY <1>2 DEF PathInv, Fresh, Executed, Closed

\* A step that writes neither row nor playbook keeps what they say.
LEMMA RowStays ==
    ASSUME RowInv, UNCHANGED <<row, playbook, claim>>,
           node' = "record_run" /\ step' = "inserted" => UNCHANGED <<node, step, st>>
    PROVE  RowInv'
  BY DEF RowInv, RowIsTrue, PlaybookAgreesWithRow

\* A step in a node that tells nobody keeps what has been told.
LEMMA PagedStays ==
    ASSUME PagedInv, Silent, node' = node, st'.escalated = st.escalated,
           node \in {"escalate_pagerduty", "handle_failure"} => step' = step,
           node = "record_run" /\ step' = "left" /\ st'.errors = FALSE =>
              step = "left" /\ st.errors = FALSE
    PROVE  PagedInv'
<1>1. (Delivered <=> Delivered') /\ (Called <=> Called')
  BY DEF Silent, Delivered, Called
<1>2. Told => Told'
  BY DEF Told
<1> QED
  BY <1>1, <1>2 DEF PagedInv, Silent

\* The steps before production.
LEMMA EarlyKeepsReport ==
    ASSUME TypeOK, ReportInv, EarlyStep
    PROVE  ReportInv'
<1>1. node \notin LateNodes /\ Fresh(st)
  BY EarlySteps DEF ReportInv, PathInv
<1>2. /\ Fresh(st')
      /\ UNCHANGED <<tracked, node, claim, row, playbook, wd, pages, result, failed>>
  BY <1>1, EarlyStaysFresh
<1>3. node \notin {"actuate", "notify_slack", "escalate_pagerduty", "teardown_fleet",
                   "record_run", "handle_failure"}
  BY <1>1 DEF LateNodes
<1>4. PathInv'
  BY <1>2, <1>3 DEF ReportInv, PathInv, Fresh, Executed
<1>5. RowInv'
  BY <1>2, <1>3, RowStays DEF ReportInv
<1>6. PagedInv'
  BY <1>1, <1>2, <1>3, PagedStays DEF ReportInv, Silent, Fresh
<1> QED
  BY <1>4, <1>5, <1>6 DEF ReportInv

\* The steps in actuate: the claim is the winner's, and the probe's outcome is
\* that of the claimed plan.
LEMMA ActuateKeepsReport ==
    ASSUME TypeOK, ReportInv, ProductionStep
    PROVE  ReportInv'
<1>1. /\ node = "actuate" /\ node' = node /\ step # "left" /\ tracked' = tracked
      /\ UNCHANGED <<row, playbook, wd, pages, result>>
      /\ step' # "inserted"
  BY DEF ProductionStep, ActuateRefused, RecordPreActuation, StartApply, FinishApply,
     ProbeProduction, At, Elsewhere, storeVars, Goto, Return, Raise
<1>2. \A k \in {"page", "notfound"} : k \in failed' <=> k \in failed
  BY DEF ProductionStep, ActuateRefused, RecordPreActuation, StartApply, FinishApply,
     ProbeProduction, Fault
<1>3. st \in States /\ Fresh(st)
  BY <1>1 DEF TypeOK, ReportInv, PathInv
<1>4. st'.escalated = st.escalated /\ PathInv' /\ (row.applied # NoPlan => row.applied = claim')
  <2>1. row.applied # NoPlan => row.applied = claim
    BY DEF ReportInv, RowInv, RowIsTrue
  <2>2. CASE ActuateRefused \/ StartApply \/ FinishApply
    <3>1. UNCHANGED <<node, tracked, claim>> /\ StateStays
          /\ (step' \in {"claimed", "applying", "probing"} =>
                step \in {"claimed", "applying", "probing"})
      BY <2>2 DEF ActuateRefused, StartApply, FinishApply, At, Elsewhere, storeVars,
         Goto, Return, Raise, StateStays
    <3>2. st'.escalated = st.escalated
      BY <3>1, <1>3, UpdatedFields DEF StateStays
    <3> QED
      BY <1>1, <2>1, <3>1, <3>2, PathStays DEF ReportInv
  <2>3. CASE RecordPreActuation
    <3>a. /\ StateStays
          /\ claim' = claim \/ (claim = NoPlan /\ claim' = st.winner)
          /\ step' = "left" \/ (step' = "claimed" /\ claim' = st.winner /\ st' = st)
      BY <2>3 DEF RecordPreActuation, InsertClaim, InsertClaimFails, Goto, Raise, Return,
                  StateStays
    <3>b. st.winner # NoPlan
      <4>1. st.plans \in SUBSET Plans
        BY <1>3, StateFields
      <4> QED
        BY <2>3, <4>1, PlansAssumption DEF RecordPreActuation, Authorised
    <3>1. /\ StateStays
          /\ claim' = claim \/ (claim = NoPlan /\ claim' = st.winner)
          /\ step' = "left" \/ (step' = "claimed" /\ claim' = st.winner /\ st' = st)
          /\ st.winner # NoPlan
      BY <3>a, <3>b
    <3>2. /\ st'.outcome = st.outcome /\ st'.prodOutcome = st.prodOutcome
          /\ st'.prodApplied = st.prodApplied /\ st'.winner = st.winner
          /\ st'.escalated = st.escalated
      BY <3>1, <1>3, UpdatedFields DEF StateStays
    <3>3. PathInv'
      BY <1>1, <1>3, <3>1, <3>2 DEF ReportInv, PathInv, Fresh, Executed, LateNodes
    <3> QED
      BY <2>1, <3>1, <3>2, <3>3
  <2>4. CASE ProbeProduction
    <3>1. claim' = claim /\ claim = st.winner /\ claim # NoPlan
      BY <2>4, <1>1 DEF ProbeProduction, Elsewhere, storeVars, At, ReportInv, PathInv
    <3>2. CASE Raise
      <4>1. StateStays /\ step' = "left"
        BY <3>2 DEF Raise, Return, StateStays
      <4>2. st'.escalated = st.escalated
        BY <1>3, <4>1, UpdatedFields DEF StateStays
      <4>3. PathInv'
        BY <1>1, <3>1, <4>1, PathStays DEF ReportInv
      <4> QED
        BY <2>1, <3>1, <4>2, <4>3
    <3>3. CASE ~Raise
      <4>1. PICK o \in {"resolved", "not_resolved", "worsened"} :
               /\ step' = "left"
               /\ st' = [st EXCEPT !.prodApplied = st.winner, !.prodOutcome = o,
                                   !.outcome = IF o = "resolved" THEN "EXECUTED" ELSE @]
        BY <2>4, <3>3 DEF ProbeProduction, ProbedOutcomes, Return
      <4>2. /\ st'.prodApplied = st.winner /\ st'.prodOutcome = o
            /\ st'.outcome = IF o = "resolved" THEN "EXECUTED" ELSE st.outcome
            /\ st'.escalated = st.escalated
        BY <4>1, <1>3 DEF States
      <4>3. PathInv'
        BY <1>1, <1>3, <3>1, <4>1, <4>2
           DEF ReportInv, PathInv, Fresh, Executed, LateNodes
      <4> QED
        BY <2>1, <3>1, <4>2, <4>3
    <3> QED
      BY <3>2, <3>3
  <2> QED
    BY <2>2, <2>3, <2>4 DEF ProductionStep
<1>5. RowInv'
  BY <1>1, <1>4 DEF ReportInv, RowInv, RowIsTrue, PlaybookAgreesWithRow
<1>6. PagedInv'
  BY <1>1, <1>2, <1>4, PagedStays DEF ReportInv, Silent
<1> QED
  BY <1>4, <1>5, <1>6 DEF ReportInv

\* Cleaning up and telling Slack: nothing is told to on-call or written.
LEMMA CleanupKeepsReport ==
    ASSUME TypeOK, ReportInv,
           NotifySlack \/ UnregisterMirror \/ TeardownFleet \/ TeardownFleetFails
           \/ HandleFailureCleanup
    PROVE  ReportInv'
<1>1. /\ UNCHANGED <<node, tracked, claim, row, playbook, wd, pages, result>>
      /\ StateStays /\ step = "run" /\ step' \in {"run", "cleaned", "left"}
      /\ node \in {"notify_slack", "teardown_fleet", "handle_failure"}
      /\ node = "handle_failure" => step' = "cleaned"
  BY DEF NotifySlack, PostReasoning, UnregisterMirror, TeardownFleet, TeardownFleetFails,
     HandleFailureCleanup, At, Elsewhere, storeVars, Goto, Return, Raise, StateStays
<1>2. \A k \in {"page", "notfound"} : k \in failed' <=> k \in failed
  BY DEF NotifySlack, UnregisterMirror, TeardownFleet, TeardownFleetFails,
     HandleFailureCleanup, Cleanup, Fault
<1>3. PathInv'
  BY <1>1, PathStays DEF ReportInv
<1>4. RowInv'
  BY <1>1, RowStays DEF ReportInv
<1>5. st'.escalated = st.escalated
  BY <1>1, UpdatedFields DEF TypeOK, StateStays
<1>6. (Delivered <=> Delivered') /\ (Called <=> Called') /\ (Told => Told')
  BY <1>1, <1>2, <1>5 DEF Delivered, Called, Told
<1>7. PagedInv'
  BY <1>1, <1>2, <1>5, <1>6 DEF ReportInv, PagedInv
<1> QED
  BY <1>3, <1>4, <1>7 DEF ReportInv

\* A page sent, or answered with a 404, leaves on-call told of the incident.
LEMMA SendPageTells ==
    ASSUME TypeOK, SendPage
    PROVE  /\ Delivered' /\ pages' \in {pages, pages + 1}
           /\ "page" \in failed' <=> "page" \in failed
           /\ pages \in Nat
  BY DEF SendPage, NoteAdded, IncidentUnknown, Fault, Delivered, TypeOK

\* Paging on-call, from escalate_pagerduty.
LEMMA EscalateKeepsReport ==
    ASSUME TypeOK, ReportInv,
           EscalatePagerduty \/ EscalatePagerdutyReturns \/ EscalatePagerdutyFails
    PROVE  ReportInv'
<1>1. /\ UNCHANGED <<node, tracked, claim, row, playbook, wd, result>>
      /\ node = "escalate_pagerduty" /\ step # "left"
  BY DEF EscalatePagerduty, EscalatePagerdutyReturns, EscalatePagerdutyFails, PageFails,
     At, Elsewhere, storeVars, Goto, Return, Raise
<1>2. st \in States /\ st.escalated = FALSE /\ st.prodOutcome # "resolved"
  BY <1>1 DEF TypeOK, ReportInv, PathInv
<1>3. CASE EscalatePagerduty
  <2>1. SendPage /\ step = "run" /\ step' = "paged" /\ st' = st
    BY <1>3 DEF EscalatePagerduty, At, Goto
  <2>2. PathInv'
    BY <1>1, <2>1, PathStays DEF ReportInv, StateStays
  <2>3. RowInv'
    BY <1>1, <2>1, RowStays DEF ReportInv
  <2>4. wd = "sleeping" /\ "page" \notin failed => ~(pages > 0)
    BY <1>1, <1>2, <2>1 DEF ReportInv, PagedInv, Told
  <2>5. /\ Delivered' /\ pages' \in {pages, pages + 1} /\ pages \in Nat
        /\ "page" \in failed' <=> "page" \in failed
    BY <2>1, SendPageTells
  <2>6. Called' /\ Told'
    BY <1>1, <2>1, <2>5 DEF Called, Told
  <2>7. PagedInv'
    BY <1>1, <2>1, <2>4, <2>5, <2>6 DEF ReportInv, PagedInv
  <2> QED
    BY <2>2, <2>3, <2>7 DEF ReportInv
<1>4. CASE EscalatePagerdutyReturns
  <2>1. /\ step = "paged" /\ step' = "left" /\ UNCHANGED <<pages, failed>>
        /\ st' = [st EXCEPT !.outcome = "ESCALATED", !.escalated = TRUE]
    BY <1>4 DEF EscalatePagerdutyReturns, At, Return, Elsewhere
  <2>2. /\ st'.errors = st.errors /\ st'.outcome = "ESCALATED" /\ st'.escalated = TRUE
        /\ st'.prodOutcome = st.prodOutcome /\ st'.prodApplied = st.prodApplied
    BY <1>2, <2>1, UpdatedFields, Constants
  <2>3. PathInv'
    BY <1>1, <1>2, <2>1, <2>2 DEF ReportInv, PathInv, Executed, Closed, LateNodes
  <2>4. RowInv'
    BY <1>1, <2>1, RowStays DEF ReportInv
  <2>5. Delivered /\ (Delivered <=> Delivered') /\ (Called <=> Called') /\ Told'
    BY <1>1, <2>1, <2>2 DEF ReportInv, PagedInv, Delivered, Called, Told
  <2>6. PagedInv'
    BY <1>1, <2>1, <2>5 DEF ReportInv, PagedInv
  <2> QED
    BY <2>3, <2>4, <2>6 DEF ReportInv
<1>5. CASE EscalatePagerdutyFails
  <2>1. /\ Raise /\ "page" \in failed' /\ failed \subseteq failed' /\ pages' = pages
    BY <1>5 DEF EscalatePagerdutyFails, PageFails, Fault, Elsewhere
  <2>2. StateStays /\ step' = "left" /\ st'.errors = TRUE /\ st'.escalated = st.escalated
    BY <1>2, <2>1, UpdatedFields DEF Raise, Return, StateStays
  <2>3. PathInv'
    BY <1>1, <2>2, PathStays DEF ReportInv
  <2>4. RowInv'
    BY <1>1, <2>2, RowStays DEF ReportInv
  <2>5. (Delivered => Delivered') /\ Called'
    BY <2>1 DEF Delivered, Called
  <2>6. PagedInv'
    BY <1>1, <1>2, <2>1, <2>2, <2>5 DEF ReportInv, PagedInv
  <2> QED
    BY <2>3, <2>4, <2>6 DEF ReportInv
<1> QED
  BY <1>3, <1>4, <1>5

\* handle_failure pages unless the graph has, and writes a row that is no
\* success.
LEMMA FailureKeepsReport ==
    ASSUME TypeOK, ReportInv,
           HandleFailurePage \/ HandleFailurePageFails \/ HandleFailureRecord
    PROVE  ReportInv'
<1>1. /\ UNCHANGED <<node, tracked, claim, playbook, wd, result>>
      /\ node = "handle_failure" /\ step \in {"cleaned", "paged"}
  BY DEF HandleFailurePage, HandleFailurePageFails, HandleFailureRecord, PageFails,
     At, Elsewhere, storeVars, Goto, Return, Raise
<1>2. st \in States
  BY DEF TypeOK
<1>3. CASE HandleFailurePage
  <2>1. /\ step = "cleaned" /\ step' = "paged" /\ st' = st /\ row' = row
        /\ \/ st.escalated /\ UNCHANGED <<pages, failed>>
           \/ ~st.escalated /\ SendPage
    BY <1>3 DEF HandleFailurePage, At, Goto, storeVars
  <2>2. PathInv'
    BY <1>1, <2>1, PathStays DEF ReportInv, StateStays
  <2>3. RowInv'
    BY <1>1, <2>1, RowStays DEF ReportInv
  <2>4. Told'
    BY <1>1, <2>1 DEF Told
  <2>5. CASE st.escalated = TRUE /\ UNCHANGED <<pages, failed>>
    <3>1. Delivered /\ (Delivered <=> Delivered') /\ (Called <=> Called') /\ Told
      BY <2>5 DEF ReportInv, PagedInv, Delivered, Called, Told
    <3>2. PagedInv'
      BY <1>1, <2>1, <2>4, <2>5, <3>1 DEF ReportInv, PagedInv, Called
    <3> QED
      BY <2>2, <2>3, <3>2 DEF ReportInv
  <2>6. CASE st.escalated = FALSE /\ SendPage
    <3>1. wd = "sleeping" /\ "page" \notin failed => ~(pages > 0)
      BY <1>1, <2>1, <2>6 DEF ReportInv, PagedInv, Told
    <3>2. /\ Delivered' /\ pages' \in {pages, pages + 1} /\ pages \in Nat
          /\ "page" \in failed' <=> "page" \in failed
      BY <2>6, SendPageTells
    <3>3. PagedInv'
      BY <1>1, <2>1, <2>4, <3>1, <3>2 DEF ReportInv, PagedInv, Called
    <3> QED
      BY <2>2, <2>3, <3>3 DEF ReportInv
  <2> QED
    BY <1>2, <2>1, <2>5, <2>6, StateFields
<1>4. CASE HandleFailurePageFails
  <2>1. /\ Raise /\ "page" \in failed' /\ failed \subseteq failed' /\ UNCHANGED <<pages, row>>
    BY <1>4 DEF HandleFailurePageFails, PageFails, Fault, Elsewhere, storeVars
  <2>2. StateStays /\ step' = "left" /\ st'.escalated = st.escalated
    BY <1>2, <2>1, UpdatedFields DEF Raise, Return, StateStays
  <2>3. PathInv'
    BY <1>1, <2>2, PathStays DEF ReportInv
  <2>4. RowInv'
    BY <1>1, <2>1, <2>2, RowStays DEF ReportInv
  <2>5. (Delivered => Delivered') /\ Called'
    BY <2>1 DEF Delivered, Called
  <2>6. PagedInv'
    BY <1>1, <2>1, <2>2, <2>5 DEF ReportInv, PagedInv
  <2> QED
    BY <2>3, <2>4, <2>6 DEF ReportInv
<1>5. CASE HandleFailureRecord
  <2>1. /\ step = "paged" /\ step' = "left" /\ pages' = pages
        /\ \A k \in {"page", "notfound"} : k \in failed' <=> k \in failed
        /\ row' = row \/ (row = NoRow /\ row' = RunRecord(FailedState))
        /\ st' = FailedState \/ st' = [st EXCEPT !.errors = TRUE]
    BY <1>5 DEF HandleFailureRecord, At, Return, Raise, InsertRow, InsertFails, Fault
  <2>2. /\ FailedState \in States /\ FailedState.outcome \in {"ESCALATED", "FAILED"}
        /\ FailedState.prodOutcome = st.prodOutcome /\ FailedState.prodApplied = st.prodApplied
        /\ FailedState.escalated = TRUE
    <3> DEFINE o == IF st.escalated THEN "ESCALATED" ELSE "FAILED"
    <3>1. o \in Outcomes /\ FailedState = [st EXCEPT !.outcome = o, !.escalated = TRUE]
      BY Constants DEF FailedState
    <3>2. FailedState \in States
      BY <1>2, <3>1, StateUpdates
    <3>3. /\ FailedState.outcome = o /\ FailedState.escalated = TRUE
          /\ FailedState.prodOutcome = st.prodOutcome /\ FailedState.prodApplied = st.prodApplied
      BY <1>2 DEF FailedState, States
    <3> QED
      BY <3>2, <3>3
  <2>3. PathInv'
    <3>1. CASE st' = FailedState
      BY <1>1, <2>1, <2>2, <3>1 DEF ReportInv, PathInv, Executed, LateNodes
    <3>2. CASE st' = [st EXCEPT !.errors = TRUE]
      BY <1>1, <2>1, <3>2, PathStays DEF ReportInv, StateStays
    <3> QED
      BY <2>1, <3>1, <3>2
  <2>4. /\ RunRecord(FailedState).outcome \in {"ESCALATED", "FAILED"}
        /\ RunRecord(FailedState).applied = st.prodApplied
    BY <2>2, RowOf
  <2>5. RowInv'
    <3>1. row = NoRow => playbook \notin {"success", "failure"}
      BY DEF ReportInv, RowInv, PlaybookAgreesWithRow, NoRow
    <3> QED
      BY <1>1, <2>1, <2>4, <3>1
         DEF ReportInv, RowInv, PathInv, RowIsTrue, PlaybookAgreesWithRow
  <2>6. Delivered /\ (Delivered <=> Delivered') /\ (Called <=> Called') /\ Told'
    BY <1>1, <2>1 DEF ReportInv, PagedInv, Delivered, Called, Told
  <2>7. PagedInv'
    BY <1>1, <2>1, <2>6 DEF ReportInv, PagedInv, Called, Told
  <2> QED
    BY <2>3, <2>5, <2>7 DEF ReportInv
<1> QED
  BY <1>3, <1>4, <1>5

\* record_run writes the row of a run that is closed, and then tells the
\* playbook library what the row says.
LEMMA RecordKeepsReport ==
    ASSUME TypeOK, ReportInv, RecordRun \/ RecordRunPlaybook
    PROVE  ReportInv'
<1>1. /\ UNCHANGED <<node, tracked, claim, wd, pages, result>>
      /\ node = "record_run" /\ step \in {"run", "inserted"}
      /\ \A k \in {"page", "notfound"} : k \in failed' <=> k \in failed
  BY DEF RecordRun, RecordRunPlaybook, At, Goto, Return, Raise, Fault
<1>2. st \in States /\ Closed(st) /\ st.errors = FALSE
  BY <1>1 DEF TypeOK, ReportInv, PathInv
<1>3. /\ RunRecord(st).outcome = st.outcome /\ RunRecord(st).applied = st.prodApplied
      /\ RunRecord(st).prodOutcome = st.prodOutcome /\ RunRecord(st) # NoRow
  BY <1>2, RowOf
<1>4. (Delivered <=> Delivered') /\ (Called <=> Called')
  BY <1>1 DEF Delivered, Called
<1>5. st.outcome = "EXECUTED" \/ (st.outcome = "ESCALATED" /\ Delivered)
  BY <1>2 DEF Closed, ReportInv, PagedInv
<1>6. CASE RecordRun
  <2>1. /\ step = "run" /\ playbook' = playbook
        /\ row' = row \/ (row = NoRow /\ row' = RunRecord(st))
        /\ \/ step' = "inserted" /\ st' = st /\ row' = RunRecord(st)
           \/ step' = "left" /\ st' = [st EXCEPT !.errors = TRUE]
    BY <1>6 DEF RecordRun, At, Goto, Return, Raise, InsertRow, InsertFails
  <2>2. PathInv'
    BY <1>1, <2>1, PathStays DEF ReportInv, StateStays
  <2>a. [st EXCEPT !.errors = TRUE].errors = TRUE
        /\ [st EXCEPT !.errors = TRUE].escalated = st.escalated
    BY <1>2, UpdatedFields
  <2>3. st'.escalated = st.escalated /\ (step' = "left" => st'.errors = TRUE)
    BY <2>1, <2>a
  <2>4. RowInv'
    <3>1. row = NoRow => playbook \notin {"success", "failure"}
      BY DEF ReportInv, RowInv, PlaybookAgreesWithRow, NoRow
    <3>2. RowIsTrue' /\ PlaybookAgreesWithRow'
      BY <1>1, <1>3, <2>1, <3>1
         DEF ReportInv, RowInv, PathInv, Executed, RowIsTrue, PlaybookAgreesWithRow
    <3>3. node' = "record_run" /\ step' = "inserted" => row' = RunRecord(st')
      BY <2>1
    <3> QED
      BY <3>2, <3>3 DEF RowInv, RunRecord, ResolvedOutcome
  <2>5. Told => Told'
    BY <1>1, <2>3 DEF Told
  <2>6. PagedInv'
    BY <1>1, <1>3, <1>4, <1>5, <2>1, <2>3, <2>5 DEF ReportInv, PagedInv
  <2> QED
    BY <2>2, <2>4, <2>6 DEF ReportInv
<1>7. CASE RecordRunPlaybook
  <2>1. /\ step = "inserted" /\ step' = "left" /\ row' = row
        /\ playbook' \in {playbook, PlaybookVerdict}
        /\ st' = [st EXCEPT !.outcome = ResolvedOutcome(st)] \/ st' = [st EXCEPT !.errors = TRUE]
    BY <1>7 DEF RecordRunPlaybook, At, Return, Raise
  <2>2. row = RunRecord(st)
    BY <1>1, <2>1 DEF ReportInv, RowInv
  <2>3. ResolvedOutcome(st) = st.outcome /\ st.outcome \in Outcomes
    BY <1>2, <1>3, StateFields DEF RunRecord
  <2>4. /\ st'.outcome = st.outcome /\ st'.prodOutcome = st.prodOutcome
        /\ st'.prodApplied = st.prodApplied /\ st'.escalated = st.escalated
    <3> DEFINE e == [st EXCEPT !.outcome = ResolvedOutcome(st)]
    <3>1. /\ e.outcome = st.outcome /\ e.prodOutcome = st.prodOutcome
          /\ e.prodApplied = st.prodApplied /\ e.escalated = st.escalated
      BY <1>2, <2>3 DEF States
    <3>2. CASE st' = e
      BY <3>1, <3>2
    <3>3. CASE st' = [st EXCEPT !.errors = TRUE]
      BY <1>2, <3>3, UpdatedFields
    <3> QED
      BY <2>1, <3>2, <3>3
  <2>5. PathInv'
    BY <1>1, <1>2, <2>1, <2>4 DEF ReportInv, PathInv, Executed, Closed, LateNodes
  <2>6. RowInv'
    <3>1. PlaybookVerdict = "success" => row.outcome = "EXECUTED"
      BY <1>2, <1>3, <2>2 DEF PlaybookVerdict, Closed
    <3>2. PlaybookVerdict = "failure" =>
             row.outcome = "ESCALATED" /\ row.applied \in PlaybookPlans
      BY <1>2, <1>3, <2>2 DEF PlaybookVerdict, Closed, ReportInv, PathInv, Executed
    <3> QED
      BY <1>1, <2>1, <3>1, <3>2 DEF ReportInv, RowInv, RowIsTrue, PlaybookAgreesWithRow
  <2>7. Told => Told'
    BY <1>1, <2>4 DEF Told
  <2>8. row.outcome = "EXECUTED" \/ Called
    BY <1>3, <1>5, <2>2 DEF Called
  <2>9. PagedInv'
    BY <1>1, <1>4, <2>1, <2>4, <2>7, <2>8 DEF ReportInv, PagedInv
  <2> QED
    BY <2>5, <2>6, <2>9 DEF ReportInv
<1> QED
  BY <1>6, <1>7

\* Where Route comes from.
LEMMA Entries ==
    ASSUME TypeOK, Route
    PROVE  /\ node # "END" /\ step = "left" /\ (node' # "END" => step' = "run")
           /\ st' = st /\ tracked' \in {tracked, st}
           /\ UNCHANGED <<claim, row, playbook, wd, pages, result, failed>>
           /\ node' = "actuate" => node = "safety_kernel"
           /\ node' = "notify_slack" => node = "actuate" /\ st.prodOutcome = "resolved"
           /\ node' = "escalate_pagerduty" =>
                 \/ node \in {"tournament", "safety_kernel"}
                 \/ node = "actuate" /\ st.prodOutcome # "resolved"
           /\ node' = "teardown_fleet" =>
                 node \in {"notify_slack", "escalate_pagerduty"} /\ st.errors = FALSE
           /\ node' = "record_run" => node = "teardown_fleet" /\ st.errors = FALSE
           /\ node' = "END" =>
                 node = "handle_failure" \/ (node = "record_run" /\ st.errors = FALSE)
<1>1. /\ node # "END" /\ step = "left" /\ (node' # "END" => step' = "run")
      /\ st' = st /\ tracked' \in {tracked, st}
      /\ UNCHANGED <<claim, row, playbook, wd, pages, result, failed>>
  BY DEF Route, TypeOK, storeVars
<1>2. node' = NextNode(st, node) /\ node \in Nodes
  BY <1>1 DEF Route, TypeOK
<1>3. st.errors \in BOOLEAN
  BY StateFields DEF TypeOK
<1>4. CASE node \in {"tournament", "safety_kernel", "actuate", "handle_failure"}
  BY <1>1, <1>2, <1>4
     DEF NextNode, RouteTournament, RouteSafetyKernel, RouteActuation
<1>5. CASE node \in {"ingest", "gather_context", "plan_candidates", "fork_fleet",
                     "register_mirrors", "apply_candidates", "observe"}
  BY <1>1, <1>2, <1>5 DEF NextNode, RouteLinear, LinearNext
<1>6. CASE node \in {"notify_slack", "escalate_pagerduty", "teardown_fleet", "record_run"}
  BY <1>1, <1>2, <1>3, <1>6 DEF NextNode, RouteLinear, LinearNext
<1> QED
  BY <1>2, <1>4, <1>5, <1>6 DEF Nodes

\* Entering a node: what is known of the run on the way decides where it goes.
LEMMA RouteKeepsReport ==
    ASSUME TypeOK, ReportInv, Route
    PROVE  ReportInv'
<1>1. /\ node # "END" /\ step = "left" /\ (node' # "END" => step' = "run")
      /\ st' = st /\ tracked' \in {tracked, st}
      /\ UNCHANGED <<claim, row, playbook, wd, pages, result, failed>>
  BY Entries
<1>2. node' \notin LateNodes => node \notin LateNodes
  BY LateRoutes
<1>3. node' \notin LateNodes \/ node' = "actuate" => Fresh(st)
  BY <1>2, Entries DEF ReportInv, PathInv, LateNodes
<1>4. node' = "notify_slack" => st.outcome = "EXECUTED"
  BY Entries DEF ReportInv, PathInv
<1>5. node' = "escalate_pagerduty" => st.prodOutcome # "resolved" /\ st.escalated = FALSE
  BY Entries DEF ReportInv, PathInv, Fresh, LateNodes
<1>6. node' \in {"teardown_fleet", "record_run"} => Closed(st)
  BY <1>1, Entries DEF ReportInv, PathInv, Closed
<1>7. node' = "record_run" => st.errors = FALSE
  BY Entries
<1>8. PathInv'
  <2>1. Executed(st') /\ (st'.prodApplied # NoPlan => st'.prodApplied = claim')
        /\ (tracked'.prodApplied # NoPlan => tracked'.prodApplied = claim')
    BY <1>1 DEF ReportInv, PathInv, Executed
  <2>2. node' = "actuate" => st.escalated = FALSE /\ st.prodOutcome # "resolved"
    BY <1>3 DEF Fresh
  <2>3. node' \in {"actuate", "escalate_pagerduty"} =>
           step' \notin {"claimed", "applying", "probing", "left"}
    BY <1>1
  <2>4. Fresh(st) => Fresh(st')
    BY <1>1 DEF Fresh
  <2>5. Closed(st) => Closed(st')
    BY <1>1 DEF Closed
  <2> QED
    BY <1>1, <1>3, <1>4, <1>5, <1>6, <1>7, <2>1, <2>2, <2>3, <2>4, <2>5 DEF PathInv
<1>9. RowInv'
  <2>1. ~(node' = "record_run" /\ step' = "inserted")
    BY <1>1
  <2> QED
    BY <1>1, <2>1 DEF ReportInv, RowInv, RowIsTrue, PlaybookAgreesWithRow
<1>10. PagedInv'
  <2>1. (Delivered <=> Delivered') /\ (Called <=> Called')
    BY <1>1 DEF Delivered, Called
  <2>2. Told => Told'
    <3>1. node = "handle_failure" => node' = "END"
      BY DEF Route, NextNode
    <3> QED
      BY <1>1, <3>1 DEF Told
  <2>3. node' = "END" => row.outcome = "EXECUTED" \/ Called
    BY <1>1, Entries DEF ReportInv, PagedInv
  <2> QED
    BY <1>1, <2>1, <2>2, <2>3 DEF ReportInv, PagedInv
<1> QED
  BY <1>8, <1>9, <1>10 DEF ReportInv

\* What changes nothing of the graph task keeps the path.
LEMMA PathKept ==
    ASSUME PathInv, UNCHANGED <<st, tracked, node, step, claim>>
    PROVE  PathInv'
  BY DEF PathInv, Fresh, Executed, Closed

\* The watchdog calls on-call before it writes the row of the cancelled run.
LEMMA WatchdogKeepsReport ==
    ASSUME TypeOK, ReportInv, WatchdogFires \/ WatchdogStep
    PROVE  ReportInv'
<1>1. UNCHANGED <<st, tracked, node, step, claim, playbook, result>>
  BY DEF WatchdogFires, WatchdogStep, EmergencyCleanup, EmergencyPage, EmergencyRecord,
     graphVars, storeVars
<1>2. PathInv'
  BY <1>1, PathKept DEF ReportInv
<1>3. Told => Told'
  BY <1>1 DEF Told
<1>4. CASE WatchdogFires \/ EmergencyCleanup
  <2>1. /\ UNCHANGED <<row, pages>> /\ wd \in {"sleeping", "cleanup"} /\ wd' \in {"cleanup", "page"}
        /\ \A k \in {"page", "notfound"} : k \in failed' <=> k \in failed
    BY <1>4 DEF WatchdogFires, EmergencyCleanup, Cleanup, Fault, storeVars
  <2>2. (Delivered <=> Delivered') /\ (Called <=> Called')
    BY <2>1 DEF Delivered, Called
  <2>3. RowInv'
    BY <1>1, <2>1, RowStays DEF ReportInv
  <2>4. PagedInv'
    BY <1>1, <2>1, <2>2 DEF ReportInv, PagedInv
  <2> QED
    BY <1>2, <2>3, <2>4 DEF ReportInv
<1>5. CASE EmergencyPage
  <2>1. row' = row /\ wd = "page" /\ wd' = "record"
    BY <1>5 DEF EmergencyPage, storeVars
  <2>2. (Delivered => Delivered') /\ Called'
    <3>1. CASE SendPage
      BY <3>1, SendPageTells DEF Called
    <3>2. CASE pages' \in {pages, pages + 1} /\ Fault("page")
      BY <3>2 DEF Fault, Delivered, Called, TypeOK
    <3> QED
      BY <1>5, <3>1, <3>2 DEF EmergencyPage
  <2>3. RowInv'
    BY <1>1, <2>1, RowStays DEF ReportInv
  <2>4. PagedInv'
    BY <1>1, <2>1, <2>2 DEF ReportInv, PagedInv
  <2> QED
    BY <1>2, <2>3, <2>4 DEF ReportInv
<1>6. CASE EmergencyRecord
  <2>1. /\ wd = "record" /\ wd' = "timed_out" /\ pages' = pages
        /\ \A k \in {"page", "notfound"} : k \in failed' <=> k \in failed
        /\ row' = row \/ (row = NoRow /\ row' = RunRecord(EscalatedState))
    BY <1>6 DEF EmergencyRecord, InsertRow, InsertFails, Fault
  <2>2. (Delivered <=> Delivered') /\ (Called <=> Called') /\ Called
    BY <2>1 DEF ReportInv, PagedInv, Delivered, Called
  <2>3. /\ RunRecord(EscalatedState).applied = tracked.prodApplied
        /\ RunRecord(EscalatedState).outcome # "EXECUTED"
    <3>1. EscalatedState \in States
      BY StateUpdates, Constants DEF EscalatedState, TypeOK
    <3>2. EscalatedState.outcome = "ESCALATED" /\ EscalatedState.prodApplied = tracked.prodApplied
      BY DEF EscalatedState, TypeOK, States
    <3> QED
      BY <3>1, <3>2, RowOf
  <2>4. RowInv'
    <3>1. row = NoRow => playbook \notin {"success", "failure"}
      BY DEF ReportInv, RowInv, PlaybookAgreesWithRow, NoRow
    <3>2. node = "record_run" /\ step = "inserted" => row' = RunRecord(st)
      BY <2>1, RowOf DEF ReportInv, RowInv, TypeOK
    <3>3. RowIsTrue' /\ PlaybookAgreesWithRow'
      BY <1>1, <2>1, <2>3, <3>1
         DEF ReportInv, PathInv, RowInv, RowIsTrue, PlaybookAgreesWithRow
    <3> QED
      BY <1>1, <3>2, <3>3 DEF RowInv
  <2>5. PagedInv'
    BY <1>1, <2>1, <2>2 DEF ReportInv, PagedInv, Called
  <2> QED
    BY <1>2, <2>4, <2>5 DEF ReportInv
<1> QED
  BY <1>4, <1>5, <1>6 DEF WatchdogStep

\* Late calls, the caller of the run, and stuttering.
LEMMA OthersKeepReport ==
    ASSUME TypeOK, ReportInv,
           CreateTwin \/ AbandonedPatch \/ ReturnResult \/ UNCHANGED vars
    PROVE  ReportInv'
<1>1. /\ UNCHANGED <<st, tracked, node, step, claim, row, playbook, wd, pages, failed>>
      /\ result' # "none" => result' = result \/ node = "END" \/ wd = "timed_out"
  BY DEF CreateTwin, AbandonedPatch, ReturnResult, vars, graphVars, storeVars, Elsewhere,
     TypeOK
<1>2. PathInv'
  BY <1>1, PathKept DEF ReportInv
<1>3. RowInv'
  BY <1>1 DEF ReportInv, RowInv, RowIsTrue, PlaybookAgreesWithRow
<1>4. (Delivered <=> Delivered') /\ (Called <=> Called') /\ (Told => Told')
  BY <1>1 DEF Delivered, Called, Told
<1>5. PagedInv'
  BY <1>1, <1>4 DEF ReportInv, PagedInv
<1> QED
  BY <1>2, <1>3, <1>5 DEF ReportInv

\* Every step keeps the invariant.
LEMMA ReportInvNext ==
    ASSUME TypeOK, ReportInv, [Next]_vars
    PROVE  ReportInv'
<1>1. CASE EarlyStep
  BY <1>1, EarlyKeepsReport
<1>2. CASE ProductionStep
  BY <1>2, ActuateKeepsReport
<1>3. CASE NotifySlack \/ UnregisterMirror \/ TeardownFleet \/ TeardownFleetFails
           \/ HandleFailureCleanup
  BY <1>3, CleanupKeepsReport
<1>4. CASE EscalatePagerduty \/ EscalatePagerdutyReturns \/ EscalatePagerdutyFails
  BY <1>4, EscalateKeepsReport
<1>5. CASE HandleFailurePage \/ HandleFailurePageFails \/ HandleFailureRecord
  BY <1>5, FailureKeepsReport
<1>6. CASE RecordRun \/ RecordRunPlaybook
  BY <1>6, RecordKeepsReport
<1>7. CASE Route
  BY <1>7, RouteKeepsReport
<1>8. CASE WatchdogFires \/ WatchdogStep
  BY <1>8, WatchdogKeepsReport
<1>9. CASE CreateTwin \/ AbandonedPatch \/ ReturnResult \/ UNCHANGED vars
  BY <1>9, OthersKeepReport
<1>10. Ended => UNCHANGED vars
  BY DEF Ended
<1> QED
  BY <1>1, <1>2, <1>3, <1>4, <1>5, <1>6, <1>7, <1>8, <1>9, <1>10
     DEF Next, NodeStep, EarlyStep

\* The steps of the graph task past actuate, which leave production alone.
ClosingStep ==
    \/ NotifySlack \/ UnregisterMirror \/ TeardownFleet \/ TeardownFleetFails
    \/ HandleFailureCleanup
    \/ EscalatePagerduty \/ EscalatePagerdutyReturns \/ EscalatePagerdutyFails
    \/ HandleFailurePage \/ HandleFailurePageFails \/ HandleFailureRecord
    \/ RecordRun \/ RecordRunPlaybook

\* Every step of a node is one of the running task, which stays in the node.
LEMMA NodeSteps ==
    ASSUME NodeStep
    PROVE  task = "running" /\ UNCHANGED <<task, node, wd, result>>
<1>1. CASE EarlyStep
  BY <1>1 DEF EarlyStep, Ingest, GatherContext, PlanCandidates, ForkRefused, StartFork,
     ForkFleet, ForkFleetFails, NodeTimesOut, RegisterMirror, RegisterMirrors,
     ApplyCandidates, Observe, Tournament, SafetyKernel, At, Elsewhere, Return, Raise, Goto
<1>2. CASE ProductionStep
  BY <1>2 DEF ProductionStep, ActuateRefused, RecordPreActuation, StartApply, FinishApply,
     ProbeProduction, At, Elsewhere, Return, Raise, Goto
<1>3. CASE ClosingStep
  BY <1>3 DEF ClosingStep, NotifySlack, PostReasoning, UnregisterMirror, TeardownFleet,
     TeardownFleetFails, HandleFailureCleanup, EscalatePagerduty, EscalatePagerdutyReturns,
     EscalatePagerdutyFails, HandleFailurePage, HandleFailurePageFails, HandleFailureRecord,
     PageFails, RecordRun, RecordRunPlaybook, At, Elsewhere, Return, Raise, Goto
<1> QED
  BY <1>1, <1>2, <1>3 DEF NodeStep, EarlyStep, ClosingStep

\* A page is never taken back, nor a failure or the end of the watchdog forgotten.
LEMMA TellingStays ==
    ASSUME TypeOK, Next
    PROVE  /\ Delivered => Delivered'
           /\ Called => Called'
           /\ failed \subseteq failed'
           /\ wd = "timed_out" => wd' = "timed_out"
<1>1. failed \subseteq failed' /\ pages' \in {pages, pages + 1}
  BY DEF Next, NodeStep, ProductionStep, WatchdogStep, Ingest, GatherContext,
     PlanCandidates, ForkRefused, StartFork, ForkFleet, ForkFleetFails, RegisterMirror,
     RegisterMirrors, ApplyCandidates, Observe, Tournament, SafetyKernel, ActuateRefused,
     RecordPreActuation, StartApply, FinishApply, ProbeProduction, NotifySlack,
     EscalatePagerduty, EscalatePagerdutyReturns, EscalatePagerdutyFails, PageFails,
     UnregisterMirror, TeardownFleet, TeardownFleetFails, RecordRun, RecordRunPlaybook,
     HandleFailureCleanup, HandleFailurePage, HandleFailurePageFails,
     HandleFailureRecord, Route, WatchdogFires, EmergencyCleanup, EmergencyPage,
     EmergencyRecord, CreateTwin, AbandonedPatch, ReturnResult, Ended, vars, Elsewhere,
     Cleanup, SendPage, NoteAdded, IncidentUnknown, Fault
<1>2. pages > 0 => pages' > 0
  BY <1>1 DEF TypeOK
<1>3. wd = "timed_out" => wd' = "timed_out"
  <2>1. CASE NodeStep
    BY <2>1, NodeSteps
  <2>2. CASE ~NodeStep
    BY <2>2 DEF Next, Route, WatchdogFires, WatchdogStep, EmergencyCleanup, EmergencyPage,
       EmergencyRecord, CreateTwin, AbandonedPatch, ReturnResult, Ended, vars, Elsewhere
  <2> QED
    BY <2>1, <2>2
<1> QED
  BY <1>1, <1>2, <1>3 DEF Delivered, Called

\* Whoever writes a row that does not say EXECUTED has called on-call before.
LEMMA RowWriters ==
    ASSUME TypeOK, ReportInv, Next
    PROVE  \/ row' = row
           \/ row'.outcome = "EXECUTED" /\ row'.applied # NoPlan
           \/ Delivered
           \/ Called /\ wd' = "timed_out"
<1>1. CASE RecordRun
  <2>1. node = "record_run" /\ step = "run" /\ row' \in {row, RunRecord(st)}
    BY <1>1 DEF RecordRun, At, InsertRow, InsertFails
  <2>2. st \in States /\ Closed(st) /\ st.errors = FALSE /\ Executed(st)
    BY <2>1 DEF TypeOK, ReportInv, PathInv
  <2>3. RunRecord(st).outcome = st.outcome /\ RunRecord(st).applied = st.prodApplied
    BY <2>2, RowOf
  <2> QED
    BY <2>1, <2>2, <2>3 DEF Closed, Executed, ReportInv, PagedInv
<1>2. CASE HandleFailureRecord
  BY <1>2 DEF HandleFailureRecord, At, ReportInv, PagedInv
<1>3. CASE EmergencyRecord
  BY <1>3 DEF EmergencyRecord, ReportInv, PagedInv
<1>4. CASE ~(RecordRun \/ HandleFailureRecord \/ EmergencyRecord)
  <2>1. row' = row
    BY <1>4 DEF Next, NodeStep, ProductionStep, WatchdogStep, Ingest, GatherContext,
       PlanCandidates, ForkRefused, StartFork, ForkFleet, ForkFleetFails, RegisterMirror,
       RegisterMirrors, ApplyCandidates, Observe, Tournament, SafetyKernel, ActuateRefused,
       RecordPreActuation, StartApply, FinishApply, ProbeProduction, NotifySlack,
       EscalatePagerduty, EscalatePagerdutyReturns, EscalatePagerdutyFails,
       UnregisterMirror, TeardownFleet, TeardownFleetFails, RecordRunPlaybook,
       HandleFailureCleanup, HandleFailurePage, HandleFailurePageFails, Route,
       WatchdogFires, EmergencyCleanup, EmergencyPage, CreateTwin, AbandonedPatch,
       ReturnResult, Ended, vars, Elsewhere, storeVars
  <2> QED
    BY <2>1
<1> QED
  BY <1>1, <1>2, <1>3, <1>4

\* Every step keeps the rows of the only run behind its pages.
LEMMA RowPagedNext ==
    ASSUME TypeOK, ReportInv, RowPagedInv, [Next]_vars
    PROVE  RowPagedInv'
<1>1. CASE UNCHANGED vars
  BY <1>1 DEF RowPagedInv, Delivered, vars
<1>2. CASE Next
  BY <1>2, RowWriters, TellingStays DEF RowPagedInv, Called
<1> QED
  BY <1>1, <1>2

(***************************************************************************)
(* What a run leaves in the store agrees with what it did to production,   *)
(* whichever of record_run, handle_failure and the watchdog wrote it.      *)
(***************************************************************************)
THEOREM RecordIsSound == Spec => []RecordSound
<1>1. ReportInv => RecordSound
  BY DEF ReportInv, RowInv, RecordSound
<1> QED
  BY <1>1, TypeInvariant, ReportInit, ReportInvNext, PTL DEF Spec

(***************************************************************************)
(* On-call hears of every run that did not resolve its incident, and hears *)
(* of it once, whatever fails and whenever the watchdog strikes.           *)
(***************************************************************************)
THEOREM PagingIsSound == Spec => []PagingSound
<1>1. TypeOK /\ ReportInv /\ RowPagedInv => PagingSound
  <2> SUFFICES ASSUME TypeOK, ReportInv, RowPagedInv PROVE PagingSound
    OBVIOUS
  <2>1. pages \in Nat
    BY DEF TypeOK
  <2>2. GraphPagesOnce
    BY <2>1 DEF ReportInv, PagedInv, GraphPagesOnce, TypeOK
  <2>3. NoSilentEnd
    BY <2>1 DEF ReportInv, PagedInv, NoSilentEnd, Called, Delivered
  <2>4. UnresolvedRowsPaged
    BY <2>1 DEF RowPagedInv, UnresolvedRowsPaged, Delivered
  <2> QED
    BY <2>2, <2>3, <2>4 DEF PagingSound
<1>2. Init => RowPagedInv
  BY DEF Init, NoRow, RowPagedInv
<1> QED
  BY <1>1, <1>2, TypeInvariant, ReportInit, ReportInvNext, RowPagedNext, PTL DEF Spec

-------------------------------------------------------------------------------
(***************************************************************************)
(* The control loop keeps the contract of an incident run: every step of   *)
(* it, with its failures, late calls and watchdog, is a step of            *)
(* IncidentContract or changes nothing the contract speaks of; and what a  *)
(* run leaves in the cluster is what a failed cleanup left there.          *)
(***************************************************************************)

(***************************************************************************)
(* The watchdog works only after it has cancelled the graph task, and a    *)
(* run returns only when the task is done or the watchdog is.              *)
(***************************************************************************)
CallerInv ==
    /\ wd # "sleeping" => task = "cancelled"
    /\ result # "none" => task = "done" \/ wd = "timed_out"

LEMMA CallerNext ==
    ASSUME TypeOK, CallerInv, [Next]_vars
    PROVE  CallerInv'
<1>1. CASE NodeStep
  BY <1>1, NodeSteps DEF CallerInv
<1>2. CASE Route \/ WatchdogFires \/ WatchdogStep
  <2>1. result = "none"
    BY <1>2 DEF Route, WatchdogFires, WatchdogStep, EmergencyCleanup, EmergencyPage,
       EmergencyRecord, CallerInv, TypeOK
  <2> QED
    BY <1>2, <2>1 DEF Route, WatchdogFires, WatchdogStep, EmergencyCleanup, EmergencyPage,
       EmergencyRecord, graphVars, CallerInv
<1>3. CASE CreateTwin \/ AbandonedPatch \/ ReturnResult \/ Ended \/ UNCHANGED vars
  BY <1>3 DEF CreateTwin, AbandonedPatch, ReturnResult, Ended, vars, graphVars, Elsewhere,
     CallerInv
<1> QED
  BY <1>1, <1>2, <1>3 DEF Next

(***************************************************************************)
(* What the contract needs beside ReportInv: a row closes the run before   *)
(* production can be claimed or touched again, and a run that found        *)
(* production recovered has no patch of its own in flight.                 *)
(***************************************************************************)
SettleInv ==
    /\ CallerInv
    /\ row # NoRow =>
          \/ wd = "timed_out"
          \/ node = "record_run" /\ step # "run"
          \/ node \in {"handle_failure", "END"}
    /\ prod # "clean" =>
          node \in LateNodes /\ ~(node = "actuate" /\ step \in {"run", "claimed"})
    /\ node = "actuate" /\ step = "applying" /\ task = "running" => prod = "inflight"
    /\ node = "actuate" /\ step = "probing" => prod # "inflight"
    /\ st.outcome = "EXECUTED" => prod # "inflight"

\* At first production is clean and no row is written.
LEMMA SettleInit == Init => SettleInv
  BY DEF Init, InitialState, SettleInv, CallerInv

\* The steps past actuate claim and touch nothing.
LEMMA ClosingSteps ==
    ASSUME TypeOK, ReportInv, ClosingStep
    PROVE  /\ UNCHANGED <<prod, claim>> /\ node \notin {"actuate", "END"} /\ node \in LateNodes
           /\ st'.outcome = "EXECUTED" => st.outcome = "EXECUTED"
           /\ row' # NoRow => row' = row \/ node \in {"record_run", "handle_failure"}
           /\ node = "record_run" => step' # "run"
<1>1. /\ UNCHANGED <<prod, claim>> /\ node \notin {"actuate", "END"} /\ node \in LateNodes
      /\ row' = row \/ node \in {"record_run", "handle_failure"}
      /\ node = "record_run" => step' # "run"
  BY DEF ClosingStep, NotifySlack, PostReasoning, UnregisterMirror, TeardownFleet,
     TeardownFleetFails, HandleFailureCleanup, EscalatePagerduty, EscalatePagerdutyReturns,
     EscalatePagerdutyFails, HandleFailurePage, HandleFailurePageFails, HandleFailureRecord,
     PageFails, RecordRun, RecordRunPlaybook, At, Elsewhere, storeVars, LateNodes, Return,
     Raise, Goto
<1>2. st \in States /\ [st EXCEPT !.errors = TRUE].outcome = st.outcome
  BY UpdatedFields DEF TypeOK
<1>3. CASE RecordRunPlaybook
  <2>1. st.errors = FALSE /\ Closed(st)
    BY <1>3 DEF RecordRunPlaybook, At, ReportInv, PathInv
  <2>2. ResolvedOutcome(st) = st.outcome /\ st.outcome \in Outcomes
    BY <1>2, <2>1, RowOf, StateFields DEF RunRecord
  <2>3. [st EXCEPT !.outcome = ResolvedOutcome(st)].outcome = st.outcome
    BY <1>2, <2>2 DEF States
  <2> QED
    BY <1>1, <1>2, <1>3, <2>3 DEF RecordRunPlaybook, Return, Raise
<1>4. CASE ~RecordRunPlaybook
  <2>1. \/ st' = st \/ st' = [st EXCEPT !.errors = TRUE] \/ st' = FailedState
        \/ st' = [st EXCEPT !.outcome = "ESCALATED", !.escalated = TRUE]
    BY <1>4
     DEF ClosingStep, NotifySlack, PostReasoning, UnregisterMirror, TeardownFleet,
         TeardownFleetFails, HandleFailureCleanup, EscalatePagerduty,
         EscalatePagerdutyReturns, EscalatePagerdutyFails, HandleFailurePage,
         HandleFailurePageFails, HandleFailureRecord, PageFails, RecordRun, Return,
         Raise, Goto
  <2>2. FailedState.outcome # "EXECUTED"
        /\ [st EXCEPT !.outcome = "ESCALATED", !.escalated = TRUE].outcome = "ESCALATED"
    BY <1>2 DEF FailedState, States
  <2> QED
    BY <1>1, <1>2, <2>1, <2>2
<1> QED
  BY <1>3, <1>4

\* Production settles before the probe, and is never touched after a row.
LEMMA SettleNext ==
    ASSUME TypeOK, ReportInv, SettleInv, [Next]_vars
    PROVE  SettleInv'
<1>1. CASE EarlyStep
  <2>1. node \notin LateNodes /\ Fresh(st)
    BY <1>1, EarlySteps DEF ReportInv, PathInv
  <2>2. Fresh(st') /\ UNCHANGED <<node, row, wd, result>>
    BY <1>1, <2>1, EarlyStaysFresh
  <2>3. prod' = prod /\ prod = "clean"
    BY <1>1, <2>1, EarlySteps DEF SettleInv, CallerInv
  <2>4. task = "running" /\ task' = task
    BY <1>1, NodeSteps DEF NodeStep, EarlyStep
  <2> QED
    BY <2>1, <2>2, <2>3, <2>4 DEF SettleInv, CallerInv, Fresh, LateNodes
<1>2. CASE ProductionStep
  <2>1. task = "running" /\ UNCHANGED <<task, node, wd, result>>
    BY <1>2, NodeSteps DEF NodeStep
  <2>2. node = "actuate" /\ step # "left" /\ row' = row /\ node \in LateNodes
    BY <1>2 DEF ProductionStep, ActuateRefused, RecordPreActuation, StartApply, FinishApply,
       ProbeProduction, At, Elsewhere, storeVars, LateNodes
  <2>3. Fresh(st) /\ st \in States
    BY <2>2 DEF ReportInv, PathInv, TypeOK
  <2>4. st.outcome # "EXECUTED" /\ [st EXCEPT !.errors = TRUE].outcome # "EXECUTED"
    BY <2>3, UpdatedFields DEF Fresh
  <2>5. CASE ProbeProduction
    <3>1. step = "probing" /\ step' = "left" /\ prod' = prod
      BY <2>5 DEF ProbeProduction, At, Elsewhere, Return, Raise
    <3> QED
      BY <2>1, <2>2, <3>1 DEF SettleInv, CallerInv
  <2>6. CASE StartApply
    <3>1. /\ step = "claimed" /\ prod = "clean" /\ st'.outcome # "EXECUTED"
          /\ \/ prod' = "inflight" /\ step' = "applying"
             \/ prod' = prod /\ step' \in {"probing", "left"}
      BY <2>2, <2>4, <2>6 DEF StartApply, At, SettleInv, CallerInv, Goto, Return, Raise
    <3> QED
      BY <2>1, <2>2, <3>1 DEF SettleInv, CallerInv
  <2>7. CASE FinishApply
    <3>1. /\ st'.outcome # "EXECUTED"
          /\ \/ prod' = "mutated" /\ step' = "probing"
             \/ step' = "left"
      BY <2>4, <2>7 DEF FinishApply, Goto, Return, Raise
    <3> QED
      BY <2>1, <2>2, <3>1 DEF SettleInv, CallerInv
  <2>8. CASE ActuateRefused \/ RecordPreActuation
    <3>1. st'.outcome # "EXECUTED" /\ prod' = prod /\ step' \in {"claimed", "left"}
          /\ (step' = "claimed" => step = "run")
      BY <2>4, <2>8
         DEF ActuateRefused, RecordPreActuation, At, Elsewhere, Goto, Return, Raise
    <3> QED
      BY <2>1, <2>2, <3>1 DEF SettleInv, CallerInv
  <2> QED
    BY <1>2, <2>5, <2>6, <2>7, <2>8 DEF ProductionStep
<1>3. CASE ClosingStep
  <2>1. task = "running" /\ UNCHANGED <<task, node, wd, result>>
    BY <1>3, NodeSteps DEF NodeStep, ClosingStep
  <2> QED
    BY <1>3, <2>1, ClosingSteps DEF SettleInv, CallerInv
<1>4. CASE Route
  <2>1. task = "running" /\ prod' = prod
    BY <1>4 DEF Route
  <2>2. result = "none" /\ wd = "sleeping"
    BY <2>1 DEF SettleInv, CallerInv
  <2>3. node \in {"record_run", "handle_failure"} => node' \in {"handle_failure", "END"}
    BY <1>4 DEF Route, NextNode, RouteLinear, LinearNext
  <2>4. node \in LateNodes => node' \in LateNodes /\ node' # "actuate"
    BY <1>4, LateRoutes, Entries DEF LateNodes
  <2>5. /\ UNCHANGED <<st, row, wd, result>> /\ node # "END"
        /\ node' = "actuate" => step' = "run"
    BY <1>4, Entries
  <2> QED
    BY <2>1, <2>2, <2>3, <2>4, <2>5 DEF SettleInv, CallerInv
<1>5. CASE WatchdogFires \/ WatchdogStep
  <2>1. /\ UNCHANGED <<st, node, step, prod, result>> /\ task' = "cancelled"
        /\ row' = row \/ wd' = "timed_out"
        /\ wd # "timed_out"
    BY <1>5 DEF WatchdogFires, WatchdogStep, EmergencyCleanup, EmergencyPage,
       EmergencyRecord, graphVars, storeVars, SettleInv, CallerInv
  <2>2. result = "none"
    BY <1>5, <2>1
       DEF SettleInv, CallerInv, WatchdogFires, WatchdogStep, EmergencyCleanup, EmergencyPage,
           EmergencyRecord
  <2> QED
    BY <2>1, <2>2 DEF SettleInv, CallerInv
<1>6. CASE AbandonedPatch
  <2>1. /\ UNCHANGED <<st, node, step, task, wd, result, row>>
        /\ prod = "inflight" /\ prod' \in {"clean", "mutated"} /\ ~At("actuate", "applying")
    BY <1>6 DEF AbandonedPatch, graphVars, storeVars
  <2> QED
    BY <2>1 DEF SettleInv, CallerInv, At
<1>7. CASE CreateTwin \/ ReturnResult \/ UNCHANGED vars
  <2>1. /\ UNCHANGED <<st, node, step, task, wd, row, prod>>
        /\ result' = result \/ task = "done" \/ wd = "timed_out"
    BY <1>7 DEF CreateTwin, ReturnResult, vars, graphVars, storeVars, Elsewhere
  <2> QED
    BY <2>1 DEF SettleInv, CallerInv
<1>8. Ended => UNCHANGED vars
  BY DEF Ended
<1> QED
  BY <1>1, <1>2, <1>3, <1>4, <1>5, <1>6, <1>7, <1>8
     DEF Next, NodeStep, EarlyStep, ClosingStep

(***************************************************************************)
(* The steps of the contract, in the words of the control loop.            *)
(***************************************************************************)
LEMMA Stutters ==
    ASSUME UNCHANGED <<prod, claim, row, result>>, Called' <=> Called
    PROVE  UNCHANGED Contract!vars
<1>1. Called <=> (pages > 0 \/ failed \cap {"page", "notfound"} # {})
  BY DEF Called, Delivered
<1>2. Called' <=> (pages' > 0 \/ failed' \cap {"page", "notfound"} # {})
  BY DEF Called, Delivered
<1> QED
  BY <1>1, <1>2 DEF Contract!vars

\* A step after which on-call has been called is the contract's Call.
LEMMA Calls ==
    ASSUME UNCHANGED <<prod, claim, row, result>>, result = "none", Called'
    PROVE  Contract!Call
<1>1. pages' > 0 \/ failed' \cap {"page", "notfound"} # {}
  BY DEF Called, Delivered
<1> QED
  BY <1>1 DEF Contract!Call

\* The first row, if it says what happened, is the contract's Write.
LEMMA Writes ==
    ASSUME UNCHANGED <<prod, claim, result>>, result = "none", Called' <=> Called,
           row = NoRow, row'.applied \in {claim, NoPlan},
           \/ row'.outcome = "EXECUTED" /\ row'.applied # NoPlan /\ prod # "inflight"
           \/ row'.outcome \in {"ESCALATED", "FAILED"} /\ Called
    PROVE  Contract!Write
<1>1. Called <=> (pages > 0 \/ failed \cap {"page", "notfound"} # {})
  BY DEF Called, Delivered
<1>2. Called' <=> (pages' > 0 \/ failed' \cap {"page", "notfound"} # {})
  BY DEF Called, Delivered
<1>3. [outcome |-> row.outcome, applied |-> row.applied] = Contract!NoRow
  BY DEF NoRow, Contract!NoRow
<1>4. CASE row'.outcome = "EXECUTED" /\ row'.applied # NoPlan /\ prod # "inflight"
  BY <1>1, <1>2, <1>3, <1>4 DEF Contract!Write
<1>5. CASE row'.outcome \in {"ESCALATED", "FAILED"} /\ Called
  <2>1. [outcome |-> row'.outcome, applied |-> row'.applied]
           \in [outcome : {"ESCALATED", "FAILED"}, applied : {claim, NoPlan}]
    BY <1>5
  <2> QED
    BY <1>1, <1>2, <1>3, <1>5, <2>1 DEF Contract!Write
<1> QED
  BY <1>4, <1>5

\* Claiming, touching and settling production.
LEMMA ProductionRefines ==
    ASSUME TypeOK, ReportInv, SettleInv, ProductionStep
    PROVE  [Contract!Next]_(Contract!vars)
<1>1. task = "running" /\ UNCHANGED <<task, node, wd, result>>
  BY NodeSteps DEF NodeStep
<1>2. node = "actuate" /\ result = "none" /\ row = NoRow /\ wd = "sleeping"
  BY <1>1 DEF SettleInv, CallerInv, ProductionStep, ActuateRefused, RecordPreActuation, StartApply,
     FinishApply, ProbeProduction, At
<1>3. /\ UNCHANGED <<row, pages>>
      /\ \A k \in {"page", "notfound"} : k \in failed' <=> k \in failed
  BY DEF ProductionStep, ActuateRefused, RecordPreActuation, StartApply, FinishApply,
     ProbeProduction, Elsewhere, storeVars, Fault
<1>4. Called' <=> Called
  BY <1>3 DEF Called, Delivered
<1>5. UNCHANGED <<[outcome |-> row.outcome, applied |-> row.applied], result>>
      /\ UNCHANGED (pages > 0 \/ failed \cap {"page", "notfound"} # {})
      /\ UNCHANGED (result # "none")
  BY <1>1, <1>3, <1>4 DEF Called, Delivered
<1>6. [outcome |-> row.outcome, applied |-> row.applied] = Contract!NoRow
  BY <1>2 DEF NoRow, Contract!NoRow
<1>7. CASE UNCHANGED <<prod, claim>>
  BY <1>1, <1>3, <1>4, <1>7, Stutters
<1>8. CASE RecordPreActuation /\ ~(UNCHANGED <<prod, claim>>)
  <2>1. prod' = prod /\ claim = NoPlan /\ claim' = st.winner /\ st.winner \in st.plans
    BY <1>8 DEF RecordPreActuation, InsertClaim, InsertClaimFails, Authorised
  <2>2. st.plans \in SUBSET Plans
    BY StateFields DEF TypeOK
  <2> QED
    BY <1>2, <1>5, <1>6, <2>1, <2>2 DEF Contract!Next, Contract!Claim
<1>9. CASE StartApply /\ ~(UNCHANGED <<prod, claim>>)
  <2>1. claim' = claim /\ step = "claimed" /\ prod' = "inflight"
    BY <1>9 DEF StartApply, At, storeVars
  <2>2. prod = "clean" /\ claim # NoPlan
    BY <1>2, <2>1 DEF SettleInv, CallerInv, ReportInv, PathInv
  <2> QED
    BY <1>2, <1>5, <1>6, <2>1, <2>2 DEF Contract!Next, Contract!Touch
<1>10. CASE FinishApply /\ ~(UNCHANGED <<prod, claim>>)
  <2>1. claim' = claim /\ step = "applying" /\ prod' \in {"clean", "inflight", "mutated"}
    BY <1>10 DEF FinishApply, At, storeVars
  <2>2. prod = "inflight"
    BY <1>1, <1>2, <2>1 DEF SettleInv, CallerInv
  <2>3. prod' \in {"clean", "mutated"}
    BY <1>10, <2>1, <2>2
  <2> QED
    BY <1>5, <2>1, <2>2, <2>3 DEF Contract!Next, Contract!Settle
<1>11. ActuateRefused \/ ProbeProduction => UNCHANGED <<prod, claim>>
  BY DEF ActuateRefused, ProbeProduction, Elsewhere, storeVars
<1> QED
  BY <1>7, <1>8, <1>9, <1>10, <1>11 DEF ProductionStep

\* Calling on-call and writing the row, from the graph.
LEMMA ClosingRefines ==
    ASSUME TypeOK, ReportInv, SettleInv, ClosingStep
    PROVE  [Contract!Next]_(Contract!vars)
<1>1. /\ task = "running" /\ UNCHANGED <<task, node, wd, result>>
      /\ UNCHANGED <<prod, claim>>
  BY ClosingSteps, NodeSteps DEF NodeStep, ClosingStep
<1>2. result = "none" /\ st \in States
  BY <1>1 DEF SettleInv, CallerInv, TypeOK
<1>3. CASE NotifySlack \/ UnregisterMirror \/ TeardownFleet \/ TeardownFleetFails
           \/ HandleFailureCleanup \/ EscalatePagerdutyReturns \/ RecordRunPlaybook
  <2>1. /\ UNCHANGED <<row, pages>>
        /\ \A k \in {"page", "notfound"} : k \in failed' <=> k \in failed
    BY <1>3 DEF NotifySlack, UnregisterMirror, TeardownFleet, TeardownFleetFails,
       HandleFailureCleanup, EscalatePagerdutyReturns, RecordRunPlaybook, Cleanup,
       Elsewhere, storeVars, Fault
  <2> QED
    BY <1>1, <2>1, Stutters DEF Called, Delivered
<1>4. CASE EscalatePagerduty \/ EscalatePagerdutyFails \/ HandleFailurePageFails
           \/ (HandleFailurePage /\ SendPage)
  <2>1. row' = row
    BY <1>4 DEF EscalatePagerduty, EscalatePagerdutyFails, HandleFailurePageFails,
       HandleFailurePage, Elsewhere, storeVars
  <2>2. Called'
    <3>1. SendPage \/ "page" \in failed'
      BY <1>4 DEF EscalatePagerduty, EscalatePagerdutyFails, HandleFailurePageFails,
         PageFails, Fault
    <3> QED
      BY <3>1, SendPageTells DEF Called
  <2> QED
    BY <1>1, <1>2, <2>1, <2>2, Calls DEF Contract!Next
<1>5. CASE HandleFailurePage /\ ~SendPage
  <2>1. UNCHANGED <<row, pages, failed>>
    BY <1>5 DEF HandleFailurePage, storeVars
  <2> QED
    BY <1>1, <2>1, Stutters DEF Called, Delivered
<1>6. CASE RecordRun
  <2>1. /\ row' = row \/ (row = NoRow /\ row' = RunRecord(st))
        /\ pages' = pages /\ node = "record_run" /\ step = "run"
        /\ \A k \in {"page", "notfound"} : k \in failed' <=> k \in failed
    BY <1>6 DEF RecordRun, At, InsertRow, InsertFails, Fault
  <2>2. Called' <=> Called
    BY <2>1 DEF Called, Delivered
  <2>3. Closed(st) /\ st.errors = FALSE /\ Executed(st)
    BY <2>1 DEF ReportInv, PathInv
  <2>4. RunRecord(st).outcome = st.outcome /\ RunRecord(st).applied = st.prodApplied
    BY <1>2, <2>3, RowOf
  <2>5. st.prodApplied \in {claim, NoPlan}
    BY DEF ReportInv, PathInv
  <2>6. \/ st.outcome = "EXECUTED" /\ st.prodApplied # NoPlan /\ prod # "inflight"
        \/ st.outcome \in {"ESCALATED", "FAILED"} /\ Called
    BY <2>3 DEF Closed, Executed, SettleInv, CallerInv, ReportInv, PagedInv, Called
  <2>7. CASE row' = row
    BY <1>1, <2>2, <2>7, Stutters
  <2>8. CASE row = NoRow /\ row' = RunRecord(st)
    BY <1>1, <1>2, <2>2, <2>4, <2>5, <2>6, <2>8, Writes DEF Contract!Next
  <2> QED
    BY <2>1, <2>7, <2>8
<1>7. CASE HandleFailureRecord
  <2>1. /\ row' = row \/ (row = NoRow /\ row' = RunRecord(FailedState))
        /\ pages' = pages /\ node = "handle_failure" /\ step = "paged"
        /\ \A k \in {"page", "notfound"} : k \in failed' <=> k \in failed
    BY <1>7 DEF HandleFailureRecord, At, InsertRow, InsertFails, Fault
  <2>2. (Called' <=> Called) /\ Called
    BY <2>1 DEF ReportInv, PagedInv, Called, Delivered
  <2>3. FailedState \in States
    <3> DEFINE o == IF st.escalated THEN "ESCALATED" ELSE "FAILED"
    <3>1. o \in Outcomes /\ FailedState = [st EXCEPT !.outcome = o, !.escalated = TRUE]
      BY Constants DEF FailedState
    <3> QED
      BY <1>2, <3>1, StateUpdates
  <2>4. FailedState.outcome \in {"ESCALATED", "FAILED"}
        /\ FailedState.prodApplied = st.prodApplied
    BY <1>2 DEF FailedState, States
  <2>5. /\ RunRecord(FailedState).outcome \in {"ESCALATED", "FAILED"}
        /\ RunRecord(FailedState).applied = st.prodApplied
    BY <2>3, <2>4, RowOf
  <2>6. st.prodApplied \in {claim, NoPlan}
    BY DEF ReportInv, PathInv
  <2>7. CASE row' = row
    BY <1>1, <2>2, <2>7, Stutters
  <2>8. CASE row = NoRow /\ row' = RunRecord(FailedState)
    BY <1>1, <1>2, <2>2, <2>5, <2>6, <2>8, Writes DEF Contract!Next
  <2> QED
    BY <2>1, <2>7, <2>8
<1> QED
  BY <1>3, <1>4, <1>5, <1>6, <1>7 DEF ClosingStep

\* Calling on-call and writing the row, from the watchdog.
LEMMA WatchdogRefines ==
    ASSUME TypeOK, ReportInv, SettleInv, WatchdogStep
    PROVE  [Contract!Next]_(Contract!vars)
<1>1. UNCHANGED <<prod, claim, result>> /\ wd \in {"cleanup", "page", "record"}
  BY DEF WatchdogStep, EmergencyCleanup, EmergencyPage, EmergencyRecord, storeVars
<1>2. result = "none"
  BY <1>1 DEF SettleInv, CallerInv
<1>3. CASE EmergencyCleanup
  <2>1. /\ UNCHANGED <<row, pages>>
        /\ \A k \in {"page", "notfound"} : k \in failed' <=> k \in failed
    BY <1>3 DEF EmergencyCleanup, Cleanup, storeVars, Fault
  <2> QED
    BY <1>1, <2>1, Stutters DEF Called, Delivered
<1>4. CASE EmergencyPage
  <2>1. row' = row /\ (SendPage \/ "page" \in failed')
    BY <1>4 DEF EmergencyPage, storeVars, Fault
  <2>2. Called'
    BY <2>1, SendPageTells DEF Called
  <2> QED
    BY <1>1, <1>2, <2>1, <2>2, Calls DEF Contract!Next
<1>5. CASE EmergencyRecord
  <2>1. /\ row' = row \/ (row = NoRow /\ row' = RunRecord(EscalatedState))
        /\ pages' = pages /\ wd = "record"
        /\ \A k \in {"page", "notfound"} : k \in failed' <=> k \in failed
    BY <1>5 DEF EmergencyRecord, InsertRow, InsertFails, Fault
  <2>2. (Called' <=> Called) /\ Called
    BY <2>1 DEF ReportInv, PagedInv, Called, Delivered
  <2>3. EscalatedState \in States
    BY StateUpdates, Constants DEF EscalatedState, TypeOK
  <2>4. EscalatedState.outcome = "ESCALATED" /\ EscalatedState.prodApplied = tracked.prodApplied
    BY DEF EscalatedState, TypeOK, States
  <2>5. /\ RunRecord(EscalatedState).outcome \in {"ESCALATED", "FAILED"}
        /\ RunRecord(EscalatedState).applied = tracked.prodApplied
    BY <2>3, <2>4, RowOf
  <2>6. tracked.prodApplied \in {claim, NoPlan}
    BY DEF ReportInv, PathInv
  <2>7. CASE row' = row
    BY <1>1, <2>2, <2>7, Stutters
  <2>8. CASE row = NoRow /\ row' = RunRecord(EscalatedState)
    BY <1>1, <1>2, <2>2, <2>5, <2>6, <2>8, Writes DEF Contract!Next
  <2> QED
    BY <2>1, <2>7, <2>8
<1> QED
  BY <1>3, <1>4, <1>5 DEF WatchdogStep

\* The caller's return, late calls, and the steps the contract does not see.
LEMMA OthersRefine ==
    ASSUME TypeOK, ReportInv, SettleInv,
           EarlyStep \/ Route \/ WatchdogFires \/ CreateTwin \/ AbandonedPatch \/ ReturnResult
           \/ UNCHANGED vars
    PROVE  [Contract!Next]_(Contract!vars)
<1>1. CASE EarlyStep \/ Route \/ WatchdogFires \/ CreateTwin \/ UNCHANGED vars
  <2>1. CASE EarlyStep
    <3>1. Fresh(st)
      BY <2>1, EarlySteps DEF ReportInv, PathInv
    <3> QED
      BY <2>1, <3>1, EarlySteps, EarlyStaysFresh, Stutters DEF Called, Delivered
  <2>2. CASE Route \/ WatchdogFires \/ CreateTwin \/ UNCHANGED vars
    <3>1. UNCHANGED <<prod, claim, row, result, pages, failed>>
      BY <2>2 DEF Route, WatchdogFires, CreateTwin, vars, storeVars, Elsewhere
    <3> QED
      BY <3>1, Stutters DEF Called, Delivered
  <2> QED
    BY <1>1, <2>1, <2>2
<1>2. CASE AbandonedPatch
  <2>1. /\ UNCHANGED <<claim, row, result, pages, failed>>
        /\ prod = "inflight" /\ prod' \in {"clean", "mutated"}
    BY <1>2 DEF AbandonedPatch, storeVars
  <2> QED
    BY <2>1 DEF Contract!Next, Contract!Settle
<1>3. CASE ReturnResult
  <2>1. /\ UNCHANGED <<prod, claim, row, pages, failed>> /\ result = "none" /\ result' # "none"
        /\ task = "done" \/ wd = "timed_out"
    BY <1>3 DEF ReturnResult, storeVars
  <2>2. row.outcome = "EXECUTED" \/ Called
    BY <2>1 DEF ReportInv, PagedInv, TypeOK
  <2> QED
    BY <2>1, <2>2 DEF Contract!Next, Contract!Return, Called, Delivered
<1> QED
  BY <1>1, <1>2, <1>3

(***************************************************************************)
(* The control loop implements IncidentContract: production is touched     *)
(* only under a claim and never after the final row, the one final row is  *)
(* of the claimed plan, and nobody returns from a run that neither says    *)
(* EXECUTED nor tried to call on-call.                                     *)
(***************************************************************************)
THEOREM ContractIsKept == Spec => KeepsContract
<1>1. Init => Contract!Init
  BY DEF Init, NoRow, Contract!Init, Contract!NoRow
<1>2. ASSUME TypeOK, ReportInv, SettleInv, [Next]_vars
      PROVE  [Contract!Next]_(Contract!vars)
  <2>1. CASE ProductionStep
    BY <1>2, <2>1, ProductionRefines
  <2>2. CASE ClosingStep
    BY <1>2, <2>2, ClosingRefines
  <2>3. CASE WatchdogStep
    BY <1>2, <2>3, WatchdogRefines
  <2>4. CASE EarlyStep \/ Route \/ WatchdogFires \/ CreateTwin \/ AbandonedPatch \/ ReturnResult
             \/ UNCHANGED vars
    BY <1>2, <2>4, OthersRefine
  <2>5. Ended => UNCHANGED vars
    BY DEF Ended
  <2> QED
    BY <1>2, <2>1, <2>2, <2>3, <2>4, <2>5 DEF Next, NodeStep, EarlyStep, ClosingStep
<1> QED
  BY <1>1, <1>2, TypeInvariant, ReportInit, ReportInvNext, SettleInit, SettleNext, PTL
     DEF Spec, KeepsContract, Contract!Spec

-----------------------------------------------------------------------------
(***************************************************************************)
(* OnlyFailedCleanupLeaks.  Where the twins have been cleaned up, none is  *)
(* left unless a call failed; a twin may still be created there, but only  *)
(* by a fork that was abandoned, and such a run never had any handles.     *)
(***************************************************************************)
Cleaned ==
    \/ node = "teardown_fleet" /\ step = "left" /\ st.errors = FALSE
    \/ node \in {"record_run", "END"}
    \/ node = "handle_failure" /\ step # "run"
    \/ wd \notin {"sleeping", "cleanup"}

Unforked ==
    \/ node \in {"ingest", "gather_context", "plan_candidates"}
    \/ node = "fork_fleet" /\ step # "left"

HandlesInv == Unforked \/ pending # {} => st.twins = {}

LeakInv ==
    Cleaned /\ "cleanup" \notin failed => mirrors = {} /\ (cluster # {} => st.twins = {})

\* No node but fork_fleet changes the handles of the state.
LEMMA TwinsStay ==
    ASSUME TypeOK, NodeStep, ~ForkFleet
    PROVE  st'.twins = st.twins
<1>1. st \in States
  BY DEF TypeOK
<1>2. /\ [st EXCEPT !.errors = TRUE].twins = st.twins
      /\ [st EXCEPT !.context = TRUE].twins = st.twins
      /\ [st EXCEPT !.outcome = "ESCALATED"].twins = st.twins
      /\ [st EXCEPT !.outcome = "ESCALATED", !.escalated = TRUE].twins = st.twins
      /\ [st EXCEPT !.outcome = ResolvedOutcome(st)].twins = st.twins
      /\ FailedState.twins = st.twins
  BY <1>1 DEF States, FailedState
<1>3. CASE Ingest \/ GatherContext \/ ForkRefused \/ StartFork \/ ForkFleetFails
           \/ RegisterMirror \/ RegisterMirrors \/ ApplyCandidates \/ Tournament
           \/ ActuateRefused \/ RecordPreActuation \/ StartApply \/ FinishApply
  BY <1>2, <1>3 DEF Ingest, GatherContext, ForkRefused, StartFork, ForkFleetFails,
     NodeTimesOut, RegisterMirror, RegisterMirrors, ApplyCandidates, Tournament,
     ActuateRefused, RecordPreActuation, StartApply, FinishApply, Return, Raise, Goto
<1>4. CASE PlanCandidates
  <2>1. ASSUME NEW ps, st' = [st EXCEPT !.plans = @ \cup ps] PROVE st'.twins = st.twins
    BY <1>1, <2>1 DEF States
  <2> QED
    BY <1>2, <1>4, <2>1 DEF PlanCandidates, Return, Raise
<1>5. CASE Observe
  <2>1. ASSUME NEW t, NEW w, st' = [st EXCEPT !.tournament = t, !.winner = w]
        PROVE  st'.twins = st.twins
    BY <1>1, <2>1 DEF States
  <2> QED
    BY <1>2, <1>5, <2>1 DEF Observe, NodeTimesOut, Return, Raise
<1>6. CASE SafetyKernel
  <2>1. ASSUME NEW v,
               st' = [st EXCEPT !.verdict = v, !.verdictPlan = st.winner,
                                !.outcome = IF v = "PASS" THEN @ ELSE "ESCALATED"]
        PROVE  st'.twins = st.twins
    BY <1>1, <2>1 DEF States
  <2> QED
    BY <1>2, <1>6, <2>1 DEF SafetyKernel, NodeTimesOut, Return, Raise
<1>7. CASE ProbeProduction
  <2>1. ASSUME NEW o,
               st' = [st EXCEPT !.prodApplied = st.winner, !.prodOutcome = o,
                                !.outcome = IF o = "resolved" THEN "EXECUTED" ELSE @]
        PROVE  st'.twins = st.twins
    BY <1>1, <2>1 DEF States
  <2> QED
    BY <1>2, <1>7, <2>1 DEF ProbeProduction, Return, Raise
<1>8. CASE ClosingStep
  BY <1>2, <1>8 DEF ClosingStep, NotifySlack, PostReasoning, UnregisterMirror, TeardownFleet,
     TeardownFleetFails, HandleFailureCleanup, EscalatePagerduty, EscalatePagerdutyReturns,
     EscalatePagerdutyFails, HandleFailurePage, HandleFailurePageFails, HandleFailureRecord,
     PageFails, RecordRun, RecordRunPlaybook, Return, Raise, Goto
<1> QED
  BY <1>3, <1>4, <1>5, <1>6, <1>7, <1>8 DEF NodeStep, ProductionStep, ClosingStep

\* A cleanup of handles that name every mirror that was not found there either
\* leaves only those found or has failed.
LEMMA CleanupEmpties ==
    ASSUME NEW s, NEW found, Cleanup(s), mirrors \subseteq s.twins \cup found
    PROVE  "cleanup" \in failed' \/ (mirrors' \subseteq found /\ cluster' = {})
  BY DEF Cleanup, Fault

\* Every step keeps the cleaned-up places clean of what the run did not find
\* there when it began.
LEMMA LeakNext ==
    ASSUME TypeOK, SnapInv, CallerInv, HandlesInv, [Next]_vars,
           NEW found, mirrors \subseteq tracked.twins \cup found,
           Cleaned /\ "cleanup" \notin failed =>
              mirrors \subseteq found /\ (cluster # {} => st.twins = {})
    PROVE  /\ HandlesInv'
           /\ Cleaned' /\ "cleanup" \notin failed' =>
                 mirrors' \subseteq found /\ (cluster' # {} => st'.twins = {})
<1>1. CASE EarlyStep
  <2>1. task = "running" /\ UNCHANGED <<task, node, wd, result>>
    BY <1>1, NodeSteps DEF NodeStep, EarlyStep
  <2>2. node \notin LateNodes /\ wd = "sleeping"
    BY <1>1, <2>1, EarlySteps DEF CallerInv
  <2>3. ~Cleaned'
    BY <2>1, <2>2 DEF Cleaned, LateNodes
  <2>4. step # "left" /\ (pending' = pending \/ (StartFork /\ node = "fork_fleet"))
    BY <1>1 DEF EarlyStep, Ingest, GatherContext, PlanCandidates, ForkRefused, StartFork,
       ForkFleet, ForkFleetFails, NodeTimesOut, RegisterMirror, RegisterMirrors,
       ApplyCandidates, Observe, Tournament, SafetyKernel, At, twinVars
  <2>5. CASE ForkFleet
    <3>1. node = "fork_fleet" /\ step' = "left" /\ pending' = {}
      BY <2>5 DEF ForkFleet, At, Return, twinVars
    <3> QED
      BY <2>1, <2>3, <3>1 DEF HandlesInv, Unforked
  <2>6. CASE ~ForkFleet
    <3>1. st'.twins = st.twins
      BY <1>1, <2>6, TwinsStay DEF NodeStep, EarlyStep
    <3> QED
      BY <2>1, <2>3, <2>4, <3>1 DEF HandlesInv, Unforked
  <2> QED
    BY <2>5, <2>6
<1>2. CASE ProductionStep
  <2>1. task = "running" /\ UNCHANGED <<task, node, wd, result>>
    BY <1>2, NodeSteps DEF NodeStep
  <2>2. node = "actuate" /\ pending' = pending /\ wd = "sleeping" /\ ~ForkFleet
    BY <1>2, <2>1 DEF ProductionStep, ActuateRefused, RecordPreActuation, StartApply,
       FinishApply, ProbeProduction, At, twinVars, CallerInv, ForkFleet
  <2>3. st'.twins = st.twins
    BY <1>2, <2>2, TwinsStay DEF NodeStep
  <2> QED
    BY <2>1, <2>2, <2>3 DEF HandlesInv, Unforked, Cleaned
<1>3. CASE ClosingStep
  <2>1. task = "running" /\ UNCHANGED <<task, node, wd, result>>
    BY <1>3, NodeSteps DEF NodeStep, ClosingStep
  <2>2. /\ pending' = pending /\ wd = "sleeping" /\ ~Unforked' /\ failed \subseteq failed'
        /\ ~ForkFleet
    BY <1>3, <2>1
     DEF ClosingStep, NotifySlack, UnregisterMirror, TeardownFleet,
         TeardownFleetFails, HandleFailureCleanup, EscalatePagerduty,
         EscalatePagerdutyReturns, EscalatePagerdutyFails, HandleFailurePage,
         HandleFailurePageFails, HandleFailureRecord, PageFails, RecordRun,
         RecordRunPlaybook, At, twinVars, CallerInv, Unforked, Elsewhere, Fault, Cleanup,
         SendPage, NoteAdded, IncidentUnknown, ForkFleet
  <2>3. st'.twins = st.twins
    BY <1>3, <2>2, TwinsStay DEF NodeStep, ClosingStep
  <2>4. pending' # {} => st'.twins = {}
    BY <2>2, <2>3 DEF HandlesInv
  <2>5. mirrors \subseteq st.twins \cup found
    BY DEF SnapInv
  <2>6. CASE TeardownFleet
    <3>1. mirrors' \subseteq found /\ cluster' = {}
      BY <2>5, <2>6 DEF TeardownFleet
    <3> QED
      BY <2>2, <2>4, <3>1 DEF HandlesInv
  <2>7. CASE TeardownFleetFails
    <3>1. "cleanup" \in failed'
      BY <2>7 DEF TeardownFleetFails, Fault
    <3> QED
      BY <2>2, <2>4, <3>1 DEF HandlesInv
  <2>8. CASE HandleFailureCleanup
    <3>1. "cleanup" \in failed' \/ (mirrors' \subseteq found /\ cluster' = {})
      BY <2>5, <2>8, CleanupEmpties DEF HandleFailureCleanup
    <3> QED
      BY <2>2, <2>4, <3>1 DEF HandlesInv
  <2>9. CASE NotifySlack \/ UnregisterMirror \/ EscalatePagerduty
             \/ EscalatePagerdutyReturns \/ EscalatePagerdutyFails
    <3>1. ~Cleaned'
      BY <2>1, <2>2, <2>9 DEF NotifySlack, UnregisterMirror, EscalatePagerduty,
         EscalatePagerdutyReturns, EscalatePagerdutyFails, At, Goto, Cleaned
    <3> QED
      BY <2>2, <2>4, <3>1 DEF HandlesInv
  <2>10. CASE HandleFailurePage \/ HandleFailurePageFails \/ HandleFailureRecord
              \/ RecordRun \/ RecordRunPlaybook
    <3>1. Cleaned /\ UNCHANGED <<mirrors, cluster>>
      BY <2>10 DEF HandleFailurePage, HandleFailurePageFails, HandleFailureRecord,
         RecordRun, RecordRunPlaybook, At, twinVars, Cleaned
    <3> QED
      BY <2>2, <2>3, <2>4, <3>1 DEF HandlesInv
  <2> QED
    BY <1>3, <2>6, <2>7, <2>8, <2>9, <2>10 DEF ClosingStep
<1>4. CASE Route
  <2>1. /\ UNCHANGED <<mirrors, cluster, pending>> /\ task = "running"
    BY <1>4 DEF Route, twinVars
  <2>2. wd = "sleeping"
    BY <2>1 DEF CallerInv
  <2>3. /\ UNCHANGED <<st, wd, failed>> /\ step = "left" /\ (node' # "END" => step' = "run")
    BY <1>4, Entries
  <2>4. Unforked' => Unforked
    <3>1. node' \in {"ingest", "gather_context", "plan_candidates", "fork_fleet"} =>
             node \in {"ingest", "gather_context", "plan_candidates"}
      <4>1. node' = NextNode(st, node) /\ node \in Nodes
        BY <1>4, Entries DEF Route, TypeOK
      <4> QED
        BY <4>1 DEF NextNode, RouteTournament, RouteSafetyKernel, RouteActuation,
           RouteLinear, LinearNext, Nodes
    <3> QED
      BY <3>1 DEF Unforked
  <2>5. Cleaned' => Cleaned
    BY <1>4, <2>2, <2>3, Entries DEF Cleaned
  <2> QED
    BY <2>1, <2>3, <2>4, <2>5 DEF HandlesInv
<1>5. CASE WatchdogFires \/ WatchdogStep
  <2>1. /\ UNCHANGED <<st, node, step, pending>> /\ failed \subseteq failed'
    BY <1>5 DEF WatchdogFires, WatchdogStep, EmergencyCleanup, EmergencyPage,
       EmergencyRecord, graphVars, twinVars, Cleanup, SendPage, NoteAdded, IncidentUnknown,
       Fault
  <2>2. CASE EmergencyCleanup
    <3>1. "cleanup" \in failed' \/ (mirrors' \subseteq found /\ cluster' = {})
      BY <2>2, CleanupEmpties DEF EmergencyCleanup
    <3> QED
      BY <2>1, <3>1 DEF HandlesInv, Unforked
  <2>3. CASE WatchdogFires
    <3>1. UNCHANGED <<mirrors, cluster>> /\ wd' = "cleanup"
      BY <2>3 DEF WatchdogFires, twinVars
    <3> QED
      BY <2>1, <3>1 DEF HandlesInv, Unforked, Cleaned
  <2>4. CASE EmergencyPage \/ EmergencyRecord
    <3>1. UNCHANGED <<mirrors, cluster>> /\ wd \in {"page", "record"}
      BY <2>4 DEF EmergencyPage, EmergencyRecord, twinVars
    <3> QED
      BY <2>1, <3>1 DEF HandlesInv, Unforked, Cleaned
  <2> QED
    BY <1>5, <2>2, <2>3, <2>4 DEF WatchdogStep
<1>6. CASE CreateTwin
  <2>1. /\ UNCHANGED <<st, node, step, wd, mirrors, failed>>
        /\ pending # {} /\ pending' \subseteq pending
    BY <1>6 DEF CreateTwin, graphVars, Elsewhere
  <2> QED
    BY <2>1 DEF HandlesInv, Unforked, Cleaned
<1>7. CASE AbandonedPatch \/ ReturnResult \/ UNCHANGED vars
  <2>1. UNCHANGED <<st, node, step, wd, mirrors, cluster, pending, failed>>
    BY <1>7 DEF AbandonedPatch, ReturnResult, vars, graphVars, twinVars
  <2> QED
    BY <2>1 DEF HandlesInv, Unforked, Cleaned
<1>8. Ended => UNCHANGED vars
  BY DEF Ended
<1> QED
  BY <1>1, <1>2, <1>3, <1>4, <1>5, <1>6, <1>7, <1>8
     DEF Next, NodeStep, EarlyStep, ClosingStep

(***************************************************************************)
(* However and whenever a run ends, a mirror is left registered only if a  *)
(* cleanup call failed, and a twin only if one did or its fork was         *)
(* abandoned before the state had its handle.                              *)
(***************************************************************************)
THEOREM OnlyFailuresLeak == Spec => []OnlyFailedCleanupLeaks
<1>1. Init => TrackInv /\ CallerInv /\ HandlesInv /\ LeakInv
  BY DEF Init, InitialState, TrackInv, SnapInv, CallerInv, HandlesInv, LeakInv, Cleaned
<1>2. ASSUME TypeOK, TrackInv, CallerInv, HandlesInv, LeakInv, [Next]_vars
      PROVE  HandlesInv' /\ LeakInv'
  <2>1. SnapInv /\ mirrors \subseteq tracked.twins \cup {}
        /\ (Cleaned /\ "cleanup" \notin failed =>
              mirrors \subseteq {} /\ (cluster # {} => st.twins = {}))
    BY <1>2 DEF TrackInv, LeakInv
  <2>2. /\ HandlesInv'
        /\ Cleaned' /\ "cleanup" \notin failed' =>
              mirrors' \subseteq {} /\ (cluster' # {} => st'.twins = {})
    BY <1>2, <2>1, LeakNext
  <2> QED
    BY <2>2 DEF LeakInv
<1>3. TypeOK /\ TrackInv /\ CallerInv /\ LeakInv => OnlyFailedCleanupLeaks
  BY DEF TypeOK, TrackInv, SnapInv, CallerInv, LeakInv, Cleaned, OnlyFailedCleanupLeaks
<1> QED
  BY <1>1, <1>2, <1>3, TypeInvariant, TrackInvNext, CallerNext, PTL DEF Spec

-------------------------------------------------------------------------------
(***************************************************************************)
(* An incident that is run again.  A run starts from a fresh state, so all *)
(* that is known of the state, the snapshot and the pages of one run holds *)
(* of every run.  What is known of the row, of production and of mirrors   *)
(* must be said anew: they may be another run's.                           *)
(***************************************************************************)

(***************************************************************************)
(* The parts that span runs.  EndInv says how a run of its own comes to an *)
(* end; RowCalledInv, that a row which does not name the claimed plan is   *)
(* of a run that called; IdleInv, that nothing has happened in a run that  *)
(* is not under way; FoundInv, that a run in progress accounts for all     *)
(* mirrors but those it found, and once cleaned up leaves only these.      *)
(***************************************************************************)
EndInv == node = "END" => Closed(st) \/ Called

CalledInv == Called => called

RowCalledInv == row # NoRow /\ row.applied = NoPlan => called

IdleInv == ~running => result = "none"

FoundInv ==
    running =>
        /\ mirrors \subseteq tracked.twins \cup inherited
        /\ Cleaned /\ "cleanup" \notin failed =>
              mirrors \subseteq inherited /\ (cluster # {} => st.twins = {})

\* What holds of the run in progress, and what holds across the runs.
RunInv == TypeOK /\ ReportInv /\ CallerInv /\ SnapInv /\ EndInv

AcrossInv == CalledInv /\ RowCalledInv /\ IdleInv /\ HandlesInv /\ FoundInv

\* At first there is no run, and nothing was left by one.
LEMMA ReopenedStarts == ReopenedInit => RunInv /\ AcrossInv
<1> SUFFICES ASSUME ReopenedInit PROVE RunInv /\ AcrossInv
  OBVIOUS
<1>1. Init /\ running = FALSE
  BY DEF ReopenedInit
<1>2. TypeOK
  BY <1>1 DEF Init, TypeOK, InitialState, NoRow, States, Rows, Steps, Nodes, OptPlan,
         Outcomes, ProdOutcomes, Tournaments, Verdicts
<1>3. ReportInv
  BY <1>1, ReportInit
<1>4. CallerInv /\ SnapInv /\ EndInv
  BY <1>1 DEF Init, CallerInv, SnapInv, EndInv
<1>5. CalledInv /\ RowCalledInv /\ IdleInv /\ HandlesInv /\ FoundInv
  BY <1>1 DEF Init, InitialState, CalledInv, Called, Delivered, RowCalledInv, IdleInv,
     HandlesInv, FoundInv
<1> QED
  BY <1>2, <1>3, <1>4, <1>5 DEF RunInv, AcrossInv

\* However a run comes to its end, it is closed or on-call has been called.
LEMMA EndNext ==
    ASSUME TypeOK, ReportInv, EndInv, [Next]_vars
    PROVE  EndInv'
<1>1. CASE NodeStep
  <2>1. node' = node /\ node # "END"
    BY <1>1, NodeSteps DEF TypeOK
  <2> QED
    BY <2>1 DEF EndInv
<1>2. CASE Route
  <2>1. st' = st /\ UNCHANGED <<pages, failed>> /\ step = "left"
    BY <1>2, Entries
  <2>2. node' = "END" => Closed(st) \/ Called
    BY <1>2, <2>1, Entries DEF ReportInv, PathInv, PagedInv
  <2> QED
    BY <2>1, <2>2 DEF EndInv, Closed, Called, Delivered
<1>3. CASE ~NodeStep /\ ~Route
  <2>1. UNCHANGED <<st, node>>
    BY <1>3 DEF Next, WatchdogFires, WatchdogStep, EmergencyCleanup, EmergencyPage,
       EmergencyRecord, CreateTwin, AbandonedPatch, ReturnResult, Ended, vars, graphVars
  <2>2. Called => Called'
    <3>1. CASE Next
      BY <3>1, TellingStays
    <3>2. CASE UNCHANGED vars
      BY <3>2 DEF vars, Called, Delivered
    <3> QED
      BY <3>1, <3>2
  <2> QED
    BY <2>1, <2>2 DEF EndInv, Closed
<1> QED
  BY <1>1, <1>2, <1>3

\* A step of the control loop keeps what holds of the run.
LEMMA RunNext ==
    ASSUME RunInv, [Next]_vars
    PROVE  RunInv'
<1>1. TypeOK /\ ReportInv /\ CallerInv /\ SnapInv /\ EndInv
  BY DEF RunInv
<1>2. TypeOK' /\ ReportInv'
  BY <1>1, TypeNext, ReportInvNext
<1>3. CallerInv' /\ SnapInv' /\ EndInv'
  BY <1>1, CallerNext, SnapNext, EndNext
<1> QED
  BY <1>2, <1>3 DEF RunInv

\* A new run, or a crash, keeps it too: the rows are as true as they were, and
\* of the new run there is nothing to say yet.
LEMMA FreshHolds ==
    ASSUME RunInv, FreshRun, UNCHANGED <<prod, mirrors, storeVars>>,
           cluster' \in SUBSET Plans, pending' = {}
    PROVE  RunInv'
<1>1. /\ st' = InitialState /\ tracked' = InitialState
      /\ node' = "ingest" /\ step' = "run" /\ task' = "running" /\ wd' = "sleeping"
      /\ pages' = 0 /\ result' = "none" /\ failed' = {}
      /\ UNCHANGED <<prod, mirrors, claim, row, playbook>>
  BY DEF FreshRun, storeVars
<1>2. TypeOK'
  <2>1. InitialState \in States
    BY DEF InitialState, States, OptPlan, Outcomes, ProdOutcomes, Tournaments, Verdicts
  <2> QED
    BY <1>1, <2>1 DEF RunInv, TypeOK, Nodes, Steps
<1>3. PathInv'
  BY <1>1 DEF InitialState, PathInv, Fresh, Executed, Closed, LateNodes
<1>4. RowInv'
  BY <1>1 DEF RunInv, ReportInv, RowInv, RowIsTrue, PlaybookAgreesWithRow
<1>5. PagedInv'
  BY <1>1 DEF InitialState, PagedInv
<1>6. CallerInv' /\ SnapInv' /\ EndInv'
  BY <1>1 DEF CallerInv, SnapInv, EndInv
<1> QED
  BY <1>2, <1>3, <1>4, <1>5, <1>6 DEF RunInv, ReportInv

\* A step of the run in progress remembers that on-call was called, leaves no row
\* without it, and cleans up what it has added.
LEMMA RunStepHolds ==
    ASSUME RunInv, AcrossInv, RunStep
    PROVE  RunInv' /\ AcrossInv'
<1>1. Next /\ running /\ running' = running /\ inherited' = inherited
      /\ (called' <=> called \/ pages' > 0 \/ failed' \cap {"page", "notfound"} # {})
  BY DEF RunStep, Next, intakeVars
<1>2. TypeOK /\ ReportInv /\ CallerInv /\ SnapInv /\ RunInv'
  BY <1>1, RunNext DEF RunInv
<1>3. called' <=> called \/ Called'
  BY <1>1 DEF Called, Delivered
<1>4. CalledInv' /\ IdleInv'
  BY <1>1, <1>3 DEF CalledInv, IdleInv
<1>5. RowCalledInv'
  <2>1. Called => Called'
    BY <1>1, <1>2, TellingStays
  <2>2. Delivered => Called
    BY DEF Called
  <2>3. row' = row \/ row'.applied # NoPlan \/ Called'
    <3>1. \/ row' = row
          \/ row'.outcome = "EXECUTED" /\ row'.applied # NoPlan
          \/ Delivered
          \/ Called /\ wd' = "timed_out"
      BY <1>1, <1>2, RowWriters
    <3> QED
      BY <2>1, <2>2, <3>1
  <2> QED
    BY <1>3, <2>3 DEF AcrossInv, RowCalledInv
<1>6. HandlesInv' /\ FoundInv'
  <2>1. /\ HandlesInv /\ mirrors \subseteq tracked.twins \cup inherited
        /\ Cleaned /\ "cleanup" \notin failed =>
              mirrors \subseteq inherited /\ (cluster # {} => st.twins = {})
    BY <1>1 DEF AcrossInv, FoundInv
  <2>2. mirrors' \subseteq tracked'.twins \cup inherited
    BY <1>1, <1>2, <2>1, MirrorsNext
  <2>3. /\ HandlesInv'
        /\ Cleaned' /\ "cleanup" \notin failed' =>
              mirrors' \subseteq inherited /\ (cluster' # {} => st'.twins = {})
    BY <1>1, <1>2, <2>1, LeakNext
  <2> QED
    BY <1>1, <2>2, <2>3 DEF FoundInv
<1> QED
  BY <1>2, <1>4, <1>5, <1>6 DEF AcrossInv

\* A call that nobody awaits tells nobody and removes nothing.
LEMMA AbandonedCallHolds ==
    ASSUME RunInv, AcrossInv, AbandonedCall
    PROVE  RunInv' /\ AcrossInv'
<1>1. /\ CreateTwin \/ AbandonedPatch
      /\ UNCHANGED <<running, called, inherited>>
      /\ UNCHANGED <<st, tracked, node, step, wd, mirrors, row, pages, failed, result>>
      /\ pending' \subseteq pending
  BY DEF AbandonedCall, CreateTwin, AbandonedPatch, intakeVars, graphVars, twinVars,
     storeVars, Elsewhere
<1>2. Next
  BY <1>1 DEF Next
<1>3. TypeOK /\ SnapInv /\ CallerInv /\ RunInv'
  BY <1>2, RunNext DEF RunInv
<1>4. CalledInv' /\ RowCalledInv' /\ IdleInv'
  BY <1>1 DEF AcrossInv, CalledInv, Called, Delivered, RowCalledInv, IdleInv
<1>5. HandlesInv'
  BY <1>1 DEF AcrossInv, HandlesInv, Unforked
<1>6. FoundInv'
  <2>1. CASE running
    <3>1. /\ HandlesInv /\ mirrors \subseteq tracked.twins \cup inherited
          /\ Cleaned /\ "cleanup" \notin failed =>
                mirrors \subseteq inherited /\ (cluster # {} => st.twins = {})
      BY <2>1 DEF AcrossInv, FoundInv
    <3>2. /\ Cleaned' /\ "cleanup" \notin failed' =>
                mirrors' \subseteq inherited /\ (cluster' # {} => st'.twins = {})
      BY <1>2, <1>3, <3>1, LeakNext
    <3> QED
      BY <1>1, <3>1, <3>2 DEF FoundInv
  <2>2. CASE ~running
    BY <1>1, <2>2 DEF FoundInv
  <2> QED
    BY <2>1, <2>2
<1> QED
  BY <1>3, <1>4, <1>5, <1>6 DEF AcrossInv

\* Every step of the life of an alert keeps the invariant.
LEMMA ReopenedNextHolds ==
    ASSUME RunInv, AcrossInv, [ReopenedNext]_reopenedVars
    PROVE  RunInv' /\ AcrossInv'
<1>1. CASE RunStep
  BY <1>1, RunStepHolds
<1>2. CASE AbandonedCall
  BY <1>2, AbandonedCallHolds
<1>3. CASE RunIncident
  <2>1. /\ FreshRun /\ UNCHANGED <<called, prod, mirrors, cluster, pending, storeVars>>
        /\ pending = {} /\ running' = TRUE /\ inherited' = mirrors
    BY <1>3 DEF RunIncident, twinVars
  <2>2. RunInv'
    BY <2>1, FreshHolds DEF RunInv, TypeOK
  <2>3. /\ st'.twins = {} /\ tracked'.twins = {} /\ pages' = 0 /\ failed' = {}
        /\ result' = "none" /\ row' = row /\ node' = "ingest" /\ wd' = "sleeping"
    BY <2>1 DEF FreshRun, InitialState, storeVars
  <2>4. AcrossInv'
    BY <2>1, <2>3 DEF AcrossInv, CalledInv, Called, Delivered, RowCalledInv, IdleInv,
       HandlesInv, FoundInv, Cleaned
  <2> QED
    BY <2>2, <2>4
<1>4. CASE Crash
  <2>1. /\ FreshRun /\ UNCHANGED <<called, prod, mirrors, storeVars>>
        /\ pending' = {} /\ running' = FALSE
        /\ \E landed \in SUBSET pending : cluster' = cluster \cup landed
    BY <1>4 DEF Crash
  <2>2. cluster' \in SUBSET Plans
    BY <2>1 DEF RunInv, TypeOK
  <2>3. RunInv'
    BY <2>1, <2>2, FreshHolds
  <2>4. /\ st'.twins = {} /\ pages' = 0 /\ failed' = {} /\ result' = "none" /\ row' = row
    BY <2>1 DEF FreshRun, InitialState, storeVars
  <2>5. AcrossInv'
    BY <2>1, <2>4 DEF AcrossInv, CalledInv, Called, Delivered, RowCalledInv, IdleInv,
       HandlesInv, FoundInv
  <2> QED
    BY <2>3, <2>5
<1>5. CASE HandleWebhook \/ InjectAlert \/ RunAnother \/ Quiet
           \/ UNCHANGED reopenedVars
  <2>1. UNCHANGED vars /\ UNCHANGED <<running, called, inherited>>
    BY <1>5 DEF HandleWebhook, InjectAlert, RunAnother, Quiet, reopenedVars, intakeVars
  <2>2. RunInv'
    BY <2>1, RunNext
  <2>3. AcrossInv'
    BY <2>1 DEF vars, AcrossInv, CalledInv, Called, Delivered, RowCalledInv, IdleInv,
       HandlesInv, Unforked, FoundInv, Cleaned
  <2> QED
    BY <2>2, <2>3
<1> QED
  BY <1>1, <1>2, <1>3, <1>4, <1>5 DEF ReopenedNext

(***************************************************************************)
(* Whatever crashes and however often the alert comes, a final row that    *)
(* does not name the plan claimed for production is of a run that called   *)
(* on-call (execute_emergency_escalation, handle_failure, record_run).     *)
(***************************************************************************)
THEOREM RowsOrCalls == ReopenedSpec => []UnrecordedChangesCalled
<1>1. RunInv /\ AcrossInv => UnrecordedChangesCalled
  BY DEF RunInv, ReportInv, RowInv, RowIsTrue, AcrossInv, RowCalledInv,
     UnrecordedChangesCalled
<1> QED
  BY <1>1, ReopenedStarts, ReopenedNextHolds, PTL DEF ReopenedSpec

(***************************************************************************)
(* Each run that returns has itself seen production recover or has called  *)
(* on-call, whichever run's row run_incident hands back.                   *)
(***************************************************************************)
THEOREM NoRunIsSilent == ReopenedSpec => []NoSilentRun
<1>1. RunInv => NoSilentRun
  <2> SUFFICES ASSUME RunInv, result # "none" PROVE Called \/ st.prodOutcome = "resolved"
    BY DEF RunInv, TypeOK, NoSilentRun, Called, Delivered
  <2>1. node = "END" \/ wd = "timed_out"
    BY DEF RunInv, ReportInv, PagedInv
  <2>2. CASE wd = "timed_out"
    BY <2>2 DEF RunInv, ReportInv, PagedInv
  <2>3. CASE node = "END"
    BY <2>3 DEF RunInv, EndInv, Closed, ReportInv, PathInv, Executed, PagedInv, Called
  <2> QED
    BY <2>1, <2>2, <2>3
<1> QED
  BY <1>1, ReopenedStarts, ReopenedNextHolds, PTL DEF ReopenedSpec

(***************************************************************************)
(* Among whatever crashed and failing runs left, a run whose cleanup calls *)
(* succeed leaves no mirror it did not find, and no twin unless its own    *)
(* fork was abandoned before the state had a handle.                       *)
(***************************************************************************)
THEOREM OnlyFoundOnesLeak == ReopenedSpec => []OnlyInheritedLeaks
<1>1. RunInv /\ AcrossInv => OnlyInheritedLeaks
  <2> SUFFICES ASSUME RunInv, AcrossInv, result # "none", "cleanup" \notin failed
               PROVE  mirrors \subseteq inherited
                      /\ (cluster # {} => tracked.twins = {} /\ st.twins = {})
    BY DEF OnlyInheritedLeaks
  <2>1. running
    BY DEF AcrossInv, IdleInv
  <2>2. Cleaned
    BY DEF RunInv, ReportInv, PagedInv, Cleaned
  <2>3. tracked.twins \subseteq st.twins
    BY DEF RunInv, SnapInv
  <2> QED
    BY <2>1, <2>2, <2>3 DEF AcrossInv, FoundInv
<1> QED
  BY <1>1, ReopenedStarts, ReopenedNextHolds, PTL DEF ReopenedSpec
=============================================================================
