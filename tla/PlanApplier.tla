----------------------------- MODULE PlanApplier -----------------------------
(***************************************************************************)
(* Plans on their way through the twins to production: planned, rehearsed, *)
(* one of them applied.  The applier reads the resource, checks whether    *)
(* the plan has been applied, and patches it; it is idempotent by one      *)
(* annotation, the identifier of the plan that was applied last, which a   *)
(* fork copies into the twin with everything else.                         *)
(*                                                                         *)
(* Calls to the cluster run in threads: one whose incident has timed out,  *)
(* or whose process was killed, still lands.                               *)
(***************************************************************************)
EXTENDS Planner

CONSTANTS
    Incidents,
    History,      \* the deploys, oldest first
    LLMAnswers,   \* what the LLM may answer
    Playbooks,    \* what the library may offer: sets of at most one plan
    MaxRetries,   \* of the planner
    Replicas,     \* of every workload at the start
    InitialFlags  \* what the flags of the workloads may be at the start

(* The text under the key of a flag in its ConfigMap: neither is any other *)
(* text, or no such key.  Nothing compares the name of a flag that the LLM *)
(* proposes with the keys of the cluster.                                  *)
FlagStates == {"true", "false", "neither"}

(* A commit is deployed once.  A playbook is a plan that was applied in an *)
(* earlier incident, with the inverse that was synthesised then; only that *)
(* of a rollback depends on the deploys of the time.                       *)
ASSUME ApplierAssumption ==
    /\ History \in Seq(DeployRefs) /\ History # <<>> /\ History[1].digests = Workloads
    /\ \A k, l \in DOMAIN History : History[k].commit = History[l].commit => k = l
    /\ \A answer \in LLMAnswers :
          /\ answer \in Seq({answer[k] : k \in DOMAIN answer})
          /\ \A k \in DOMAIN answer : WellTyped(answer[k])
    /\ \A playbook \in Playbooks : \A p \in playbook :
          /\ playbook = {p} /\ WellTyped(p.params) /\ p.params.workload \in Workloads
          /\ p = [ToPlan(p.params, 0) EXCEPT !.id = PlaybookId(p.id[2]), !.origin = "playbook",
                                             !.inverse = p.inverse]
          /\ p.params.action # "rollback_deploy" => p.inverse = SynthesizeInverse(p, <<>>)
    /\ MaxRetries \in Nat /\ Replicas \in Nat
    /\ InitialFlags \subseteq [Workloads -> FlagStates]

VARIABLES
    deployed,   \* how much of History has been deployed
    prod,       \* the namespace ust-prod
    inc,        \* what each incident does
    seen,       \* how much of History its context has
    asked,      \* the questions its planner has asked
    plans,      \* its ballot
    twins,      \* its twins, by the position of the plan, until they are judged
    winner,     \* the plan for production, in a set
    read,       \* what the call for it has read of the Deployment, in a set
    late,       \* what calls given up for dead had read that will still patch
    landed,     \* the incidents whose patch of production has landed
    mixed       \* a patch has landed while another incident's was under way

incident == <<inc, seen, asked, plans, twins, winner>>
applierVars == <<deployed, prod, incident, read, late, landed, mixed>>

(***************************************************************************)
(* A namespace: its Deployments and what the ConfigMaps say of each        *)
(* workload.                                                               *)
(***************************************************************************)
RecentDeploys == Reverse(SubSeq(History, 1, deployed))

InitialDeployment(flag) ==
    [image |-> History[1].commit, replicas |-> Replicas, restarts |-> 0, slot |-> <<>>,
     flag |-> flag, value |-> {}]

(* A reference that the deploy history does not resolve is an error.       *)
TargetImage(c) == ResolveCommitRef(c.commit, RecentDeploys, c.workload)

FlagValue(c) == IF c.reEnable THEN "true" ELSE "false"

(* Any plan in the slot passes for this one.                               *)
AlreadyApplied_Any(p, d) ==
    /\ p.params.action \in {"restart_workload", "scale_workload"}
    /\ d.slot # <<>>

(* Whether the handler finds that it has nothing to do.                    *)
AlreadyApplied(p, d) ==
    LET c == p.params
    IN  CASE c.action = "rollback_deploy"  -> d.image = TargetImage(c)
          [] c.action = "restart_workload" -> d.slot = p.id
          [] c.action = "scale_workload"   -> d.slot = p.id
          [] c.action = "disable_flag"     -> d.flag = FlagValue(c)
          [] c.action = "revert_config"    -> d.value = c.value
          [] OTHER                         -> TRUE

CannotApply(p, d) ==
    LET c == p.params
    IN  \/ c.action = "rollback_deploy" /\ TargetImage(c) = NoCommit
        \/ c.action = "scale_workload" /\ ~AlreadyApplied(p, d) /\ d.replicas + c.delta < 0

(* The patch scales what the manifests say.                                *)
Patched_FromManifest(p, was, d) ==
    IF p.params.action = "scale_workload"
    THEN [d EXCEPT !.replicas = Replicas + p.params.delta, !.slot = p.id]
    ELSE d

(* The handlers' patches of a resource d.  The ConfigMaps have annotations *)
(* of their own.                                                           *)
RollbackDeploy(p, d)  == [d EXCEPT !.image = TargetImage(p.params), !.slot = p.id]
RestartWorkload(p, d) == [d EXCEPT !.restarts = @ + 1, !.slot = p.id]
ScaleWorkload(p, was, d) ==
    [d EXCEPT !.replicas = was.replicas + p.params.delta, !.slot = p.id]
NoAction(p, d)     == d
DisableFlag(p, d)  == [d EXCEPT !.flag = FlagValue(p.params)]
RevertConfig(p, d) == [d EXCEPT !.value = p.params.value]

(* The patch sends what was computed from what was read, and leaves the    *)
(* rest as it is by then.                                                  *)
Patched(p, was, d) ==
    CASE p.params.action = "rollback_deploy"  -> RollbackDeploy(p, d)
      [] p.params.action = "restart_workload" -> RestartWorkload(p, d)
      [] p.params.action = "scale_workload"   -> ScaleWorkload(p, was, d)
      [] p.params.action = "disable_flag"     -> DisableFlag(p, d)
      [] p.params.action = "revert_config"    -> RevertConfig(p, d)
      [] p.params.action = "no_action"        -> NoAction(p, d)

(* The whole handler, when nobody else writes to the namespace.            *)
Apply(p, env) ==
    LET d == env[p.params.workload]
    IN  IF p.params.action = "no_action" \/ AlreadyApplied(p, d) THEN env
        ELSE [env EXCEPT ![p.params.workload] = Patched(p, d, d)]

Applicable(p, env) ==
    p.params.action = "no_action" \/ ~CannotApply(p, env[p.params.workload])

(* The inverse is a plan like any other, under an identifier of its own.   *)
InverseOf(p) == CHOOSE v \in p.inverse : TRUE

CanRevert(p) == p.params.action # "no_action" /\ p.inverse # {}

Revert(p, env) == Apply(InverseOf(p), env)

-----------------------------------------------------------------------------
ApplierInit ==
    /\ deployed = 1
    /\ \E flags \in InitialFlags : prod = [s \in Workloads |-> InitialDeployment(flags[s])]
    /\ inc = [i \in Incidents |-> "new"]
    /\ seen = [i \in Incidents |-> 0]
    /\ asked = [i \in Incidents |-> 0]
    /\ plans = [i \in Incidents |-> <<>>]
    /\ twins = [i \in Incidents |-> <<>>]
    /\ winner = [i \in Incidents |-> {}]
    /\ read = [i \in Incidents |-> {}]
    /\ late = [i \in Incidents |-> {}]
    /\ landed = {}
    /\ mixed = FALSE

Becomes(i, from, to) == inc[i] = from /\ inc' = [inc EXCEPT ![i] = to]

actuation == <<read, late, landed, mixed>>

(* A deploy sets the images of the workloads it knows, and nothing else.   *)
Deploy ==
    /\ deployed < Len(History)
    /\ deployed' = deployed + 1
    /\ prod' = [s \in Workloads |->
                  IF s \in History[deployed + 1].digests
                  THEN [prod[s] EXCEPT !.image = History[deployed + 1].commit] ELSE prod[s]]
    /\ UNCHANGED <<incident, actuation>>

CollectContext(i) ==
    /\ Becomes(i, "new", "planning")
    /\ seen' = [seen EXCEPT ![i] = deployed]
    /\ UNCHANGED <<deployed, prod, asked, plans, twins, winner, actuation>>

Context(i) == Reverse(SubSeq(History, 1, seen[i]))

(* What a call of the LLM may return, unless its connection is lost, which *)
(* nobody retries.                                                         *)
CallLLM == LLMAnswers \cup {Unparsed}

ConnectionLost(i) ==
    /\ Becomes(i, "planning", "failed")
    /\ UNCHANGED <<deployed, prod, seen, asked, plans, twins, winner, actuation>>

AskAgain(i) ==
    /\ inc[i] = "planning"
    /\ \E answer \in CallLLM : ~Acceptable(answer)
    /\ IF asked[i] < MaxRetries
       THEN /\ asked' = [asked EXCEPT ![i] = @ + 1]
            /\ UNCHANGED inc
       ELSE /\ inc' = [inc EXCEPT ![i] = "failed"]
            /\ UNCHANGED asked
    /\ UNCHANGED <<deployed, prod, seen, plans, twins, winner, actuation>>

PlanCandidates(i) ==
    /\ Becomes(i, "planning", "planned")
    /\ \E answer \in CallLLM, playbook \in Playbooks :
          /\ Acceptable(answer)
          /\ plans' = [plans EXCEPT ![i] =
                         WithPlaybook(CandidatesFrom(answer, Context(i)), playbook)]
    /\ UNCHANGED <<deployed, prod, seen, asked, twins, winner, actuation>>

ForkTwins(i) ==
    /\ Becomes(i, "planned", "forked")
    /\ twins' = [twins EXCEPT ![i] = [k \in DOMAIN plans[i] |-> prod]]
    /\ UNCHANGED <<deployed, prod, seen, asked, plans, winner, actuation>>

(* One plan that cannot be applied fails the incident.                     *)
ApplyToTwins(i) ==
    /\ inc[i] = "forked"
    /\ IF \A k \in DOMAIN plans[i] : Applicable(plans[i][k], twins[i][k])
       THEN /\ inc' = [inc EXCEPT ![i] = "rehearsed"]
            /\ twins' = [twins EXCEPT ![i] =
                           [k \in DOMAIN plans[i] |-> Apply(plans[i][k], twins[i][k])]]
       ELSE /\ inc' = [inc EXCEPT ![i] = "failed"]
            /\ UNCHANGED twins
    /\ UNCHANGED <<deployed, prod, seen, asked, plans, winner, actuation>>

(* Which of the candidates wins and passes is not modelled here.           *)
Choose(i) ==
    /\ Becomes(i, "rehearsed", "actuating")
    /\ \E k \in DOMAIN plans[i] :
          /\ plans[i][k].params.action # "no_action"
          /\ winner' = [winner EXCEPT ![i] = {plans[i][k]}]
    /\ twins' = [twins EXCEPT ![i] = <<>>]
    /\ UNCHANGED <<deployed, prod, seen, asked, plans, actuation>>

(* Nothing to do, or nothing that passes.                                  *)
Escalate(i) ==
    /\ Becomes(i, "rehearsed", "escalated")
    /\ twins' = [twins EXCEPT ![i] = <<>>]
    /\ UNCHANGED <<deployed, prod, seen, asked, plans, winner, actuation>>

-----------------------------------------------------------------------------
(* The call for production: it reads, and then it skips, fails or patches. *)
(* There is one for each incident: the row that is written before it       *)
(* refuses another, when the incident is run again.                        *)
Read(i) ==
    /\ inc[i] = "actuating" /\ read[i] = {}
    /\ \E p \in winner[i] : read' = [read EXCEPT ![i] = {prod[p.params.workload]}]
    /\ UNCHANGED <<deployed, prod, incident, late, landed, mixed>>

Answered(i, to) ==
    /\ inc' = [inc EXCEPT ![i] = to]
    /\ read' = [read EXCEPT ![i] = {}]
    /\ UNCHANGED <<deployed, seen, asked, plans, twins, winner, late>>

Skip(i) ==
    /\ inc[i] = "actuating"
    /\ \E p \in winner[i], was \in read[i] : AlreadyApplied(p, was)
    /\ Answered(i, "applied")
    /\ UNCHANGED <<prod, landed, mixed>>

Refuse(i) ==
    /\ inc[i] = "actuating"
    /\ \E p \in winner[i], was \in read[i] : CannotApply(p, was)
    /\ Answered(i, "failed")
    /\ UNCHANGED <<prod, landed, mixed>>

(* Another incident has read the workload and its patch may come.          *)
UnderWay(j, s) ==
    /\ read[j] # {} \/ late[j] # {}
    /\ \E p \in winner[j] : p.params.workload = s

ToDo(p, was) == ~AlreadyApplied(p, was) /\ ~CannotApply(p, was)

(* A patch computed from a read arrives.                                   *)
Lands(i, p, was) ==
    LET s == p.params.workload
    IN  /\ prod' = [prod EXCEPT ![s] = Patched(p, was, @)]
        /\ landed' = landed \cup {i}
        /\ mixed' = (mixed \/ \E j \in Incidents \ {i} : UnderWay(j, s))

Patch(i) ==
    /\ inc[i] = "actuating"
    /\ \E p \in winner[i], was \in read[i] : ToDo(p, was) /\ Lands(i, p, was)
    /\ Answered(i, "applied")

(* The call fails, or the incident's deadline passes, or the process dies, *)
(* in the middle of it; the patch may be on its way.                       *)
GiveUpCall(i) ==
    /\ Becomes(i, "actuating", "failed")
    /\ read' = [read EXCEPT ![i] = {}]
    /\ \/ UNCHANGED late
       \/ /\ \E p \in winner[i], was \in read[i] : ToDo(p, was)
          /\ late' = [late EXCEPT ![i] = read[i]]
    /\ UNCHANGED <<deployed, prod, seen, asked, plans, twins, winner, landed, mixed>>

Arrive(i) ==
    /\ \E p \in winner[i], was \in late[i] : Lands(i, p, was)
    /\ late' = [late EXCEPT ![i] = {}]
    /\ UNCHANGED <<deployed, incident, read>>

Incident(i) ==
    \/ CollectContext(i) \/ ConnectionLost(i) \/ AskAgain(i) \/ PlanCandidates(i)
    \/ ForkTwins(i) \/ ApplyToTwins(i) \/ Choose(i) \/ Escalate(i)
    \/ Read(i) \/ Skip(i) \/ Refuse(i) \/ Patch(i) \/ GiveUpCall(i) \/ Arrive(i)

ApplierNext == Deploy \/ \E i \in Incidents : Incident(i)

ApplierSpec == ApplierInit /\ [][ApplierNext]_applierVars
-----------------------------------------------------------------------------
(* Production stays a namespace whose Deployments have no negative number  *)
(* of replicas, whatever patches land in whatever order, and an incident   *)
(* has a twin for each of its plans from the fork on.                      *)
ApplierTypeOK ==
    /\ deployed \in 1..Len(History)
    /\ \A s \in Workloads :
          /\ prod[s].image \in Commits /\ prod[s].flag \in FlagStates
          /\ prod[s].value \subseteq Values
          /\ prod[s].replicas \in Nat /\ prod[s].restarts \in Nat
    /\ inc \in [Incidents -> {"new", "planning", "planned", "forked", "rehearsed", "actuating",
                              "applied", "escalated", "failed"}]
    /\ \A i \in Incidents :
          /\ asked[i] <= MaxRetries /\ (i \in landed => inc[i] \in {"applied", "failed"})
          /\ winner[i] \subseteq {plans[i][k] : k \in DOMAIN plans[i]}
          /\ twins[i] # <<>> => DOMAIN twins[i] = DOMAIN plans[i]

(* A ballot never names what does not exist: its plans are numbered from 0 *)
(* without gaps under identifiers of their own, doing nothing is among     *)
(* them, and what the planner proposed touches known workloads only, rolls *)
(* back to a commit that has an image for the workload, and can be undone  *)
(* on the same resources.  This survives candidates that are dropped, a    *)
(* playbook that joins, and the renumbering (validate.py:441-518,          *)
(* nodes/plan_candidates.py).                                              *)
BallotSound ==
    \A i \in Incidents : LET b == plans[i] IN b # <<>> =>
        /\ \A k, l \in DOMAIN b : b[k].index = k - 1 /\ (b[k].id = b[l].id => k = l)
        /\ \E k \in DOMAIN b : b[k].params.action = "no_action"
        /\ \A k \in DOMAIN b : LET c == b[k].params IN
              c.action # "no_action" /\ b[k].origin = "planner" =>
                /\ b[k].inverse # {} /\ InverseOf(b[k]).targets = b[k].targets
                /\ c.blast \subseteq Workloads
                /\ c.action = "rollback_deploy" =>
                      /\ TargetImage(c) # NoCommit
                      /\ InverseOf(b[k]).params.commit # c.commit

(* The replicas of a workload are what the deltas of the patches that have *)
(* landed add up to, those of abandoned calls among them.  A delta is lost *)
(* only when another incident has read the workload before the patch and   *)
(* patches after it (apply.py:517-551: read, then patch an absolute        *)
(* number, without the resource's version).                                *)
ReplicasAddUp ==
    ApplierTypeOK /\ (~mixed =>
        \A s \in Workloads :
            LET scalers == {i \in Incidents : i \in landed /\ \E p \in winner[i] :
                              p.params.action = "scale_workload" /\ p.params.workload = s}
                delta(i) == (CHOOSE p \in winner[i] : TRUE).params.delta
            IN  prod[s].replicas = Replicas + SumFunction([i \in scalers |-> delta(i)]))

(* A restart or a scale that is reported as applied without having touched *)
(* production has an explanation, and only one: another incident applied a *)
(* plan with the same identifier to the same workload (apply.py:416, 514). *)
SkipNeedsIdReuse ==
    \A i \in Incidents : \A p \in winner[i] :
        /\ inc[i] = "applied" /\ i \notin landed
        /\ p.params.action \in {"restart_workload", "scale_workload"}
        => \E j \in Incidents \ {i} : \E q \in winner[j] :
              j \in landed /\ q.id = p.id /\ q.params.workload = p.params.workload

(* A flag plan for a key that held neither "true" nor "false".             *)
OverwroteNoFlag(p, d) == p.params.action = "disable_flag" /\ d.flag = "neither"

(* The ballot is sound, and the inverse of a plan can be applied and       *)
(* restores what the plan changes in the environment the twins were forked *)
(* from.  That of a rollback is the planner's, and takes for granted that  *)
(* the workload ran the newest commit of the incident's context            *)
(* (inverse.py:168-195); that of a flag writes "true" or "false" whatever  *)
(* was there, so that the one flag it does not restore is one that the     *)
(* plan itself wrote over a key that was not there, or over another text   *)
(* (inverse.py:256-266, apply.py:616).                                     *)
InverseRestores ==
    BallotSound /\ \A i \in Incidents : inc[i] = "forked" => \A k \in DOMAIN twins[i] :
        LET p      == plans[i][k]
            s      == p.params.workload
            before == twins[i][k]
            after  == Apply(p, before)
            undone == Revert(p, after)
        IN  /\ CanRevert(p) /\ after # before
            /\ p.params.action = "rollback_deploy" =>
                  p.id = PlanId(p.index) /\ before[s].image = Context(i)[1].commit
            => /\ Applicable(InverseOf(p), after)
               /\ undone[s].image = before[s].image
               /\ undone[s].replicas = before[s].replicas
               /\ undone[s].flag = before[s].flag \/ OverwroteNoFlag(p, before[s])
=============================================================================
