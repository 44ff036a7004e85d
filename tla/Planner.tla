------------------------------- MODULE Planner -------------------------------
(***************************************************************************)
(* The candidate plans of an incident: what the LLM proposed, checked      *)
(* against the schema, normalised against the cluster and the deploys, and *)
(* given an inverse.  A plan that names what does not exist is dropped,    *)
(* never repaired.                                                         *)
(*                                                                         *)
(* A commit reference abbreviates one commit.  A workload has one flag and *)
(* one configuration key.                                                  *)
(***************************************************************************)
EXTENDS Integers, Sequences, SequencesExt

CONSTANTS
    Workloads,   \* the nodes of the dependency graph, which are workloads
    Callers,     \* who calls each
    Commits,
    NoCommit,    \* no commit named, or none of the repository
    Values       \* of a configuration key

ASSUME PlannerAssumption ==
    /\ Callers \in [Workloads -> SUBSET Workloads]
    /\ NoCommit \notin Commits

Actions == {"rollback_deploy", "restart_workload", "scale_workload",
            "disable_flag", "revert_config", "no_action"}

(* An entry of the deploy history: the commit, and the workloads whose     *)
(* image digests were found in its manifests.  Newest first.               *)
DeployRefs == [commit : Commits, digests : SUBSET Workloads]

(* What a candidate of the LLM says.  A scale by 0, a value of {}, a flag  *)
(* of FALSE stand for parameters that were not given; reEnable is whether  *)
(* the rationale begins with "re-enable"; the inverse it suggests is only  *)
(* looked at for what does not exist ("bad").                              *)
Candidate(action, workload) ==
    [action |-> action, workload |-> workload, commit |-> NoCommit, delta |-> 0,
     flag |-> FALSE, value |-> {}, reEnable |-> FALSE, blast |-> {}, inverse |-> "none"]

(* The types of its fields; a workload or a commit may be any name.        *)
WellTyped(c) ==
    /\ c.action \in Actions /\ c.delta \in Int /\ c.value \subseteq Values
    /\ c.reEnable \in BOOLEAN

Params(c) == <<c.workload, c.commit, c.delta, c.flag, c.value>>

SchemaOk(c) ==
    /\ c.action = "no_action" => c.blast = {} /\ c.inverse = "none"
    /\ c.action # "no_action" => c.workload # ""
    /\ c.action = "rollback_deploy" => c.commit # NoCommit
    /\ c.action = "scale_workload" => c.delta # 0
    /\ c.action = "disable_flag" => c.flag
    /\ c.action = "revert_config" => c.value # {}

(* The numbered identifiers begin again with every incident.  That of a    *)
(* playbook is drawn once, when it is learned.                             *)
PlanId(idx)    == <<"plan_cand", idx>>
InverseId(id)  == Append(id, "inv")
PlaybookId(id) == <<"playbook", id>>

Targets(c) ==
    IF c.action = "no_action" THEN {}
    ELSE {<<IF c.action = "revert_config" THEN "ConfigMap" ELSE "Deployment", c.workload>>}

ToPlan(c, idx) ==
    [id |-> PlanId(idx), index |-> idx, params |-> c, targets |-> Targets(c),
     inverse |-> {}, origin |-> "planner"]

(***************************************************************************)
(* Normalisation.                                                          *)
(***************************************************************************)
Matching(commit, deploys) == {k \in DOMAIN deploys : deploys[k].commit = commit}

(* The first deploy of that commit has to know the digest of the workload. *)
ResolveCommitRef(commit, deploys, workload) ==
    LET found == Matching(commit, deploys)
    IN  IF found # {} /\ workload \in deploys[CHOOSE k \in found : \A l \in found : k <= l].digests
        THEN commit ELSE NoCommit

(* The transitive callers of a workload: what the search visits is the     *)
(* smallest set that has its callers and the callers of its members.       *)
TransitiveCallers(workload) ==
    {s \in Workloads : \A found \in SUBSET Workloads :
        (Callers[workload] \subseteq found /\ \A v \in found : Callers[v] \subseteq found)
            => s \in found}

BlastSetValid(blast, workload) == blast \subseteq {workload} \cup TransitiveCallers(workload)

(* The commit that the inverse of a rollback rolls forward to: the newest, *)
(* or, when that is the target, the newest other one that has the workload.*)
PreIncidentCommit(commit, deploys, workload) ==
    LET head   == deploys[1].commit
        others == {k \in 2..Len(deploys) :
                     /\ deploys[k].commit \notin {head, commit}
                     /\ (deploys[k].digests = {} \/ workload \in deploys[k].digests)}
    IN  IF deploys = <<>> THEN NoCommit
        ELSE IF commit # head THEN head
        ELSE IF others = {} THEN NoCommit
        ELSE deploys[CHOOSE k \in others : \A l \in others : k <= l].commit

(* The inverse of a flag that does what the plan did.                      *)
InverseParams_SameFlag(c, deploys) ==
    IF c.action = "no_action" THEN {} ELSE {[c EXCEPT !.delta = -c.delta]}

(* The value a key had before: no caller passes the configuration, so that *)
(* it is never known.                                                      *)
PriorConfigValue == {}

(* The parameters of the inverse, in a set that is empty when it cannot be *)
(* synthesised.                                                            *)
InverseParams(c, deploys) ==
    LET same == Candidate(c.action, c.workload)
    IN  CASE c.action = "scale_workload"   -> {[same EXCEPT !.delta = -d] : d \in {c.delta} \ {0}}
          [] c.action = "restart_workload" -> {same}
          [] c.action = "disable_flag"     -> {[same EXCEPT !.flag = TRUE, !.reEnable = ~c.reEnable]}
          [] c.action = "rollback_deploy"  ->
                {[same EXCEPT !.commit = k] :
                    k \in {PreIncidentCommit(c.commit, deploys, c.workload)} \ {NoCommit}}
          [] c.action = "revert_config"    -> {[same EXCEPT !.value = v] : v \in PriorConfigValue}
          [] OTHER -> {}

SynthesizeInverse(p, deploys) ==
    {[id |-> InverseId(p.id), index |-> p.index, params |-> [c EXCEPT !.blast = p.params.blast],
      targets |-> p.targets, inverse |-> {}, origin |-> p.origin] :
        c \in InverseParams(p.params, deploys)}

Normalises(p, deploys) ==
    LET c == p.params
    IN  /\ c.workload \in Workloads \/ (c.action = "no_action" /\ c.workload = "")
        /\ c.action # "no_action" =>
              /\ c.inverse # "bad"
              /\ c.action = "rollback_deploy" =>
                    ResolveCommitRef(c.commit, deploys, c.workload) # NoCommit
              /\ BlastSetValid(c.blast, c.workload)
              /\ SynthesizeInverse(p, deploys) # {}

NormalisePlan(p, deploys) ==
    IF p.params.action = "no_action" THEN p
    ELSE [p EXCEPT !.inverse = SynthesizeInverse(p, deploys)]

Survivors(plans, deploys) ==
    LET Keep(kept, p) == IF Normalises(p, deploys) THEN Append(kept, p) ELSE kept
    IN  FoldLeft(Keep, <<>>, plans)

(* The survivors are numbered anew, and their inverses with them.          *)
Reindexed(p, idx) ==
    [p EXCEPT !.id = PlanId(idx), !.index = idx,
              !.inverse = {[v EXCEPT !.id = InverseId(PlanId(idx)), !.index = idx] : v \in @}]

NormalisePlans(plans, deploys) ==
    LET survivors == Survivors(plans, deploys)
    IN  [k \in DOMAIN survivors |-> Reindexed(NormalisePlan(survivors[k], deploys), k - 1)]

NoActionPlan(idx) ==
    ToPlan(Candidate("no_action", CHOOSE s \in Workloads : TRUE), idx)

EnsureNoAction(plans) ==
    IF \E k \in DOMAIN plans : plans[k].params.action = "no_action" THEN plans
    ELSE Append(plans, NoActionPlan(Len(plans)))

(* One answer of the LLM.  An empty one, or one with a candidate that      *)
(* breaks the schema, is sent back with the error; text that is no JSON,   *)
(* and an error status instead of an answer, are treated as empty.         *)
Unparsed == <<>>

Acceptable(answer) == answer # <<>> /\ \A k \in DOMAIN answer : SchemaOk(answer[k])

CandidatesFrom(answer, deploys) ==
    LET plans == [k \in DOMAIN answer |-> ToPlan(answer[k], k - 1)]
    IN  EnsureNoAction(NormalisePlans(plans, deploys))

(* The playbook that was confirmed joins the ballot unless the planner had *)
(* the same plan.  It was normalised when it was learned, if ever.         *)
SamePlan(p, q) == p.params.action = q.params.action /\ Params(p.params) = Params(q.params)

WithPlaybook(plans, playbook) ==
    LET same    == {k \in DOMAIN plans : \E q \in playbook : SamePlan(plans[k], q)}
        first   == CHOOSE k \in same : \A l \in same : k <= l
        ballot  == IF same # {} THEN [plans EXCEPT ![first].origin = "playbook"]
                   ELSE plans \o SetToSeq(playbook)
    IN  [k \in DOMAIN ballot |-> [ballot[k] EXCEPT !.index = k - 1]]
=============================================================================
