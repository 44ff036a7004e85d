---------------------------- MODULE SafetyKernel ----------------------------
(***************************************************************************)
(* The verdict on one winning plan: facts are extracted source by source,  *)
(* while production goes on, and then each invariant of the PROOF tier is  *)
(* put to the solver.  What a source does not give is left out and never   *)
(* defaulted; an invariant that asks for it is not decided.                *)
(*                                                                         *)
(* Every invariant is ground, so that the solver, when it answers, answers *)
(* what the formula evaluates to; it may also give up.                     *)
(***************************************************************************)
EXTENDS Integers, Sequences

CONSTANTS
    Services,
    Callers,        \* who calls each service, in the dependency graph
    History,        \* the deploys, newest first: commit, and whether it migrates the schema
    Window,         \* how many of them the context of the incident has
    MinReplicas,    \* of slo.yaml, a function on the services it lists
    Budget,         \* mutation_budget
    Requests,       \* plans with the evidence of their rehearsal
    MaxReplicas,    \* bound on the replicas of a workload
    Changes         \* bound on what others do to production meanwhile

ProdNamespace == "ust-prod"
TwinNamespace == "ust-twin"

ASSUME KernelAssumption ==
    /\ Callers \in [Services -> SUBSET Services]
    /\ DOMAIN MinReplicas \subseteq Services
    /\ Window \in Nat /\ Budget \in Nat /\ MaxReplicas \in Nat /\ Changes \in Nat
    /\ History \in Seq({History[k] : k \in DOMAIN History})

EvidenceFields ==
    {"observed_blast_set", "evidence_age_seconds", "max_drop_ratio", "probe_sample_count"}

(* There is one inverse or none, and the evidence of one rehearsal or none.*)
ASSUME RequestAssumption ==
    \A r \in Requests :
        /\ \A e \in r.evidence : r.evidence = {e} /\ DOMAIN e = EvidenceFields
        /\ \A i \in r.plan.inverse : r.plan.inverse = {i}

VARIABLES
    desired, ready,   \* the replicas of each Deployment, and those that are healthy
    inFlight,         \* the targets in the rows of other incidents' active runs
    mutations,        \* rows in the window with an applied plan
    changes,          \* how often others changed these
    moved,            \*   after they were read
    request,          \* the plan and the evidence
    source,           \* the next source of facts, "solver" after the last
    facts,            \* by name
    inv,              \* the position of the invariant under way
    missing,          \* the names that were asked for in vain
    refuted,          \* the invariants that have a counterexample
    verdict           \* none yet, PASS, VETO or UNCERTAIN

world  == <<desired, ready, inFlight, mutations, changes>>
solver == <<inv, missing, refuted, verdict>>
vars   == <<world, moved, request, source, facts, solver>>

plan     == request.plan
evidence == request.evidence

(***************************************************************************)
(* Fact extraction.                                                        *)
(***************************************************************************)
(* Facts by name, which is a name alone, or a name and a service.          *)
Facts(values) == [n \in {<<k>> : k \in DOMAIN values} |-> values[n[1]]]

(* Of two facts with one name the later one counts.                        *)
Joined(f, g) ==
    [n \in DOMAIN f \cup DOMAIN g |-> IF n \in DOMAIN g THEN g[n] ELSE f[n]]

Workloads(p) == {p.workload} \cup {t.name : t \in {u \in p.targets : u.kind = "Deployment"}}

(* The facts are about the plan as it would be applied to production; the  *)
(* solver looks at the plan as it is, too.                                 *)
Prepared(targets) ==
    {IF t.namespace = TwinNamespace THEN [t EXCEPT !.namespace = ProdNamespace] ELSE t :
        t \in targets}

TargetNamespaces ==
    IF plan.targets = {} THEN {ProdNamespace} ELSE {t.namespace : t \in Prepared(plan.targets)}

HasInverse == plan.inverse # {} \/ plan.action = "no_action"

PlanFacts ==
    Facts([plan_target_namespaces |-> TargetNamespaces,
           plan_targets           |-> Prepared(plan.targets),
           declared_blast_set     |-> plan.blast,
           plan_has_inverse       |-> HasInverse,
           inverse_targets        |-> Prepared(UNION plan.inverse)])

ConfigFacts ==
    Joined(Facts([authorized_namespace |-> ProdNamespace, mutation_budget |-> Budget]),
           [n \in {<<"min_replicas", s>> : s \in DOMAIN MinReplicas} |-> MinReplicas[n[2]]])

(* The adapter of the workload reader has one number for both.             *)
ClusterFacts ==
    [n \in {<<k, s>> : k \in {"replicas", "healthy_replicas"}, s \in Workloads(plan)} |->
        desired[n[2]]]

RecentDeploys == SubSeq(History, 1, IF Window < Len(History) THEN Window ELSE Len(History))

(* Times are positions counted from the oldest deploy.                     *)
DeployedAt(k) == Len(History) - k

Migrations == {k \in DOMAIN RecentDeploys : RecentDeploys[k].migrates}

RollbackTargets ==
    {k \in DOMAIN RecentDeploys :
        plan.action = "rollback_deploy" /\ RecentDeploys[k].commit = plan.commit}

Latest(ks) == CHOOSE k \in ks : \A l \in ks : k <= l

GithubFacts ==
    LET target == RecentDeploys[Latest(RollbackTargets)]
    IN  Joined(IF Migrations = {} THEN <<>>
               ELSE Facts([last_migration_commit_time |-> DeployedAt(Latest(Migrations))]),
               IF RollbackTargets = {} THEN <<>>
               ELSE Facts([rollback_target_commit_time |-> DeployedAt(Latest(RollbackTargets)),
                           target_contains_migration   |-> target.migrates]))

(* What the search along the edges visits.                                 *)
Reachable(s) ==
    {d \in Services : \A found \in SUBSET Services :
        (Callers[s] \subseteq found /\ \A v \in found : Callers[v] \subseteq found) => d \in found}

GraphFacts == [n \in {<<"dependents", s>> : s \in Workloads(plan)} |-> Reachable(n[2])]

EvidenceFacts == Facts(IF evidence = {} THEN <<>> ELSE CHOOSE e \in evidence : TRUE)

(***************************************************************************)
(* The invariants: what each asks for, and its formula.                    *)
(***************************************************************************)
ProofInvariants == <<"K1", "K2", "K3", "K4", "K5", "K7", "K8", "K9">>

RequiredFacts(k) ==
    CASE k = "K1" -> {<<n, s>> : n \in {"min_replicas", "replicas", "healthy_replicas"},
                                 s \in Workloads(plan)}
      [] k = "K2" -> {<<"authorized_namespace">>, <<"plan_target_namespaces">>}
      [] k = "K3" -> IF plan.action # "rollback_deploy" THEN {}
                     ELSE {<<"last_migration_commit_time">>, <<"rollback_target_commit_time">>,
                           <<"target_contains_migration">>}
      [] k = "K4" -> {<<"declared_blast_set">>, <<"observed_blast_set">>} \cup
                     {<<"dependents", s>> : s \in Workloads(plan)}
      [] k = "K5" -> {<<"plan_targets">>, <<"in_flight_plan_targets">>}
      [] k = "K7" -> IF plan.action = "no_action" THEN {}
                     ELSE {<<"prod_mutations_in_window">>, <<"mutation_budget">>}
      [] k = "K8" -> {<<"evidence_age_seconds">>, <<"probe_sample_count">>, <<"max_drop_ratio">>}
      [] k = "K9" -> IF plan.action = "no_action" THEN {}
                     ELSE {<<"plan_has_inverse">>, <<"plan_targets">>, <<"inverse_targets">>}

(* A scale changes what is desired, and what is healthy with it.  A rolling*)
(* restart takes one pod down: no source has the maxUnavailable of the     *)
(* Deployment.                                                             *)
ReplicaFloor(f) ==
    \A s \in Workloads(plan) :
        LET delta == IF plan.action = "scale_workload" /\ s = plan.workload THEN plan.delta ELSE 0
            down  == IF plan.action = "restart_workload" THEN 1 ELSE 0
        IN  /\ f[<<"replicas", s>>] + delta >= f[<<"min_replicas", s>>]
            /\ f[<<"healthy_replicas", s>>] + delta - down >= f[<<"min_replicas", s>>]

NamespaceScope(f) ==
    \A n \in f[<<"plan_target_namespaces">>] \cup {t.namespace : t \in plan.targets} :
        n = f[<<"authorized_namespace">>]

(* The target itself may migrate.                                          *)
MigrationBoundary_Time(f) ==
    plan.action = "rollback_deploy" =>
        f[<<"rollback_target_commit_time">>] >= f[<<"last_migration_commit_time">>]

MigrationBoundary(f) ==
    plan.action = "rollback_deploy" =>
        /\ f[<<"rollback_target_commit_time">>] >= f[<<"last_migration_commit_time">>]
        /\ ~f[<<"target_contains_migration">>]

BlastContainment(f) ==
    /\ f[<<"observed_blast_set">>] \subseteq f[<<"declared_blast_set">>]
    /\ f[<<"declared_blast_set">>] \subseteq
          Workloads(plan) \cup UNION {f[<<"dependents", s>>] : s \in Workloads(plan)}

SingleWriter(f) ==
    (f[<<"plan_targets">>] \cup plan.targets) \cap f[<<"in_flight_plan_targets">>] = {}

MutationBudget(f) ==
    plan.action # "no_action" =>
        f[<<"prod_mutations_in_window">>] + 1 <= f[<<"mutation_budget">>]

MaxEvidenceAge == 300
MinProbeSamples == 60
DropCeiling == 5   \* percent

EvidenceSufficiency(f) ==
    /\ f[<<"evidence_age_seconds">>] <= MaxEvidenceAge
    /\ f[<<"probe_sample_count">>] >= MinProbeSamples
    /\ f[<<"max_drop_ratio">>] <= DropCeiling

Reversibility(f) ==
    plan.action # "no_action" =>
        /\ f[<<"plan_has_inverse">>]
        /\ f[<<"inverse_targets">>] \cup UNION plan.inverse = f[<<"plan_targets">>] \cup plan.targets

Holds(k, f) ==
    CASE k = "K1" -> ReplicaFloor(f)
      [] k = "K2" -> NamespaceScope(f)
      [] k = "K3" -> MigrationBoundary(f)
      [] k = "K4" -> BlastContainment(f)
      [] k = "K5" -> SingleWriter(f)
      [] k = "K7" -> MutationBudget(f)
      [] k = "K8" -> EvidenceSufficiency(f)
      [] k = "K9" -> Reversibility(f)

-----------------------------------------------------------------------------
Init ==
    /\ desired \in [Services -> 1..MaxReplicas]
    /\ ready = desired
    /\ inFlight = {} /\ mutations = 0
    /\ changes = 0 /\ moved = {}
    /\ request \in Requests
    /\ source = "cluster" /\ facts = Joined(PlanFacts, ConfigFacts)
    /\ inv = 1 /\ missing = {} /\ refuted = {} /\ verdict = "none"

(***************************************************************************)
(* Others: pods die and become ready, another incident scales, writes its  *)
(* row and finishes it.                                                    *)
(***************************************************************************)
Change(name, aspect) ==
    /\ verdict = "none" /\ changes < Changes
    /\ changes' = changes + 1
    /\ moved' = IF name \in DOMAIN facts THEN moved \cup {aspect} ELSE moved
    /\ UNCHANGED <<request, source, facts, solver>>

ReplicasChange(s) ==
    /\ \E d \in 0..MaxReplicas, r \in 0..MaxReplicas :
          /\ r <= d
          /\ desired' = [desired EXCEPT ![s] = d]
          /\ ready' = [ready EXCEPT ![s] = r]
    /\ Change(<<"replicas", s>>, "cluster")
    /\ UNCHANGED <<inFlight, mutations>>

RunStarts ==
    /\ \E r \in Requests : inFlight' = inFlight \cup r.plan.targets
    /\ Change(<<"in_flight_plan_targets">>, "inFlight")
    /\ UNCHANGED <<desired, ready, mutations>>

(* The row counts as a mutation from the moment it was written.            *)
RunCounts ==
    /\ mutations' = mutations + 1
    /\ Change(<<"prod_mutations_in_window">>, "mutations")
    /\ UNCHANGED <<desired, ready, inFlight>>

(***************************************************************************)
(* Extraction, in the order of extract_all.                                *)
(***************************************************************************)
Extract(from, to, new) ==
    /\ source = from /\ source' = to
    /\ facts' = Joined(facts, new)
    /\ UNCHANGED <<world, moved, request, solver>>

(* No reader is wired, or it does not know the workload.                   *)
ExtractCluster ==
    \/ Extract("cluster", "context", ClusterFacts)
    \/ Extract("cluster", "context", <<>>)

ExtractContext == Extract("context", "active", Joined(GithubFacts, GraphFacts))

(* Two queries.                                                            *)
ExtractActive == Extract("active", "window", Facts([in_flight_plan_targets |-> inFlight]))

ExtractWindow ==
    Extract("window", "solver",
            Joined(Facts([prod_mutations_in_window |-> mutations]), EvidenceFacts))

(***************************************************************************)
(* The solver.                                                             *)
(***************************************************************************)
Invariant == ProofInvariants[inv]

Known(k) == RequiredFacts(k) \subseteq DOMAIN facts

Solving == source = "solver" /\ verdict = "none" /\ inv <= Len(ProofInvariants)

Ask(next, m, r, v) ==
    /\ Solving
    /\ inv' = next /\ missing' = m /\ refuted' = r /\ verdict' = v
    /\ UNCHANGED <<world, moved, request, source, facts>>

Undecided ==
    /\ Solving /\ ~Known(Invariant)
    /\ \E n \in RequiredFacts(Invariant) \ DOMAIN facts :
          Ask(inv + 1, missing \cup {n}, refuted, "none")

Discharge ==
    /\ Solving /\ Known(Invariant) /\ Holds(Invariant, facts)
    /\ Ask(inv + 1, missing, refuted, "none")

Refute ==
    /\ Solving /\ Known(Invariant) /\ ~Holds(Invariant, facts)
    /\ Ask(inv + 1, missing, refuted \cup {Invariant}, IF missing = {} THEN "VETO" ELSE "none")

(* The ceiling is reached before an invariant, or the solver gives up.     *)
TimeOut == Ask(inv, missing, refuted, "UNCERTAIN")

(* What was missing is forgotten.                                          *)
Conclude_Lenient ==
    /\ source = "solver" /\ verdict = "none" /\ inv > Len(ProofInvariants)
    /\ verdict' = "PASS"
    /\ UNCHANGED <<world, moved, request, source, facts, inv, missing, refuted>>

Conclude ==
    /\ source = "solver" /\ verdict = "none" /\ inv > Len(ProofInvariants)
    /\ verdict' = IF missing = {} THEN "PASS" ELSE "UNCERTAIN"
    /\ UNCHANGED <<world, moved, request, source, facts, inv, missing, refuted>>

Verify == Undecided \/ Discharge \/ Refute \/ TimeOut \/ Conclude

Next ==
    \/ \E s \in Services : ReplicasChange(s)
    \/ RunStarts \/ RunCounts
    \/ ExtractCluster \/ ExtractContext \/ ExtractActive \/ ExtractWindow
    \/ Verify

Spec == Init /\ [][Next]_vars

-----------------------------------------------------------------------------
TypeOK ==
    /\ desired \in [Services -> Nat] /\ ready \in [Services -> Nat]
    /\ mutations \in Nat /\ changes \in 0..Changes
    /\ moved \subseteq {"cluster", "inFlight", "mutations"}
    /\ request \in Requests
    /\ source \in {"cluster", "context", "active", "window", "solver"}
    /\ inv \in 1..(Len(ProofInvariants) + 1)
    /\ missing \cap DOMAIN facts = {}
    /\ verdict \in {"none", "PASS", "VETO", "UNCERTAIN"}

(* PASS is never given while an invariant was left undecided or has a      *)
(* counterexample, in whatever order facts were missing, refutations were  *)
(* found and continued over, and time ran out (verify.py:100-252).         *)
PassIsProved ==
    verdict = "PASS" =>
        \A k \in DOMAIN ProofInvariants :
            Known(ProofInvariants[k]) /\ Holds(ProofInvariants[k], facts)

(***************************************************************************)
(* What PASS says of production, not of the facts.                         *)
(***************************************************************************)
Dependents(ss) == ss \cup UNION {Reachable(s) : s \in ss}

NoMigrationSince(commit) ==
    \E k \in DOMAIN History :
        History[k].commit = commit /\ \A l \in 1..k : ~History[l].migrates

(* A counterexample that was found is reported as a VETO, unless a fact    *)
(* had been missed before it; then no later step may turn it into PASS.    *)
(* And a VETO always has one (verify.py:178-205).                          *)
CounterexampleKept ==
    /\ refuted # {} => verdict = "VETO" \/ (missing # {} /\ verdict # "PASS")
    /\ verdict = "VETO" => \E k \in refuted : Known(k) /\ ~Holds(k, facts)

(* A plan that passes is safe for production as it is, whatever part of    *)
(* production has not moved since it was read: the desired replicas stay   *)
(* above the floor, neither the rollback's target nor a newer deploy has a *)
(* migration, however short the window of the context, no run in flight    *)
(* writes to the same resources, the budget lasts, the resources are       *)
(* production's, and what was hit in the rehearsal was declared and        *)
(* depends on what is changed.                                             *)
PassIsSafe ==
    /\ TypeOK /\ CounterexampleKept
    /\ verdict = "PASS" =>
        /\ "cluster" \notin moved =>
              \A s \in Workloads(plan) :
                  desired[s] + (IF plan.action = "scale_workload" /\ s = plan.workload
                                THEN plan.delta ELSE 0) >= MinReplicas[s]
        /\ "inFlight" \notin moved => plan.targets \cap inFlight = {}
        /\ "mutations" \notin moved => plan.action = "no_action" \/ mutations < Budget
        /\ \A t \in plan.targets : t.namespace = ProdNamespace
        /\ plan.action = "rollback_deploy" => NoMigrationSince(plan.commit)
        /\ \A e \in evidence :
              e.observed_blast_set \subseteq plan.blast
              /\ plan.blast \subseteq Dependents(Workloads(plan))
        /\ plan.action # "no_action" => plan.inverse = {plan.targets}

=============================================================================
