------------------------- MODULE SafetyKernelProofs -------------------------
(***************************************************************************)
(* What PASS means, for any number of services, any history of deploys,    *)
(* any plans and any changes that others make meanwhile.                   *)
(*                                                                         *)
(* First, PASS means proved, whatever the formulas of the invariants say:  *)
(* they are not expanded.  The argument is the loop invariant of verify:   *)
(* as long as nothing is missing, each invariant before the one under way  *)
(* is known and holds.  It needs that the facts no longer change once the  *)
(* solver has begun.                                                       *)
(*                                                                         *)
(* Second, PASS means safe: every fact says what its source says, as long  *)
(* as that has not moved, and the formulas say enough of the facts.        *)
(***************************************************************************)
EXTENDS SafetyKernel, WellFoundedInduction, TLAPS

Proved(j) == Known(ProofInvariants[j]) /\ Holds(ProofInvariants[j], facts)

LoopInv ==
    /\ inv \in 1..(Len(ProofInvariants) + 1)
    /\ source # "solver" => inv = 1 /\ verdict = "none"
    /\ missing = {} /\ verdict = "none" => \A j \in 1..(inv - 1) : Proved(j)
    /\ verdict = "PASS" => \A j \in 1..Len(ProofInvariants) : Proved(j)

(* The proof tier has eight invariants.                                    *)
LEMMA EightInvariants ==
    Len(ProofInvariants) = 8 /\ DOMAIN ProofInvariants = 1..8
BY DEF ProofInvariants

(* Before the first invariant nothing has been discharged.                 *)
LEMMA InitLoopInv == Init => LoopInv
BY EightInvariants DEF Init, LoopInv

(* What the facts prove depends on the facts and the plan only.            *)
LEMMA ProvedUnchanged ==
    ASSUME UNCHANGED <<request, facts>>, NEW j \in 1..8
    PROVE  /\ Known(ProofInvariants[j])' <=> Known(ProofInvariants[j])
           /\ Holds(ProofInvariants[j], facts)' <=> Holds(ProofInvariants[j], facts)
           /\ Proved(j)' <=> Proved(j)
BY DEF Proved, Known, RequiredFacts, Holds, Workloads, plan, ReplicaFloor, NamespaceScope,
       MigrationBoundary, BlastContainment, SingleWriter, MutationBudget,
       EvidenceSufficiency, Reversibility

(* The loop of verify keeps its invariant, and so does what others do      *)
(* meanwhile.                                                              *)
LEMMA KeepsLoopInv ==
    ASSUME LoopInv, [Next]_vars
    PROVE  LoopInv'
<1>1. CASE UNCHANGED <<request, source, facts, solver>>
  BY <1>1, ProvedUnchanged, EightInvariants DEF LoopInv, solver
<1>2. ASSUME NEW from, NEW to, NEW new, from # "solver", Extract(from, to, new)
      PROVE  LoopInv'
  <2>1. inv = 1 /\ verdict = "none" /\ inv' = 1 /\ verdict' = "none"
    BY <1>2 DEF Extract, LoopInv, solver
  <2> QED BY <2>1, EightInvariants DEF LoopInv
<1>3. CASE Verify
  <2>1. source = "solver" /\ source' = source /\ UNCHANGED <<request, facts>>
    BY <1>3 DEF Verify, Undecided, Discharge, Refute, TimeOut, Conclude, Ask, Solving
  <2>2. CASE Undecided
    <3>1. missing' # {} /\ verdict' = "none" /\ inv \in 1..8 /\ inv' = inv + 1
      BY <2>2, EightInvariants DEF Undecided, Ask, Solving, LoopInv
    <3> QED BY <3>1, <2>1, EightInvariants DEF LoopInv
  <2>3. CASE Discharge
    <3>1. /\ inv \in 1..8 /\ inv' = inv + 1 /\ missing' = missing
          /\ verdict = "none" /\ verdict' = "none" /\ Proved(inv)
      BY <2>3, EightInvariants DEF Discharge, Ask, Solving, LoopInv, Proved, Invariant
    <3>2. ASSUME missing = {}, NEW j \in 1..(inv' - 1)
          PROVE  Proved(j)'
      BY <3>1, <3>2, <2>1, ProvedUnchanged DEF LoopInv
    <3> QED BY <3>1, <3>2, <2>1, EightInvariants DEF LoopInv
  <2>4. CASE Refute
    <3>1. /\ inv \in 1..8 /\ inv' = inv + 1 /\ missing' = missing /\ verdict' # "PASS"
          /\ verdict' = "none" => missing # {}
      BY <2>4, EightInvariants DEF Refute, Ask, Solving, LoopInv
    <3> QED BY <3>1, <2>1, EightInvariants DEF LoopInv
  <2>5. CASE TimeOut
    BY <2>5, <2>1, EightInvariants DEF TimeOut, Ask, Solving, LoopInv
  <2>6. CASE Conclude
    <3>1. /\ inv = 9 /\ inv' = inv /\ verdict = "none" /\ missing' = missing
          /\ verdict' = "PASS" => missing = {} /\ verdict' # "none"
      BY <2>6, EightInvariants DEF Conclude, LoopInv
    <3>2. ASSUME verdict' = "PASS", NEW j \in 1..8
          PROVE  Proved(j)'
      BY <3>1, <3>2, <2>1, ProvedUnchanged DEF LoopInv
    <3>3. verdict' # "none"
      BY <2>6 DEF Conclude
    <3> QED BY <3>1, <3>2, <3>3, <2>1, EightInvariants DEF LoopInv
  <2> QED BY <1>3, <2>2, <2>3, <2>4, <2>5, <2>6 DEF Verify
<1>4. CASE Next
  <2>1. CASE \/ \E s \in Services : ReplicasChange(s)
             \/ RunStarts \/ RunCounts
    BY <2>1, <1>1 DEF ReplicasChange, RunStarts, RunCounts, Change
  <2>2. CASE ExtractCluster
    BY <2>2, <1>2 DEF ExtractCluster
  <2>3. CASE ExtractContext
    BY <2>3, <1>2 DEF ExtractContext
  <2>4. CASE ExtractActive
    BY <2>4, <1>2 DEF ExtractActive
  <2>5. CASE ExtractWindow
    BY <2>5, <1>2 DEF ExtractWindow
  <2> QED BY <1>4, <2>1, <2>2, <2>3, <2>4, <2>5, <1>3 DEF Next
<1> QED BY <1>1, <1>4 DEF vars

(* The kernel passes no plan for which an invariant was left undecided or  *)
(* does not hold of the facts.                                             *)
THEOREM KernelPassIsProved == Spec => []PassIsProved
<1>1. LoopInv => PassIsProved
  BY EightInvariants DEF LoopInv, PassIsProved, Proved
<1> QED BY InitLoopInv, KeepsLoopInv, <1>1, PTL DEF Spec
-------------------------------------------------------------------------------
(* A set of numbers that is not empty has a least element.                 *)
LEMMA LatestIs ==
    ASSUME NEW ks, ks \subseteq Nat, ks # {}
    PROVE  Latest(ks) \in ks /\ \A l \in ks : Latest(ks) <= l
<1> DEFINE Below == {pair \in Nat \X Nat : pair[1] < pair[2]}
<1>1. IsWellFoundedOn(Below, Nat)
  BY NatLessThanWellFounded DEF OpToRel
<1>2. \E m \in ks : \A l \in ks : <<l, m>> \notin Below
  <2> HIDE DEF Below
  <2> QED BY <1>1, WFMin
<1>3. PICK m \in ks : \A l \in ks : <<l, m>> \notin Below
  BY <1>2
<1>4. ASSUME NEW l \in ks
      PROVE  m <= l
  <2>1. ~(l < m)
    BY <1>3 DEF Below
  <2> QED BY <2>1
<1> QED BY <1>4 DEF Latest

(* What a fact of this name says.                                          *)
SaysOfPlan(n, v) ==
    /\ n = <<"plan_target_namespaces">> => v = TargetNamespaces
    /\ n = <<"plan_targets">>           => v = Prepared(plan.targets)
    /\ n = <<"declared_blast_set">>     => v = plan.blast
    /\ n = <<"plan_has_inverse">>       => v = HasInverse
    /\ n = <<"inverse_targets">>        => v = Prepared(UNION plan.inverse)

SaysOfConfig(n, v) ==
    /\ n = <<"authorized_namespace">> => v = ProdNamespace
    /\ n = <<"mutation_budget">>      => v = Budget
    /\ \A s : n = <<"min_replicas", s>> => s \in Services /\ v = MinReplicas[s]

SaysOfContext(n, v) ==
    /\ n = <<"last_migration_commit_time">> =>
          Migrations # {} /\ v = DeployedAt(Latest(Migrations))
    /\ n = <<"rollback_target_commit_time">> =>
          RollbackTargets # {} /\ v = DeployedAt(Latest(RollbackTargets))
    /\ n = <<"target_contains_migration">> => v = RecentDeploys[Latest(RollbackTargets)].migrates
    /\ \A s : n = <<"dependents", s>> => v = Reachable(s)
    /\ n = <<"observed_blast_set">> => \A e \in evidence : v = e.observed_blast_set

SaysOfWorld(n, v) ==
    /\ \A s \in Services : n = <<"replicas", s>> /\ "cluster" \notin moved => v = desired[s]
    /\ n = <<"in_flight_plan_targets">> /\ "inFlight" \notin moved => v = inFlight
    /\ n = <<"prod_mutations_in_window">> /\ "mutations" \notin moved => v = mutations

Says(n, v) == SaysOfPlan(n, v) /\ SaysOfConfig(n, v) /\ SaysOfContext(n, v) /\ SaysOfWorld(n, v)

True(f) == \A n \in DOMAIN f : Says(n, f[n])

(* The facts of two sources are true if those of each are.                 *)
LEMMA JoinedIsTrue ==
    ASSUME NEW f, NEW g, True(f), True(g)
    PROVE  True(Joined(f, g))
BY DEF True, Joined

(* Facts named from a record are true if each of its fields is.            *)
LEMMA FactsAreTrue ==
    ASSUME NEW values, \A k \in DOMAIN values : Says(<<k>>, values[k])
    PROVE  True(Facts(values))
<1>1. ASSUME NEW n \in DOMAIN Facts(values)
      PROVE  Says(n, Facts(values)[n])
  <2>1. PICK k \in DOMAIN values : n = <<k>>
    BY <1>1 DEF Facts
  <2>2. Facts(values)[n] = values[k]
    BY <2>1 DEF Facts
  <2> QED BY <2>1, <2>2
<1> QED BY <1>1 DEF True

(* What each source says is true, whether it answered or not: first the    *)
(* plan itself, prepared for production.                                   *)
LEMMA PlanFactsAreTrue == True(PlanFacts)
<1> DEFINE values == [plan_target_namespaces |-> TargetNamespaces,
                      plan_targets           |-> Prepared(plan.targets),
                      declared_blast_set     |-> plan.blast,
                      plan_has_inverse       |-> HasInverse,
                      inverse_targets        |-> Prepared(UNION plan.inverse)]
<1>1. ASSUME NEW k \in DOMAIN values
      PROVE  Says(<<k>>, values[k])
  <2>1. k \in {"plan_target_namespaces", "plan_targets", "declared_blast_set",
               "plan_has_inverse", "inverse_targets"}
    OBVIOUS
  <2>2. SaysOfPlan(<<k>>, values[k])
    BY <2>1 DEF SaysOfPlan
  <2>3. SaysOfConfig(<<k>>, values[k]) /\ SaysOfContext(<<k>>, values[k]) /\ SaysOfWorld(<<k>>, values[k])
    <3> HIDE DEF values
    <3> QED BY <2>1 DEF SaysOfConfig, SaysOfContext, SaysOfWorld
  <2> QED BY <2>2, <2>3 DEF Says
<1> HIDE DEF values
<1>2. True(Facts(values))
  BY <1>1, FactsAreTrue
<1> QED BY <1>2 DEF PlanFacts, values

(* The configuration: production's namespace, the budget and the floors.   *)
LEMMA ConfigFactsAreTrue == True(ConfigFacts)
<1> DEFINE values == [authorized_namespace |-> ProdNamespace, mutation_budget |-> Budget]
           floors == [n \in {<<"min_replicas", s>> : s \in DOMAIN MinReplicas} |-> MinReplicas[n[2]]]
<1>1. True(Facts(values))
  <2>1. ASSUME NEW k \in DOMAIN values
        PROVE  Says(<<k>>, values[k])
    <3>1. k \in {"authorized_namespace", "mutation_budget"}
      OBVIOUS
    <3>2. SaysOfConfig(<<k>>, values[k])
      BY <3>1 DEF SaysOfConfig
    <3>3. SaysOfPlan(<<k>>, values[k]) /\ SaysOfContext(<<k>>, values[k]) /\ SaysOfWorld(<<k>>, values[k])
      <4> HIDE DEF values
      <4> QED BY <3>1 DEF SaysOfPlan, SaysOfContext, SaysOfWorld
    <3> QED BY <3>2, <3>3 DEF Says
  <2> HIDE DEF values
  <2> QED BY <2>1, FactsAreTrue
<1>2. True(floors)
  <2>1. ASSUME NEW n \in DOMAIN floors
        PROVE  Says(n, floors[n])
    <3>1. PICK s \in DOMAIN MinReplicas : n = <<"min_replicas", s>> /\ floors[n] = MinReplicas[s]
      OBVIOUS
    <3>2. s \in Services
      BY KernelAssumption DEF KernelAssumption
    <3> HIDE DEF floors
    <3> QED BY <3>1, <3>2 DEF Says, SaysOfPlan, SaysOfConfig, SaysOfContext, SaysOfWorld
  <2> QED BY <2>1 DEF True
<1> HIDE DEF values, floors
<1>3. ConfigFacts = Joined(Facts(values), floors)
  BY DEF ConfigFacts, values, floors
<1> QED BY <1>1, <1>2, <1>3, JoinedIsTrue

(* A source that did not answer says nothing, which is true.               *)
LEMMA NothingIsTrue == True(<<>>)
BY DEF True

(* The replicas, while they are what they were read to be.                 *)
LEMMA ClusterFactsAreTrue == True(ClusterFacts)
<1>1. ASSUME NEW n \in DOMAIN ClusterFacts
      PROVE  Says(n, ClusterFacts[n])
  <2>1. PICK k \in {"replicas", "healthy_replicas"}, s \in Workloads(plan) :
           n = <<k, s>> /\ ClusterFacts[n] = desired[s]
    BY <1>1 DEF ClusterFacts
  <2> QED BY <2>1 DEF Says, SaysOfPlan, SaysOfConfig, SaysOfContext, SaysOfWorld
<1> QED BY <1>1 DEF True

(* The deploys of the context: of several that migrate, and of several     *)
(* with the target's commit, the latest one.                               *)
LEMMA GithubFactsAreTrue == True(GithubFacts)
<1> DEFINE last   == DeployedAt(Latest(Migrations))
           time   == DeployedAt(Latest(RollbackTargets))
           breaks == RecentDeploys[Latest(RollbackTargets)].migrates
           older  == [last_migration_commit_time |-> last]
           target == [rollback_target_commit_time |-> time, target_contains_migration |-> breaks]
<1>1. ASSUME Migrations # {}
      PROVE  True(Facts(older))
  <2>1. ASSUME NEW k \in DOMAIN older
        PROVE  Says(<<k>>, older[k])
    <3>1. k = "last_migration_commit_time" /\ older[k] = last
      OBVIOUS
    <3> HIDE DEF older
    <3> QED BY <1>1, <3>1 DEF Says, SaysOfPlan, SaysOfConfig, SaysOfContext, SaysOfWorld
  <2> HIDE DEF older
  <2> QED BY <2>1, FactsAreTrue
<1>2. ASSUME RollbackTargets # {}
      PROVE  True(Facts(target))
  <2>1. ASSUME NEW k \in DOMAIN target
        PROVE  Says(<<k>>, target[k])
    <3>1. \/ k = "rollback_target_commit_time" /\ target[k] = time
          \/ k = "target_contains_migration" /\ target[k] = breaks
      OBVIOUS
    <3> HIDE DEF target
    <3> QED BY <1>2, <3>1 DEF Says, SaysOfPlan, SaysOfConfig, SaysOfContext, SaysOfWorld
  <2> HIDE DEF target
  <2> QED BY <2>1, FactsAreTrue
<1>3. GithubFacts = Joined(IF Migrations = {} THEN <<>> ELSE Facts(older),
                           IF RollbackTargets = {} THEN <<>> ELSE Facts(target))
  BY DEF GithubFacts
<1> HIDE DEF older, target
<1>4. /\ True(IF Migrations = {} THEN <<>> ELSE Facts(older))
      /\ True(IF RollbackTargets = {} THEN <<>> ELSE Facts(target))
  BY <1>1, <1>2, NothingIsTrue
<1> QED BY <1>3, <1>4, JoinedIsTrue

(* Who depends on the workloads of the plan.                               *)
LEMMA GraphFactsAreTrue == True(GraphFacts)
<1>1. ASSUME NEW n \in DOMAIN GraphFacts
      PROVE  Says(n, GraphFacts[n])
  <2>1. PICK s \in Workloads(plan) : n = <<"dependents", s>> /\ GraphFacts[n] = Reachable(s)
    BY <1>1 DEF GraphFacts
  <2> QED BY <2>1 DEF Says, SaysOfPlan, SaysOfConfig, SaysOfContext, SaysOfWorld
<1> QED BY <1>1 DEF True

(* The targets in flight at the moment of the first query.                 *)
LEMMA ActiveFactsAreTrue == True(Facts([in_flight_plan_targets |-> inFlight]))
<1> DEFINE values == [in_flight_plan_targets |-> inFlight]
<1>1. ASSUME NEW k \in DOMAIN values
      PROVE  Says(<<k>>, values[k])
  <2>1. k = "in_flight_plan_targets" /\ values[k] = inFlight
    OBVIOUS
  <2> HIDE DEF values
  <2> QED BY <2>1 DEF Says, SaysOfPlan, SaysOfConfig, SaysOfContext, SaysOfWorld
<1> QED BY <1>1, FactsAreTrue

(* The mutations in the window at the moment of the second.                *)
LEMMA WindowFactsAreTrue == True(Facts([prod_mutations_in_window |-> mutations]))
<1> DEFINE values == [prod_mutations_in_window |-> mutations]
<1>1. ASSUME NEW k \in DOMAIN values
      PROVE  Says(<<k>>, values[k])
  <2>1. k = "prod_mutations_in_window" /\ values[k] = mutations
    OBVIOUS
  <2> HIDE DEF values
  <2> QED BY <2>1 DEF Says, SaysOfPlan, SaysOfConfig, SaysOfContext, SaysOfWorld
<1> QED BY <1>1, FactsAreTrue

(* The evidence of the rehearsal, of which there is one or none.           *)
LEMMA EvidenceFactsAreTrue ==
    ASSUME request \in Requests
    PROVE  True(EvidenceFacts)
<1> DEFINE values == IF evidence = {} THEN <<>> ELSE CHOOSE e \in evidence : TRUE
<1>1. ASSUME NEW k \in DOMAIN values
      PROVE  Says(<<k>>, values[k])
  <2>1. values \in evidence
    BY <1>1
  <2>2. evidence = {values} /\ DOMAIN values = EvidenceFields
    BY <2>1, RequestAssumption DEF RequestAssumption, evidence
  <2> HIDE DEF values
  <2>3. k \in EvidenceFields
    BY <1>1, <2>2
  <2> QED
    BY <2>2, <2>3 DEF EvidenceFields, Says, SaysOfPlan, SaysOfConfig, SaysOfContext, SaysOfWorld
<1> HIDE DEF values
<1>2. True(Facts(values))
  BY <1>1, FactsAreTrue
<1> QED BY <1>2 DEF EvidenceFacts, values

(* A fact stays true until its source moves, and then nothing is claimed.  *)
LEMMA StaysTrue ==
    ASSUME request' = request, facts' = facts, True(facts), moved \subseteq moved',
           \A s \in Services : <<"replicas", s>> \in DOMAIN facts =>
               desired'[s] = desired[s] \/ "cluster" \in moved',
           <<"in_flight_plan_targets">> \in DOMAIN facts => inFlight' = inFlight \/ "inFlight" \in moved',
           <<"prod_mutations_in_window">> \in DOMAIN facts => mutations' = mutations \/ "mutations" \in moved'
    PROVE  True(facts)'
<1> SUFFICES ASSUME NEW n \in DOMAIN facts
             PROVE  Says(n, facts[n])'
  BY DEF True
<1>1. Says(n, facts[n])
  BY DEF True
<1>2. SaysOfPlan(n, facts[n])'
  BY <1>1 DEF Says, SaysOfPlan, TargetNamespaces, Prepared, HasInverse, plan
<1>3. SaysOfConfig(n, facts[n])'
  BY <1>1 DEF Says, SaysOfConfig
<1>4. SaysOfContext(n, facts[n])'
  <2>1. RollbackTargets' = RollbackTargets /\ evidence' = evidence
    BY DEF RollbackTargets, plan, evidence
  <2> QED BY <1>1, <2>1 DEF Says, SaysOfContext
<1>5. SaysOfWorld(n, facts[n])'
  BY <1>1 DEF Says, SaysOfWorld
<1> QED BY <1>2, <1>3, <1>4, <1>5 DEF Says
-------------------------------------------------------------------------------
(* Before the solver nothing is missing or refuted, and what is refuted is *)
(* an invariant.                                                           *)
AskedInv ==
    /\ source # "solver" => missing = {} /\ refuted = {}
    /\ refuted \subseteq {ProofInvariants[j] : j \in 1..8}

KernelInv == LoopInv /\ TypeOK /\ AskedInv /\ CounterexampleKept /\ True(facts)

(* The facts the kernel starts with are the plan's and the                 *)
(* configuration's.                                                        *)
LEMMA KernelInit == Init => KernelInv
<1> SUFFICES ASSUME Init
             PROVE  KernelInv
  OBVIOUS
<1>1. LoopInv /\ True(facts)
  BY InitLoopInv, PlanFactsAreTrue, ConfigFactsAreTrue, JoinedIsTrue DEF Init
<1>2. TypeOK
  BY EightInvariants, KernelAssumption DEF Init, TypeOK, KernelAssumption
<1>3. AskedInv /\ CounterexampleKept
  BY DEF Init, AskedInv, CounterexampleKept
<1> QED BY <1>1, <1>2, <1>3 DEF KernelInv

(* What others do.                                                         *)
LEMMA OthersKeepIt ==
    ASSUME KernelInv, LoopInv', (\E s \in Services : ReplicasChange(s)) \/ RunStarts \/ RunCounts
    PROVE  KernelInv'
<1> USE DEF KernelInv
<1>1. UNCHANGED <<request, source, facts, solver>>
  BY DEF ReplicasChange, RunStarts, RunCounts, Change
<1>2. /\ changes \in 0..Changes /\ changes < Changes /\ changes' = changes + 1
      /\ moved \subseteq moved' /\ moved' \subseteq {"cluster", "inFlight", "mutations"}
  BY DEF ReplicasChange, RunStarts, RunCounts, Change, TypeOK
<1>3. changes' \in 0..Changes
  BY <1>2, KernelAssumption DEF KernelAssumption
<1>4. /\ desired' \in [Services -> Nat] /\ ready' \in [Services -> Nat] /\ mutations' \in Nat
  <2>1. CASE \E s \in Services : ReplicasChange(s)
    BY <2>1, KernelAssumption DEF ReplicasChange, TypeOK, KernelAssumption
  <2> QED BY <2>1 DEF RunStarts, RunCounts, TypeOK
<1>5. TypeOK'
  BY <1>1, <1>2, <1>3, <1>4, EightInvariants DEF TypeOK, solver, ProofInvariants
<1>6. AskedInv'
  BY <1>1 DEF AskedInv, solver, ProofInvariants
<1>7. CounterexampleKept'
  BY <1>1, ProvedUnchanged DEF CounterexampleKept, AskedInv, solver
<1>8. True(facts)'
  <2>1. CASE \E s \in Services : ReplicasChange(s)
    <3>1. PICK s \in Services : ReplicasChange(s)
      BY <2>1
    <3>2. \A u \in Services \ {s} : desired'[u] = desired[u]
      BY <3>1 DEF ReplicasChange, TypeOK
    <3>3. <<"replicas", s>> \in DOMAIN facts => "cluster" \in moved'
      BY <3>1 DEF ReplicasChange, Change
    <3>4. UNCHANGED <<inFlight, mutations>>
      BY <3>1 DEF ReplicasChange
    <3> QED BY <1>1, <1>2, <3>2, <3>3, <3>4, StaysTrue
  <2>2. CASE RunStarts
    BY <1>1, <1>2, <2>2, StaysTrue DEF RunStarts, Change
  <2>3. CASE RunCounts
    BY <1>1, <1>2, <2>3, StaysTrue DEF RunCounts, Change
  <2> QED BY <2>1, <2>2, <2>3
<1> QED BY <1>5, <1>6, <1>7, <1>8

(* The extraction of the facts of one source, which are true.              *)
LEMMA ExtractKeepsIt ==
    ASSUME KernelInv, LoopInv', NEW from \in {"cluster", "context", "active", "window"},
           NEW to \in {"context", "active", "window", "solver"}, NEW new, Extract(from, to, new),
           True(new)
    PROVE  KernelInv'
<1> USE DEF KernelInv
<1>1. /\ source # "solver" /\ source' = to /\ facts' = Joined(facts, new)
      /\ UNCHANGED <<world, moved, request, solver>>
  BY DEF Extract
<1>2. missing = {} /\ refuted = {} /\ verdict = "none"
  BY <1>1 DEF AskedInv, LoopInv
<1>3. TypeOK'
  BY <1>1, <1>2 DEF TypeOK, world, solver, ProofInvariants
<1>4. AskedInv' /\ CounterexampleKept'
  BY <1>1, <1>2 DEF AskedInv, CounterexampleKept, solver
<1>5. True(Joined(facts, new))
  BY JoinedIsTrue
<1>6. True(facts)'
  <2> SUFFICES ASSUME NEW n \in DOMAIN facts'
               PROVE  Says(n, facts[n])'
    BY DEF True
  <2>1. Says(n, facts'[n]) /\ UNCHANGED <<request, moved, desired, inFlight, mutations>>
    BY <1>1, <1>5 DEF True, world
  <2>2. SaysOfPlan(n, facts[n])'
    BY <2>1 DEF Says, SaysOfPlan, TargetNamespaces, Prepared, HasInverse, plan
  <2>3. SaysOfConfig(n, facts[n])' /\ SaysOfWorld(n, facts[n])'
    BY <2>1 DEF Says, SaysOfConfig, SaysOfWorld
  <2>4. SaysOfContext(n, facts[n])'
    <3>1. RollbackTargets' = RollbackTargets /\ evidence' = evidence
      BY <2>1 DEF RollbackTargets, plan, evidence
    <3> QED BY <2>1, <3>1 DEF Says, SaysOfContext
  <2> QED BY <2>2, <2>3, <2>4 DEF Says
<1> QED BY <1>3, <1>4, <1>6

(* What the solver finds, and what becomes of it.                          *)
LEMMA VerifyKeepsIt ==
    ASSUME KernelInv, LoopInv', Verify
    PROVE  KernelInv'
<1> USE DEF KernelInv
<1>1. source = "solver" /\ verdict = "none" /\ UNCHANGED <<world, moved, request, source, facts>>
  BY DEF Verify, Undecided, Discharge, Refute, TimeOut, Conclude, Ask, Solving
<1>2. True(facts)'
  BY <1>1, StaysTrue DEF world
<1>3. /\ verdict' \in {"none", "PASS", "VETO", "UNCERTAIN"}
      /\ missing' \cap DOMAIN facts = {}
  BY DEF Verify, Undecided, Discharge, Refute, TimeOut, Conclude, Ask, Solving, TypeOK
<1>4. TypeOK'
  BY <1>1, <1>3 DEF TypeOK, LoopInv, world, ProofInvariants
<1>5. Solving => Invariant \in {ProofInvariants[j] : j \in 1..8}
  BY EightInvariants DEF Solving, Invariant, LoopInv
<1>6. AskedInv'
  <2>1. refuted' = refuted \/ (Solving /\ refuted' = refuted \cup {Invariant})
    BY DEF Verify, Undecided, Discharge, Refute, TimeOut, Conclude, Ask
  <2> QED BY <1>1, <1>5, <2>1 DEF AskedInv, ProofInvariants
<1>7. CounterexampleKept'
  <2>1. refuted # {} => missing # {}
    BY <1>1 DEF CounterexampleKept
  <2>2. CASE Refute
    <3>1. /\ Known(Invariant) /\ ~Holds(Invariant, facts) /\ Solving
          /\ refuted' = refuted \cup {Invariant} /\ missing' = missing
          /\ verdict' = IF missing = {} THEN "VETO" ELSE "none"
      BY <2>2 DEF Refute, Ask
    <3>2. PICK j \in 1..8 : Invariant = ProofInvariants[j]
      BY <1>5, <3>1
    <3>3. Known(ProofInvariants[j])' /\ ~Holds(ProofInvariants[j], facts)'
      BY <1>1, <3>1, <3>2, ProvedUnchanged
    <3> QED BY <3>1, <3>2, <3>3 DEF CounterexampleKept, ProofInvariants
  <2>3. CASE ~Refute
    <3>1. /\ refuted' = refuted /\ missing \subseteq missing' /\ verdict' # "VETO"
          /\ verdict' = "PASS" => missing' = {}
      BY <1>1, <2>3 DEF Verify, Undecided, Discharge, TimeOut, Conclude, Ask
    <3> QED BY <2>1, <3>1 DEF CounterexampleKept
  <2> QED BY <2>2, <2>3
<1> QED BY <1>2, <1>4, <1>6, <1>7

(* Every step keeps the invariant: a source adds true facts, others make   *)
(* only such facts false as they mark as moved, and verify adds none.      *)
LEMMA KernelNext == KernelInv /\ [Next]_vars => KernelInv'
<1> SUFFICES ASSUME KernelInv, [Next]_vars
             PROVE  KernelInv'
  OBVIOUS
<1>1. LoopInv'
  BY KeepsLoopInv DEF KernelInv
<1>2. CASE UNCHANGED vars
  <2>1. True(facts)'
    BY <1>2, StaysTrue DEF KernelInv, vars, world
  <2>2. CounterexampleKept'
    BY <1>2, ProvedUnchanged DEF KernelInv, CounterexampleKept, AskedInv, vars, solver
  <2> QED
    BY <1>1, <1>2, <2>1, <2>2 DEF KernelInv, TypeOK, AskedInv, vars, world, solver, ProofInvariants
<1>3. CASE (\E s \in Services : ReplicasChange(s)) \/ RunStarts \/ RunCounts
  BY <1>1, <1>3, OthersKeepIt
<1>4. CASE ExtractCluster
  BY <1>1, <1>4, ExtractKeepsIt, ClusterFactsAreTrue, NothingIsTrue DEF ExtractCluster
<1>5. CASE ExtractContext
  BY <1>1, <1>5, ExtractKeepsIt, GithubFactsAreTrue, GraphFactsAreTrue, JoinedIsTrue
     DEF ExtractContext
<1>6. CASE ExtractActive
  BY <1>1, <1>6, ExtractKeepsIt, ActiveFactsAreTrue DEF ExtractActive
<1>7. CASE ExtractWindow
  <2>1. True(Joined(Facts([prod_mutations_in_window |-> mutations]), EvidenceFacts))
    BY WindowFactsAreTrue, EvidenceFactsAreTrue, JoinedIsTrue DEF KernelInv, TypeOK
  <2> QED BY <1>1, <1>7, <2>1, ExtractKeepsIt DEF ExtractWindow
<1>8. CASE Verify
  BY <1>1, <1>8, VerifyKeepsIt
<1> QED BY <1>2, <1>3, <1>4, <1>5, <1>6, <1>7, <1>8 DEF Next

(* What the formulas of a plan that passed say, with what the facts say.   *)
LEMMA PassedFormulas ==
    ASSUME KernelInv, verdict = "PASS"
    PROVE  /\ \A k \in {"K1", "K2", "K3", "K4", "K5", "K7", "K9"} : RequiredFacts(k) \subseteq DOMAIN facts
           /\ ReplicaFloor(facts) /\ NamespaceScope(facts) /\ MigrationBoundary(facts)
           /\ BlastContainment(facts) /\ SingleWriter(facts) /\ MutationBudget(facts)
           /\ Reversibility(facts)
<1>1. \A j \in 1..8 : Known(ProofInvariants[j]) /\ Holds(ProofInvariants[j], facts)
  BY EightInvariants DEF KernelInv, LoopInv, Proved
<1>2. \A k \in {"K1", "K2", "K3", "K4", "K5", "K7", "K9"} : Known(k) /\ Holds(k, facts)
  BY <1>1 DEF ProofInvariants
<1> QED BY <1>2 DEF Known, Holds

(* K1, K5 and K7: the world, as far as it has not moved.                   *)
LEMMA WorldIsSafe ==
    ASSUME KernelInv, verdict = "PASS"
    PROVE  /\ "cluster" \notin moved =>
                 \A s \in Workloads(plan) :
                     desired[s] + (IF plan.action = "scale_workload" /\ s = plan.workload
                                   THEN plan.delta ELSE 0) >= MinReplicas[s]
           /\ "inFlight" \notin moved => plan.targets \cap inFlight = {}
           /\ "mutations" \notin moved => plan.action = "no_action" \/ mutations < Budget
<1>1. True(facts) /\ mutations \in Nat /\ Budget \in Nat
  BY KernelAssumption DEF KernelInv, TypeOK, KernelAssumption
<1>2. ASSUME "cluster" \notin moved, NEW s \in Workloads(plan)
      PROVE  desired[s] + (IF plan.action = "scale_workload" /\ s = plan.workload
                           THEN plan.delta ELSE 0) >= MinReplicas[s]
  <2>1. <<"replicas", s>> \in DOMAIN facts /\ <<"min_replicas", s>> \in DOMAIN facts
    BY PassedFormulas DEF RequiredFacts
  <2>2. s \in Services /\ facts[<<"min_replicas", s>>] = MinReplicas[s]
    BY <1>1, <2>1 DEF True, Says, SaysOfConfig
  <2>3. facts[<<"replicas", s>>] = desired[s]
    BY <1>1, <1>2, <2>1, <2>2 DEF True, Says, SaysOfWorld
  <2> QED BY <2>2, <2>3, PassedFormulas DEF ReplicaFloor
<1>3. ASSUME "inFlight" \notin moved
      PROVE  plan.targets \cap inFlight = {}
  <2>1. <<"in_flight_plan_targets">> \in DOMAIN facts
    BY PassedFormulas DEF RequiredFacts
  <2>2. facts[<<"in_flight_plan_targets">>] = inFlight
    BY <1>1, <1>3, <2>1 DEF True, Says, SaysOfWorld
  <2> QED BY <2>2, PassedFormulas DEF SingleWriter
<1>4. ASSUME "mutations" \notin moved, plan.action # "no_action"
      PROVE  mutations < Budget
  <2>1. <<"prod_mutations_in_window">> \in DOMAIN facts /\ <<"mutation_budget">> \in DOMAIN facts
    BY <1>4, PassedFormulas DEF RequiredFacts
  <2>2. facts[<<"prod_mutations_in_window">>] = mutations
    BY <1>1, <1>4, <2>1 DEF True, Says, SaysOfWorld
  <2>3. facts[<<"mutation_budget">>] = Budget
    BY <1>1, <2>1 DEF True, Says, SaysOfConfig
  <2>4. mutations + 1 <= Budget
    BY <1>4, <2>2, <2>3, PassedFormulas DEF MutationBudget
  <2> QED BY <1>1, <2>4
<1> QED BY <1>2, <1>3, <1>4

(* K2 and K9: the resources are production's, before and after.            *)
LEMMA ScopeIsSafe ==
    ASSUME KernelInv, verdict = "PASS"
    PROVE  /\ \A t \in plan.targets : t.namespace = ProdNamespace
           /\ plan.action # "no_action" => plan.inverse = {plan.targets}
<1>1. True(facts)
  BY DEF KernelInv
<1>2. \A t \in plan.targets : t.namespace = ProdNamespace
  <2>1. <<"authorized_namespace">> \in DOMAIN facts
    BY PassedFormulas DEF RequiredFacts
  <2>2. facts[<<"authorized_namespace">>] = ProdNamespace
    BY <1>1, <2>1 DEF True, Says, SaysOfConfig
  <2> QED BY <2>2, PassedFormulas DEF NamespaceScope
<1>3. ASSUME NEW ts, \A t \in ts : t.namespace = ProdNamespace
      PROVE  Prepared(ts) = ts
  BY <1>3 DEF Prepared, ProdNamespace, TwinNamespace
<1>4. ASSUME plan.action # "no_action"
      PROVE  plan.inverse = {plan.targets}
  <2>1. /\ <<"plan_has_inverse">> \in DOMAIN facts /\ <<"plan_targets">> \in DOMAIN facts
        /\ <<"inverse_targets">> \in DOMAIN facts
    BY <1>4, PassedFormulas DEF RequiredFacts
  <2>2. /\ facts[<<"plan_has_inverse">>] = HasInverse
        /\ facts[<<"plan_targets">>] = Prepared(plan.targets)
        /\ facts[<<"inverse_targets">>] = Prepared(UNION plan.inverse)
    BY <1>1, <2>1 DEF True, Says, SaysOfPlan
  <2>3. /\ HasInverse
        /\ Prepared(UNION plan.inverse) \cup UNION plan.inverse
              = Prepared(plan.targets) \cup plan.targets
    <3>1. Reversibility(facts)
      BY PassedFormulas
    <3> QED BY <1>4, <2>2, <3>1 DEF Reversibility
  <2>4. Prepared(plan.targets) = plan.targets
    BY <1>2, <1>3
  <2>5. UNION plan.inverse = plan.targets
    <3>1. UNION plan.inverse \subseteq plan.targets
      BY <2>3, <2>4
    <3>2. Prepared(UNION plan.inverse) = UNION plan.inverse
      BY <1>2, <1>3, <3>1
    <3> QED BY <2>3, <2>4, <3>2
  <2>6. PICK i \in plan.inverse : plan.inverse = {i}
    BY <1>4, <2>3, RequestAssumption DEF HasInverse, KernelInv, TypeOK, RequestAssumption, plan
  <2> QED BY <2>5, <2>6
<1> QED BY <1>2, <1>4

(* K3: the least of the positions that migrate lies beyond the target.     *)
LEMMA RollbackIsSafe ==
    ASSUME KernelInv, verdict = "PASS", plan.action = "rollback_deploy"
    PROVE  NoMigrationSince(plan.commit)
<1> DEFINE n == IF Window < Len(History) THEN Window ELSE Len(History)
<1>1. True(facts)
  BY DEF KernelInv
<1>2. /\ History \in Seq({History[k] : k \in DOMAIN History}) /\ Window \in Nat
      /\ Len(History) \in Nat /\ DOMAIN History = 1..Len(History)
  BY KernelAssumption DEF KernelAssumption
<1>3. /\ n \in Nat /\ n <= Len(History) /\ DOMAIN RecentDeploys = 1..n
      /\ \A k \in 1..n : RecentDeploys[k] = History[k]
  BY <1>2 DEF RecentDeploys
<1> HIDE DEF n
<1>4. /\ <<"last_migration_commit_time">> \in DOMAIN facts
      /\ <<"rollback_target_commit_time">> \in DOMAIN facts
      /\ <<"target_contains_migration">> \in DOMAIN facts
  BY PassedFormulas DEF RequiredFacts
<1> DEFINE m == Latest(Migrations)
           k == Latest(RollbackTargets)
<1>5. /\ Migrations # {} /\ RollbackTargets # {}
      /\ facts[<<"last_migration_commit_time">>] = DeployedAt(m)
      /\ facts[<<"rollback_target_commit_time">>] = DeployedAt(k)
      /\ facts[<<"target_contains_migration">>] = RecentDeploys[k].migrates
  BY <1>1, <1>4 DEF True, Says, SaysOfContext
<1>6. Migrations \subseteq 1..n /\ RollbackTargets \subseteq 1..n
  BY <1>3 DEF Migrations, RollbackTargets
<1>7. /\ m \in Migrations /\ \A l \in Migrations : m <= l
      /\ k \in RollbackTargets
  <2>1. 1..n \subseteq Nat
    BY <1>3
  <2>2. Migrations \subseteq Nat /\ RollbackTargets \subseteq Nat
    BY <1>6, <2>1
  <2>3. m \in Migrations /\ \A l \in Migrations : m <= l
    BY <1>5, <2>2, LatestIs
  <2>4. k \in RollbackTargets
    BY <1>5, <2>2, LatestIs
  <2> QED BY <2>3, <2>4
<1> HIDE DEF m, k
<1>8. DeployedAt(k) >= DeployedAt(m) /\ ~RecentDeploys[k].migrates
  BY <1>5, PassedFormulas DEF MigrationBoundary
<1>9. m \in Nat /\ k \in Nat /\ k <= m /\ k # m
  <2>1. m \in Nat /\ k \in Nat
    BY <1>3, <1>6, <1>7
  <2>2. k # m
    BY <1>7, <1>8 DEF Migrations
  <2>3. Len(History) - k >= Len(History) - m
    BY <1>8 DEF DeployedAt
  <2> QED BY <1>2, <2>1, <2>2, <2>3
<1>10. \A l \in 1..k : ~History[l].migrates
  <2> SUFFICES ASSUME NEW l \in 1..k, History[l].migrates
               PROVE  FALSE
    OBVIOUS
  <2>1. l \in 1..n
    BY <1>3, <1>6, <1>7, <1>9
  <2>2. l \in Migrations
    BY <1>3, <2>1 DEF Migrations
  <2> QED BY <1>7, <1>9, <2>2
<1>11. k \in DOMAIN History /\ History[k].commit = plan.commit
  BY <1>2, <1>3, <1>6, <1>7 DEF RollbackTargets
<1> QED BY <1>10, <1>11 DEF NoMigrationSince

(* K4: what the rehearsal hit was declared, and depends on what is changed.*)
LEMMA BlastIsSafe ==
    ASSUME KernelInv, verdict = "PASS", NEW e \in evidence
    PROVE  /\ e.observed_blast_set \subseteq plan.blast
           /\ plan.blast \subseteq Dependents(Workloads(plan))
<1>1. True(facts)
  BY DEF KernelInv
<1>2. /\ <<"declared_blast_set">> \in DOMAIN facts /\ <<"observed_blast_set">> \in DOMAIN facts
      /\ \A s \in Workloads(plan) : <<"dependents", s>> \in DOMAIN facts
  BY PassedFormulas DEF RequiredFacts
<1>3. /\ facts[<<"declared_blast_set">>] = plan.blast
      /\ facts[<<"observed_blast_set">>] = e.observed_blast_set
      /\ \A s \in Workloads(plan) : facts[<<"dependents", s>>] = Reachable(s)
  BY <1>1, <1>2 DEF True, Says, SaysOfPlan, SaysOfContext
<1>4. BlastContainment(facts)
  BY PassedFormulas
<1> QED BY <1>3, <1>4 DEF BlastContainment, Dependents

(* A plan that passes is safe for production as it is, for any plans,      *)
(* history and changes meanwhile: what each invariant says of the facts is *)
(* true of whatever has not moved since it was read.                       *)
THEOREM KernelPassIsSafe == Spec => []PassIsSafe
<1>1. KernelInv => PassIsSafe
  BY WorldIsSafe, ScopeIsSafe, RollbackIsSafe, BlastIsSafe DEF PassIsSafe, KernelInv
<1> QED BY KernelInit, KernelNext, <1>1, PTL DEF Spec
===============================================================================
