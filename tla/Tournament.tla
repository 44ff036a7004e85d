----------------------------- MODULE Tournament -----------------------------
(* How a winner comes about: the twins are registered with the mirror, each  *)
(* plan is applied to its twin, each twin is probed until it recovers or its *)
(* time is up, the probes become evidence, the evidence scores, the scores a *)
(* winner.  Time is in poll intervals.  What a twin's metrics show at a tick *)
(* is a level per service; a window of metrics shows the worst of its ticks. *)
EXTENDS Integers, Sequences, SequencesExt, FiniteSetsExt

CONSTANTS
    Candidates,        \* number of plans, and of twins
    Target,            \* the workload each plan mutates, or NoTarget
    NoTarget,
    Services, Gateway, \* declared services, and the one that is probed
    Calls,             \* <<caller, callee>> pairs of dependencies.yaml
    Share,             \* request share of a service, in percent
    Traffic,           \* levels a twin may show under mirrored traffic
    SnapshotAges,      \* how old the snapshot was when the twins got ready
    WarmUp, Streak, Timeout, MinSamples,
    AmbiguityMargin,   \* in basis points
    Horizon            \* bound on the clock

Plans == 0 .. Candidates - 1    \* plan_id and candidate_index
None == -1

\* Levels of p99 and errors: no request at all, within the SLO, slow, and slow with errors.
NoData == 0
Quick == 1
Slow == 2
Failing == 3
Levels == {NoData, Quick, Slow, Failing}

ASSUME TournamentAssumption ==
    /\ Candidates \in Nat /\ {Timeout, Horizon} \subseteq Nat \ {0}
    /\ {WarmUp, Streak, MinSamples, AmbiguityMargin} \subseteq Nat
    /\ Target \in [Plans -> Services \cup {NoTarget}] /\ NoTarget \notin Services
    /\ IsFiniteSet(Services) /\ Gateway \in Services /\ Calls \subseteq Services \X Services
    /\ Share \in [Services -> 0 .. 100]
    /\ Traffic \subseteq Levels /\ SnapshotAges \subseteq Nat

VARIABLES
    now,
    stage,     \* "register", "apply", "observe", "judge", "decided", "failed"
    twin,      \* TwinHandle: ready, forked_from_snapshot_at
    before,    \* what the twin's metrics show of the time up to ready
    current,   \* ... of the present tick
    since,     \* ... of all ticks after ready
    loop,      \* per twin: "idle", "probing", "probed", "done"
    base,      \* per twin: the captured baseline
    probes,    \* per twin: the samples
    recovery,  \* per twin: recovery_seconds, None while not recovered
    evidence,  \* per plan: CandidateEvidence once gathered
    ranking,   \* llm_ranking, <<>> when there is none
    result     \* TournamentResult

vars == <<now, stage, twin, before, current, since, loop, base, probes, recovery,
          evidence, ranking, result>>

-----------------------------------------------------------------------------
(* The dependency graph. *)

Dependents(services) == {c \in Services : \E s \in services : <<c, s>> \in Calls}

\* reachable_set: everything that relies on the service, directly or not.
ReachableSet(service) ==
    LET step[n \in 0 .. Cardinality(Services)] ==
            IF n = 0 THEN Dependents({service})
                     ELSE step[n - 1] \cup Dependents(step[n - 1])
    IN  step[Cardinality(Services)]

Reachable == [p \in Plans |-> IF Target[p] = NoTarget THEN {} ELSE ReachableSet(Target[p])]

\* The services of a twin that reach its plan's score; the others are left out.
Watched(i) == {Gateway} \cup Reachable[i]

\* What metrics show of the services that the blast radius looks at.
Windows(i) == [Reachable[i] -> Levels]

-----------------------------------------------------------------------------
(* Probing: one sample, and the search for a recovery in all of them. *)

TwinAppliedAt(i) == twin[i].ready

SampleOnce(i, fetched) ==
    [at |-> now, healthy |-> fetched /\ current[i][Gateway] = Quick]

\* detect_recovery: the samples in turn; a sample in the warm-up or an unhealthy one breaks
\* the streak, and one after the timeout ends the search.
DetectRecovery_KeepsStreak(samples, appliedAt, forkedAt) ==
    LET Step(found, sample) ==
            IF found.at # None \/ sample.at > appliedAt + Timeout
               \/ sample.at < forkedAt + WarmUp \/ ~sample.healthy THEN found
            ELSE LET start == IF found.run = 0 THEN sample.at ELSE found.start
                 IN  [run |-> found.run + 1, start |-> start,
                      at |-> IF found.run + 1 >= Streak THEN start ELSE None]
        end == FoldLeft(Step, [run |-> 0, start |-> None, at |-> None], samples)
    IN  IF end.at = None THEN None ELSE Max({0, end.at - appliedAt})

DetectRecovery(samples, appliedAt, forkedAt) ==
    LET Step(found, sample) ==
            IF found.at # None \/ sample.at > appliedAt + Timeout THEN found
            ELSE IF sample.at < forkedAt + WarmUp \/ ~sample.healthy
                 THEN [run |-> 0, start |-> None, at |-> None]
            ELSE LET start == IF found.run = 0 THEN sample.at ELSE found.start
                 IN  [run |-> found.run + 1, start |-> start,
                      at |-> IF found.run + 1 >= Streak THEN start ELSE None]
        end == FoldLeft(Step, [run |-> 0, start |-> None, at |-> None], samples)
    IN  IF end.at = None THEN None ELSE Max({0, end.at - appliedAt})

-----------------------------------------------------------------------------
(* Blast radius. *)

ErrorRate(level) == IF level = Failing THEN 100 ELSE 0

\* compute_affected_services: worse than the baseline by more than the threshold, or more
\* than the floor where the baseline is zero; a level is more than any lower one.
Affected(pre, post) == {s \in DOMAIN pre : post[s] > pre[s]}

\* What a window shows of its services when the reads of `unread` failed.
Window(levels, unread) == [s \in DOMAIN levels |-> IF s \in unread THEN NoData ELSE levels[s]]

TotalShare(services) == MapThenSumSet(LAMBDA s : Share[s], services)

\* compute_downstream_error_delta, in percent.
DownstreamErrorDelta(plan, pre, post) ==
    LET reachable == Reachable[plan]
        Weighted(s) == Share[s] * (ErrorRate(post[s]) - ErrorRate(pre[s]))
    IN  IF TotalShare(reachable) = 0 THEN 0
        ELSE MapThenSumSet(Weighted, reachable) \div TotalShare(reachable)

ObservedBlastSet(plan, pre, post) == Reachable[plan] \cap Affected(pre, post)

-----------------------------------------------------------------------------
(* Scores, in basis points; lower is better. *)

Worst == 10000

Clamp(n, low, high) == Min({Max({n, low}), high})

RecoverySubscore(e) ==
    IF e.recovery = None THEN Worst ELSE Clamp((Worst * e.recovery) \div Timeout, 0, Worst)

BlastSubscore(e) == Clamp(100 * TotalShare(e.blast), 0, Worst)

\* DOWNSTREAM_ERROR_CEILING is ten percent.
DownstreamSubscore(e) == Clamp((Worst * e.downstream) \div 10, 0, Worst)

\* Nothing ever records a runtime violation of an invariant; the ceiling is five.
RuntimeViolations(e) == 0
ViolationsSubscore(e) == Min({(Worst * RuntimeViolations(e)) \div 5, Worst})

\* evidence_complete as observe_and_score computes it.
EvidenceComplete(e) == (e.recovery # None \/ e.samples >= MinSamples) /\ ~e.drops

Disqualified_TrustsEvidence(e) == ~EvidenceComplete(e)

\* check_disqualification
Disqualified(e) ==
    RuntimeViolations(e) > 0 \/ ~EvidenceComplete(e) \/ e.drops \/ e.samples < MinSamples

Composite(e) ==
    IF Disqualified(e) THEN Worst
    ELSE (40 * RecoverySubscore(e) + 25 * BlastSubscore(e) + 20 * DownstreamSubscore(e)
          + 15 * ViolationsSubscore(e)) \div 100

\* score_candidates
Scores == [p \in Plans |-> [composite |-> Composite(evidence[p]),
                            disqualified |-> Disqualified(evidence[p])]]

-----------------------------------------------------------------------------
(* The arbiter. *)

\* The order of sorted(viable, key=(composite, plan_id)).
Beats(scores, p, q) ==
    \/ scores[p].composite < scores[q].composite
    \/ scores[p].composite = scores[q].composite /\ p < q

First(scores, plans) == CHOOSE p \in plans : \A q \in plans \ {p} : Beats(scores, p, q)

\* The runner-up is the second viable plan, or the best of the others, or the baseline 1.0.
Margin(scores, viable, top) ==
    LET others == IF viable = {top} THEN Plans \ {top} ELSE viable \ {top}
    IN  IF others = {} THEN Worst - scores[top].composite
        ELSE scores[First(scores, others)].composite - scores[top].composite

Viable(scores) == {p \in Plans : ~scores[p].disqualified}

DeriveWinner(scores) ==
    LET viable == Viable(scores)
        top == First(scores, viable)
    IN  IF viable = {} \/ Margin(scores, viable, top) < AmbiguityMargin THEN None ELSE top

\* arbitrate; the judge's ranking is recorded, and only scores decide.
Arbitrate(scores) ==
    LET winner == DeriveWinner(scores)
    IN  [winner |-> winner,
         outcome |-> IF Viable(scores) = {} THEN "no_viable_candidate"
                     ELSE IF winner = None THEN "ambiguous" ELSE "decided"]

-----------------------------------------------------------------------------
(* The run. *)

NoEvidence == [recovery |-> None, samples |-> 0, blast |-> {}, downstream |-> 0,
               drops |-> FALSE]

NoResult == [outcome |-> "none", winner |-> None]

Nothing(i) == [s \in Reachable[i] |-> NoData]
Silent(i) == [s \in Watched(i) |-> NoData]

\* The twins are ready, each since its own time.  Up to then only its readiness was probed.
Init ==
    /\ now = 1
    /\ stage = "register"
    /\ \E age \in SnapshotAges :
          twin \in [Plans -> {[ready |-> r, snapshot |-> r - age] : r \in {0, 1}}]
    /\ \E level \in [Plans -> {NoData, Quick}] :
          before = [i \in Plans |-> [s \in Reachable[i] |-> level[i]]]
    /\ current = [i \in Plans |-> Silent(i)]
    /\ since = [i \in Plans |-> Nothing(i)]
    /\ loop = [i \in Plans |-> "idle"]
    /\ base = [i \in Plans |-> Nothing(i)]
    /\ probes = [i \in Plans |-> <<>>]
    /\ recovery = [i \in Plans |-> None]
    /\ evidence = [p \in Plans |-> NoEvidence]
    /\ ranking = <<>>
    /\ result = NoResult

TwinsVars == <<twin, before, current, since>>
LoopVars == <<loop, base, probes, recovery, evidence>>

\* register_mirrors
RegisterMirrors ==
    /\ stage = "register"
    /\ stage' = "apply"
    /\ UNCHANGED <<now, TwinsVars, LoopVars, ranking, result>>

\* Reads that may fail, per twin.
Unread == {u \in [Plans -> SUBSET Services] : \A i \in Plans : u[i] \subseteq Reachable[i]}

\* apply_candidates, and the start of observe: all loops capture their baseline, which is
\* the window before the twin was ready, not the one before the plan was applied: what the
\* twin shows of the incident in between counts as the plan's.  A read that fails counts as
\* no data.
ApplyCandidates(unread) ==
    /\ stage = "apply"
    /\ stage' = "observe"
    /\ loop' = [i \in Plans |-> "probing"]
    /\ base' = [i \in Plans |-> Window(before[i], unread[i])]
    /\ UNCHANGED <<now, TwinsVars, probes, recovery, evidence, ranking, result>>

Sampled(i) == probes[i] # <<>> /\ Last(probes[i]).at = now

ProbeOnce_NoTimeout(i, fetched) ==
    LET samples == Append(probes[i], SampleOnce(i, fetched))
        found == IF recovery[i] # None THEN recovery[i]
                 ELSE DetectRecovery(samples, TwinAppliedAt(i), twin[i].snapshot)
        over == found # None /\ Len(samples) >= MinSamples
    IN  /\ stage = "observe"
        /\ loop[i] = "probing"
        /\ ~Sampled(i)
        /\ probes' = [probes EXCEPT ![i] = samples]
        /\ recovery' = [recovery EXCEPT ![i] = found]
        /\ loop' = [loop EXCEPT ![i] = IF over THEN "probed" ELSE "probing"]
        /\ UNCHANGED <<now, stage, TwinsVars, base, evidence, ranking, result>>

\* One turn of the loop of probe_environment, up to its sleep.
ProbeOnce(i, fetched) ==
    LET samples == Append(probes[i], SampleOnce(i, fetched))
        found == IF recovery[i] # None THEN recovery[i]
                 ELSE DetectRecovery(samples, TwinAppliedAt(i), twin[i].snapshot)
        over == \/ now >= TwinAppliedAt(i) + Timeout
                \/ found # None /\ Len(samples) >= MinSamples
    IN  /\ stage = "observe"
        /\ loop[i] = "probing"
        /\ ~Sampled(i)
        /\ probes' = [probes EXCEPT ![i] = samples]
        /\ recovery' = [recovery EXCEPT ![i] = found]
        /\ loop' = [loop EXCEPT ![i] = IF over THEN "probed" ELSE "probing"]
        /\ UNCHANGED <<now, stage, TwinsVars, base, evidence, ranking, result>>

\* capture_post_apply and evaluate_blast
EvaluateEnvironment(i, unread) ==
    LET post == Window(since[i], unread)
    IN  [blast |-> ObservedBlastSet(i, base[i], post),
         downstream |-> DownstreamErrorDelta(i, base[i], post)]

\* evaluate_environment, the mirror's statistics, and the evidence of _rehearse_one.  The
\* twins and the plans are paired by position.  What the loop kept is gone when it returns,
\* and nobody looks at the twin any more.
Gather(i, unread, drops) ==
    LET observed == EvaluateEnvironment(i, unread)
    IN  /\ stage = "observe"
        /\ loop[i] = "probed"
        /\ loop' = [loop EXCEPT ![i] = "done"]
        /\ evidence' = [evidence EXCEPT ![i] =
               [recovery |-> recovery[i], samples |-> Len(probes[i]),
                blast |-> observed.blast, downstream |-> observed.downstream,
                drops |-> drops]]
        /\ base' = [base EXCEPT ![i] = Nothing(i)]
        /\ probes' = [probes EXCEPT ![i] = <<>>]
        /\ recovery' = [recovery EXCEPT ![i] = None]
        /\ current' = [current EXCEPT ![i] = Silent(i)]
        /\ since' = [since EXCEPT ![i] = Nothing(i)]
        /\ UNCHANGED <<now, stage, twin, before, ranking, result>>

\* get_stats fails, and with it the gather and the node.
StatsFail(i) ==
    /\ stage = "observe"
    /\ loop[i] = "probed"
    /\ stage' = "failed"
    /\ UNCHANGED <<now, TwinsVars, LoopVars, ranking, result>>

\* All loops have ended and the scores are computed; the judge is asked.
Score ==
    /\ stage = "observe"
    /\ \A i \in Plans : loop[i] = "done"
    /\ stage' = "judge"
    /\ UNCHANGED <<now, TwinsVars, LoopVars, ranking, result>>

\* parse_judge_response: what is no candidate goes, as does what is named twice, and the
\* candidates it leaves out follow.
ParsedRanking(answer) ==
    LET Add(kept, p) == IF p \in Plans /\ ~Contains(kept, p) THEN Append(kept, p) ELSE kept
    IN  FoldLeft(Add, <<>>, answer \o [n \in 1 .. Candidates |-> n - 1])

\* Answers that differ in what the parser does with them: it names every plan, or only one
\* or none, or a plan twice, or one that does not exist.
Answers == {<<>>} \cup UNION {{<<p>>, <<p, p>>, <<Candidates, p>>} : p \in Plans}

\* The judge's answer is used, or there is no judge, or it failed or took too long; then
\* the scores are arbitrated.
Decide(advice) ==
    /\ stage = "judge"
    /\ stage' = "decided"
    /\ ranking' = advice
    /\ result' = Arbitrate(Scores)
    /\ UNCHANGED <<now, TwinsVars, LoopVars>>

\* A sole candidate is ranked first without a call, which is what any answer comes to.
JudgeAnswers(answer) == Decide(ParsedRanking(answer))
NoJudgement == Decide(<<>>)

\* Time passes, and what the twins' metrics show changes.  The reads of a loop take less
\* than the interval it sleeps.
Tick ==
    /\ stage \in {"register", "apply", "observe"}
    /\ now < Horizon
    /\ \A i \in Plans : loop[i] # "probed" /\ (loop[i] = "probing" => Sampled(i))
    /\ now' = now + 1
    /\ LET shown == IF stage = "register" THEN {NoData, Quick} ELSE Traffic
           levels == [Services -> shown]
       IN  \E showing \in [Plans -> levels] :
              current' = [i \in Plans |-> IF loop[i] = "done" THEN Silent(i)
                                          ELSE [s \in Watched(i) |-> showing[i][s]]]
    /\ since' = [i \in Plans |-> [s \in Reachable[i] |-> Max({since[i][s], current'[i][s]})]]
    /\ UNCHANGED <<stage, twin, before, LoopVars, ranking, result>>

Next ==
    \/ RegisterMirrors \/ Score \/ NoJudgement
    \/ \E unread \in Unread : ApplyCandidates(unread)
    \/ \E answer \in Answers : JudgeAnswers(answer)
    \/ \E i \in Plans :
          \/ \E fetched \in BOOLEAN : ProbeOnce(i, fetched)
          \/ \E unread \in SUBSET Reachable[i], drops \in BOOLEAN : Gather(i, unread, drops)
          \/ StatsFail(i)
    \/ Tick

\* The clock runs, and a read ends, for the clients have timeouts; what hangs is cut by the
\* limit of the observation stage, which ControlLoop models.
Fairness ==
    /\ WF_vars(Tick) /\ WF_vars(Score)
    /\ \A i \in Plans :
          /\ WF_vars(\E fetched \in BOOLEAN : ProbeOnce(i, fetched))
          /\ WF_vars(\E unread \in SUBSET Reachable[i], drops \in BOOLEAN : Gather(i, unread, drops))

Spec == Init /\ [][Next]_vars /\ Fairness
-----------------------------------------------------------------------------
(* Properties. *)

Rankings == {r \in [1 .. Candidates -> Plans] : \A m, n \in 1 .. Candidates : r[m] = r[n] => m = n}

\* Every variable has its type; in particular a recorded ranking names every candidate
\* exactly once, whatever the judge answered (parse_judge_response).
TypeOK ==
    /\ now \in 0 .. Horizon
    /\ stage \in {"register", "apply", "observe", "judge", "decided", "failed"}
    /\ twin \in [Plans -> [ready : Nat, snapshot : Int]]
    /\ \A i \in Plans : /\ {before[i], since[i], base[i]} \subseteq Windows(i)
                        /\ current[i] \in [Watched(i) -> Levels]
    /\ loop \in [Plans -> {"idle", "probing", "probed", "done"}]
    /\ probes \in [Plans -> Seq([at : Nat, healthy : BOOLEAN])]
    /\ recovery \in [Plans -> Nat \cup {None}]
    /\ evidence \in [Plans -> [recovery : Nat \cup {None}, samples : Nat, blast : SUBSET Services,
                               downstream : Int, drops : BOOLEAN]]
    /\ ranking \in Rankings \cup {<<>>}
    /\ result.outcome \in {"none", "no_viable_candidate", "ambiguous", "decided"}
    /\ result.winner \in Plans \cup {None}

\* Evidence good enough to act on: enough samples, and little of the traffic was dropped.
Faithful(e) == e.samples >= MinSamples /\ ~e.drops

\* The plan that beats every faithfully rehearsed rival, and the score of a disqualified
\* plan if there is no such rival, by the margin; the lower number breaks a tie.
Better(p) ==
    /\ Faithful(evidence[p])
    /\ \A q \in Plans \ {p} :
          Faithful(evidence[q]) =>
              /\ Composite(evidence[q]) - Composite(evidence[p]) >= AmbiguityMargin
              /\ Composite(evidence[q]) = Composite(evidence[p]) => p < q
    /\ Worst - Composite(evidence[p]) >= AmbiguityMargin

\* The winner is the one plan that is better than the others on faithful evidence, and there
\* is none when no plan is, whatever the judge said or left unsaid (ADR-017, ADR-018).
WinnerIsBest ==
    TypeOK /\ (stage = "decided" =>
        /\ \A p \in Plans : result.winner = p <=> Better(p)
        /\ result.outcome = "no_viable_candidate" <=> \A p \in Plans : ~Faithful(evidence[p]))

\* A streak of healthy samples of one twin, after the warm-up and before the timeout; it has
\* at least one.
StreakFrom(i, n) ==
    LET last == Max({n, n + Streak - 1})
    IN  /\ last \in DOMAIN probes[i]
        /\ probes[i][n].at >= twin[i].snapshot + WarmUp
        /\ \A m \in n .. last :
              probes[i][m].healthy /\ probes[i][m].at <= TwinAppliedAt(i) + Timeout

\* A twin counts as recovered exactly if its samples hold a streak, and its recovery time is
\* the start of the first one, however the samples came in (detect_recovery, run again on
\* every sample by probe_environment).
RecoveryIsFirstStreak ==
    \A i \in Plans : loop[i] \in {"probing", "probed"} =>
        LET starts == {n \in DOMAIN probes[i] : StreakFrom(i, n)}
        IN  recovery[i] = IF starts = {} THEN None
                          ELSE Max({0, probes[i][Min(starts)].at - TwinAppliedAt(i)})

\* Every observation ends, recovered or not (probe_environment stops at the timeout).
ObservationEnds == stage = "observe" ~> stage \in {"judge", "decided", "failed"}

=============================================================================
