----------------------------- MODULE SingleWriter -----------------------------
(***************************************************************************)
(* Several incidents that share production and the append-only runs table. *)
(* What keeps them apart is the kernel: K5 (single writer) and K7 (mutation*)
(* budget) are checked against rows that the others inserted, and K10      *)
(* bounds the age of the verdict.  The check and the claim it allows are   *)
(* separate calls, with awaits, a crash or another incident between them.  *)
(*                                                                         *)
(* One incident is a run of the control loop seen from the store: it reads *)
(* facts, is verified, authorised, inserts its pre-actuation row, patches  *)
(* production and inserts its final row; it may fail at any await, be      *)
(* abandoned with a patch in flight, or die and be run again.              *)
(***************************************************************************)
EXTENDS Naturals, FiniteSets

CONSTANTS
    Incidents,  \* incidents that are being handled, each with one winning plan
    Resources,  \* Deployments and ConfigMaps a plan may target
    Targets,    \* the target resources of each incident's plan
    Budget,     \* slo.yaml mutation_budget
    Window,     \* slo.yaml mutation_window_minutes
    MaxAge,     \* k10_max_age_seconds
    MaxTime     \* bound on the clock

ASSUME ParametersAssumption ==
    /\ IsFiniteSet(Incidents)
    /\ Targets \in [Incidents -> SUBSET Resources]
    /\ Budget \in Nat /\ Window \in Nat /\ MaxTime \in Nat
    /\ MaxAge \in Nat \ {0}

VARIABLES
    now,        \* the clock
    pc,         \* how far each run is
    startedAt,  \* State.started_at
    facts,      \* the store facts of each run's kernel verification
    evaluatedAt,\* KernelVerdict.evaluated_at
    checkedAt,  \* when apply_to_production checked K10
    preRow,     \* the row run_<incident>_pre_actuation
    finalRow,   \* the row run_<incident>
    patch,      \* the plan's patch: none, inflight, landed
    attempts    \* history: how often a patch was sent

vars == <<now, pc, startedAt, facts, evaluatedAt, checkedAt, preRow, finalRow,
          patch, attempts>>

runVars   == <<startedAt, facts, evaluatedAt, checkedAt>>
storeVars == <<preRow, finalRow>>
prodVars  == <<patch, attempts>>

Times == 0 .. MaxTime

(* A row of the table as list_runs returns it.                             *)
RowKeys == {"pre", "final"} \X Incidents

(* The facts of K5 and K7 and, as history, whose claims the table held when*)
(* either was read.                                                        *)
Facts == [at : Times, active : SUBSET Incidents, counted : SUBSET RowKeys,
          k5Table : SUBSET Incidents, k7Table : SUBSET Incidents]
NoFacts == [at |-> 0, active |-> {}, counted |-> {}, k5Table |-> {}, k7Table |-> {}]

(* A pre-actuation row carries the verdict, hence what it was reached on.  *)
PreRows == [at : Times, facts : Facts]
NoRow   == [none |-> TRUE]

Stages == {"idle", "planned", "reading", "facts", "verified", "authorised",
           "claimed", "applying", "settled", "closing", "ended", "crashed"}

Init ==
    /\ now = 0
    /\ pc = [i \in Incidents |-> "idle"]
    /\ startedAt = [i \in Incidents |-> 0]
    /\ facts = [i \in Incidents |-> NoFacts]
    /\ evaluatedAt = [i \in Incidents |-> 0]
    /\ checkedAt = [i \in Incidents |-> 0]
    /\ preRow = [i \in Incidents |-> NoRow]
    /\ finalRow = [i \in Incidents |-> "none"]
    /\ patch = [i \in Incidents |-> "none"]
    /\ attempts = [i \in Incidents |-> 0]

(* What a run keeps in memory dies with it.                                *)
Forget(i) ==
    /\ facts' = [facts EXCEPT ![i] = NoFacts]
    /\ evaluatedAt' = [evaluatedAt EXCEPT ![i] = 0]
    /\ checkedAt' = [checkedAt EXCEPT ![i] = 0]

Step(i, from, to) == pc[i] = from /\ pc' = [pc EXCEPT ![i] = to]

(***************************************************************************)
(* What the store answers.                                                 *)
(***************************************************************************)
(* Mutant: only rows of runs are listed, not pre-actuation rows.           *)
ActiveRuns_NoClaims == {}

Claims == {i \in Incidents : preRow[i] # NoRow}

(* get_active_runs: unfinished rows, save the pre-actuation rows of        *)
(* incidents that have a finished row.                                     *)
ActiveRuns == {i \in Claims : finalRow[i] = "none"}

(* list_runs, filtered: rows that name an applied plan.  A pre-actuation   *)
(* row starts when it was authorised, a final row when the incident did.   *)
MutationsSince(start) ==
    {<<"pre", i>> : i \in {j \in Claims : preRow[j].at >= start}}
    \cup
    {<<"final", i>> : i \in {j \in Incidents : finalRow[j] = "applied"
                                               /\ startedAt[j] >= start}}

WindowStart(t) == IF t >= Window THEN t - Window ELSE 0

(***************************************************************************)
(* The run of one incident.                                                *)
(***************************************************************************)
StartRun(i) ==
    /\ Step(i, "idle", "planned")
    /\ startedAt' = [startedAt EXCEPT ![i] = now]
    /\ UNCHANGED <<now, facts, evaluatedAt, checkedAt, storeVars, prodVars>>

(* extract_store_facts: two reads of the store, each of its own moment.    *)
ReadActiveRuns(i) ==
    /\ Step(i, "planned", "reading")
    /\ facts' = [facts EXCEPT ![i] =
                    [NoFacts EXCEPT !.at = now, !.active = ActiveRuns \ {i},
                                    !.k5Table = Claims]]
    /\ UNCHANGED <<now, startedAt, evaluatedAt, checkedAt, storeVars, prodVars>>

CountMutations(i) ==
    /\ Step(i, "reading", "facts")
    /\ facts' = [facts EXCEPT ![i].counted = MutationsSince(WindowStart(facts[i].at)),
                              ![i].k7Table = Claims]
    /\ UNCHANGED <<now, startedAt, evaluatedAt, checkedAt, storeVars, prodVars>>

InFlightTargets(f) == UNION {Targets[j] : j \in f.active}

(* Mutant: the plan's own targets, not its own incident, are left out.     *)
K5SingleWriter_OwnTargetsIgnored(i) ==
    Targets[i] \cap (InFlightTargets(facts[i]) \ Targets[i]) = {}

K5SingleWriter(i) == Targets[i] \cap InFlightTargets(facts[i]) = {}

(* Mutant: the mutation to come is not counted.                            *)
K7MutationBudget_OffByOne(i) == Cardinality(facts[i].counted) <= Budget

K7MutationBudget(i) == Cardinality(facts[i].counted) + 1 <= Budget

Verify(i) ==
    /\ K5SingleWriter(i) /\ K7MutationBudget(i)
    /\ Step(i, "facts", "verified")
    /\ evaluatedAt' = [evaluatedAt EXCEPT ![i] = now]
    /\ UNCHANGED <<now, startedAt, facts, checkedAt, storeVars, prodVars>>

(* assert_k10_authorisation, with the time it is given.                    *)
Authorise(i) ==
    /\ now - evaluatedAt[i] < MaxAge
    /\ Step(i, "verified", "authorised")
    /\ checkedAt' = [checkedAt EXCEPT ![i] = now]
    /\ UNCHANGED <<now, startedAt, facts, evaluatedAt, storeVars, prodVars>>

(* Mutant: a pre-actuation row of the same name is overwritten.            *)
InsertPreActuation_Overwrites(i) ==
    /\ Step(i, "authorised", "claimed")
    /\ preRow' = [preRow EXCEPT ![i] = [at |-> checkedAt[i], facts |-> facts[i]]]
    /\ UNCHANGED <<now, finalRow, runVars, prodVars>>

(* After the baseline probe; the insert may commit and its answer be lost. *)
InsertPreActuation(i) ==
    /\ preRow[i] = NoRow
    /\ preRow' = [preRow EXCEPT ![i] = [at |-> checkedAt[i], facts |-> facts[i]]]
    /\ \/ Step(i, "authorised", "claimed") /\ UNCHANGED runVars
       \/ Step(i, "authorised", "closing") /\ Forget(i) /\ UNCHANGED startedAt
    /\ UNCHANGED <<now, finalRow, prodVars>>

(* A plan whose resource is already as wanted sends no patch.              *)
SendPatch(i) ==
    /\ Step(i, "claimed", "applying")
    /\ \/ /\ patch' = [patch EXCEPT ![i] = "inflight"]
          /\ attempts' = [attempts EXCEPT ![i] = @ + 1]
       \/ UNCHANGED <<patch, attempts>>
    /\ UNCHANGED <<now, runVars, storeVars>>

(* The patch lands, or never will, whether or not its run is still there.  *)
Land(i) ==
    /\ patch[i] = "inflight"
    /\ \E end \in {"landed", "none"} : patch' = [patch EXCEPT ![i] = end]
    /\ UNCHANGED <<now, pc, attempts, runVars, storeVars>>

(* The patch has answered and production has been probed.                  *)
Settle(i) ==
    /\ patch[i] # "inflight"
    /\ Step(i, "applying", "settled")
    /\ UNCHANGED <<now, runVars, storeVars, prodVars>>

(* A veto, an exception, a timeout or the watchdog takes the run, from any *)
(* await, to the record it writes of its failure.                          *)
Unwind(i) ==
    /\ pc[i] \notin {"idle", "closing", "ended", "crashed"}
    /\ pc' = [pc EXCEPT ![i] = "closing"]
    /\ Forget(i)
    /\ UNCHANGED <<now, startedAt, storeVars, prodVars>>

(* RunStore.record_run of the final row, refused if there is one already.  *)
InsertFinal(i) ==
    /\ finalRow[i] = "none"
    /\ \/ /\ Step(i, "settled", "ended")
          /\ finalRow' = [finalRow EXCEPT ![i] = "applied"]
       \/ /\ Step(i, "closing", "ended")
          /\ finalRow' = [finalRow EXCEPT ![i] = "unapplied"]
    /\ Forget(i)
    /\ UNCHANGED <<now, startedAt, preRow, prodVars>>

(* The run ends without a row: no context, a failed page, a failed store.  *)
EndUnrecorded(i) ==
    /\ Step(i, "closing", "ended")
    /\ UNCHANGED <<now, runVars, storeVars, prodVars>>

Crash(i) ==
    /\ pc[i] \notin {"idle", "ended", "crashed"}
    /\ pc' = [pc EXCEPT ![i] = "crashed"]
    /\ Forget(i)
    /\ UNCHANGED <<now, startedAt, storeVars, prodVars>>

(* The alert of a dead run is handled again; started_at is taken from its  *)
(* checkpoint if there is one.                                             *)
Rerun(i) ==
    /\ Step(i, "crashed", "planned")
    /\ \/ UNCHANGED startedAt
       \/ startedAt' = [startedAt EXCEPT ![i] = now]
    /\ UNCHANGED <<now, facts, evaluatedAt, checkedAt, storeVars, prodVars>>

Tick ==
    /\ now < MaxTime
    /\ now' = now + 1
    /\ UNCHANGED <<pc, runVars, storeVars, prodVars>>

Ended ==
    /\ now = MaxTime
    /\ \A i \in Incidents : pc[i] \in {"ended", "crashed"} /\ patch[i] # "inflight"
    /\ UNCHANGED vars

Next ==
    \/ \E i \in Incidents :
          \/ StartRun(i) \/ ReadActiveRuns(i) \/ CountMutations(i) \/ Verify(i)
          \/ Authorise(i) \/ InsertPreActuation(i) \/ SendPatch(i) \/ Land(i)
          \/ Settle(i) \/ Unwind(i) \/ InsertFinal(i) \/ EndUnrecorded(i)
          \/ Crash(i) \/ Rerun(i)
    \/ Tick
    \/ Ended

Spec == Init /\ [][Next]_vars

(***************************************************************************)
(* Properties                                                              *)
(***************************************************************************)
TypeOK ==
    /\ now \in Times
    /\ pc \in [Incidents -> Stages]
    /\ startedAt \in [Incidents -> Times]
    /\ facts \in [Incidents -> Facts]
    /\ evaluatedAt \in [Incidents -> Times] /\ checkedAt \in [Incidents -> Times]
    /\ preRow \in [Incidents -> PreRows \cup {NoRow}]
    /\ finalRow \in [Incidents -> {"none", "applied", "unapplied"}]
    /\ patch \in [Incidents -> {"none", "inflight", "landed"}]
    /\ attempts \in [Incidents -> Nat]

(* An incident changes production at most once, although its run may die   *)
(* between any two calls and be run again: the append-only table refuses a *)
(* second claim, and no patch is sent without one.                         *)
MutatesOnce == \A i \in Incidents : attempts[i] <= 1

(* As long as a run is at work on production the other incidents' kernels  *)
(* are shown its targets by get_active_runs.                               *)
ClaimVisible ==
    \A i \in Incidents :
        pc[i] \in {"claimed", "applying", "settled"} => i \in ActiveRuns

(* Two patches to one resource are in flight together only if each kernel  *)
(* had read the active runs before the other claim was inserted, or if one *)
(* of the runs wrote its final row with its own patch still in flight.     *)
OverlapNeedsRace ==
    \A i, j \in Incidents :
        /\ i # j /\ patch[i] = "inflight" /\ patch[j] = "inflight"
        /\ Targets[i] \cap Targets[j] # {}
        => \/ i \notin preRow[j].facts.k5Table /\ j \notin preRow[i].facts.k5Table
           \/ finalRow[i] # "none" \/ finalRow[j] # "none"

(* Incidents that sent a patch on an authorisation of [t, t + Window].     *)
AuthorisedIn(t) ==
    {i \in Incidents : attempts[i] > 0 /\ preRow[i].at \in t .. (t + Window)}

(* The budget of a window is exceeded only by incidents two of which had   *)
(* both counted the mutations before the claim of the other was inserted.  *)
OverBudgetNeedsRace ==
    TypeOK /\ \A t \in Times :
        Cardinality(AuthorisedIn(t)) > Budget =>
            \E i, j \in AuthorisedIn(t) :
                /\ i # j
                /\ i \notin preRow[j].facts.k7Table
                /\ j \notin preRow[i].facts.k7Table

(***************************************************************************)
(* What the documents say, and the code does not do.                       *)
(***************************************************************************)
(* docs/03-invariants.md, K5: "No two plans may hold overlapping target    *)
(* resources concurrently".                                                *)
SingleWriterHolds ==
    \A i, j \in Incidents :
        i # j /\ patch[i] = "inflight" /\ patch[j] = "inflight"
            => Targets[i] \cap Targets[j] = {}

=============================================================================
