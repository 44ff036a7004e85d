# A TLA+ model of Understudy

Understudy is an on-call agent. An alert starts an *incident*: a LangGraph control loop
gathers context, plans candidate remediations, forks a *twin* of the cluster for each,
mirrors production traffic to the twins, applies each candidate to its twin, and holds a
tournament. A *safety kernel* (ten invariants, of which eight are put to Z3) then decides
whether the winner may be applied to production. Whatever does not end in a verified
recovery must end at a human.

This directory holds TLA+ modules translated from the Python sources, TLC configurations
that check them on small instances, and TLAPS proofs of properties for every instance.
Paths below are relative to `src/understudy/` unless they start with `services/`, `docs/`
or `tests/`.

## 1. Inventory

| Component | State it keeps | Operations | Correct when |
|---|---|---|---|
| `orchestrator/graph.py`, `nodes/`, `state.py`, `cleanup.py` | graph state merged by reducers (append-only lists, latches, last-writer fields), current node | fifteen nodes, four routers, error edge, `run_incident` | every run ends with a true row or a page; production is touched only on a passed verdict; nothing registered is forgotten |
| `orchestrator/timeouts.py` | `StateTracker.current_state`, the watchdog task | node timeouts, watchdog, emergency cleanup, page and record | a node that hangs ends in an escalation, not in silence |
| `orchestrator/checkpoint.py` | checkpoints and pending writes per thread | put, put_writes, get, list | a resumed run continues where the last one was |
| `signals/pagerduty.py` | a queue in memory | verify, parse, accept an alert | one run per alert, and an alert that comes again does no harm |
| `planner/` | none | ask, validate, normalise, repair, invert | a plan names what exists, and its inverse undoes it |
| `playbook/` | the `playbooks` table: counters, evidence | retrieve, confirm, learn, credit, blame, seed, write by hand | the counters tell what happened, nothing learned is lost |
| `fleet/controller.py`, `render.py`, `k8s.py` | none; in the cluster: namespaces with their objects | read production, render, apply, confirm the policy, wait | a twin is what production runs, is contained (K6) and is ready when it is handed out |
| `fleet/controller.py`, `teardown.py` | `_ACTIVE_INCIDENTS`, signal handlers | fork, rollback, teardown, gc, exit handlers | no live twin is taken away, no twin is forgotten |
| `fleet/database.py` | `_last_snapshot_time`; `snapshot_template`, twin databases with a COMMENT stamp | refresh (dump, restore, swap by rename), clone, drop, list with age | a clone is fresh and whole |
| `services/mirror_gateway` | bounded queue, worker and counters per twin | register, dispatch, deliver, unregister, stats | production is never delayed; the counters account for every request |
| `mirror/` | none | register, unregister, fidelity report | a twin reported OK got what production got |
| `tournament/` | samples, baselines | observe, score, judge, arbitrate | a winner is the best viable candidate by the margin, on evidence that is true |
| `kernel/` | none (facts, constraints, verdict are values) | fact extraction, K1 to K9, `verify` | a PASS implies every invariant of the facts, and the facts are true of production |
| `actuator/production.py` | `last_prod_outcome` | K10 check, kill switch, baseline, pre-actuation row, apply, probe | no patch without a fresh PASS for that very plan and a durable row |
| `actuator/apply.py` | annotations on Deployments and ConfigMaps | six action handlers and their inverses | idempotent, nothing lost, and the inverse restores |
| `store/postgres.py` | append-only `runs`, evaluations | `record_run`, `get_active_runs`, `claim_run` (never called), `list_runs` | one row per run id; queries see what K5 and K7 need |
| `notify/` | none | page, message | a page that returned was sent |
| `common/`, `contracts/`, `graph/` | configuration, clock, dependency graph | | |

How they interact: the loop awaits every other component through `Deps`. Kubernetes calls
run in threads (`asyncio.to_thread`) and psql in subprocesses, so cancelling a node does not
cancel what it asked for. The watchdog runs beside the graph task and cancels it at any
await. Several incidents share production, the runs and playbooks tables, the actuator
object, twin-postgres and the mirror gateway. `ust fleet gc` is another process. An agent
may be killed and an alert may be handled again.

The hard behaviours, and so the targets of the properties: the check of K5 and K7 is far
from the claim it allows; a timeout may strike between any two effects of a node; a late
call lands after its cleanup; the append-only row is written before the last thing that can
fail; the error edge can itself fail; gc knows nothing of the process that forks; whatever
is read in several calls (facts, workloads, counters, a Deployment before its patch) is of
several moments. The full list, line by line, is under `hazards` in `PROJECT.json`, with the
properties that cover each.

## 2. Plan

Each module is parameterised by CONSTANTS with a named assumption, has one action per
operation, and declares nothing RECURSIVE. All of these are done:

1. `ControlLoop`, with `IncidentContract` as its abstract specification.
2. `SingleWriter`: several incidents, production and the runs table.
3. `FleetLifecycle`: forks, teardown, exit handlers and gc over several incidents.
4. `MirrorGateway`, with `ShadowTraffic` as its abstract specification, and `MirrorRegistry`,
   which composes it with the client and the fidelity report.
5. `SnapshotClone`: the refresher and the clones.
6. `Planner` and `PlanApplier`: the ballot, the handlers, and what their patches add up to.
7. `SafetyKernel`: facts, invariants and the verdict.
8. `Tournament`: probing, blast radius, scores and the winner.
9. `PlaybookLibrary`: retrieval, learning and the counters, with crashes.
10. `TwinSnapshot` and `TwinFork`: one twin from production's manifests to its handle.
11. `Reopened`: `ControlLoop` composed with the webhook, crashes and second runs.

Every safety and action property of the passing runs has a theorem, and both refinements
have; what is left to the runs alone is liveness. Section 5 says what is proved, section 6 what
is not modelled and why.

## 3. The modules

### `ControlLoop` and `IncidentContract`

One incident. `st` is the merged graph state; `tracked` is what `StateTracker` snapshots
when a node is entered; `node` and `step` say where the graph task is. A step ends at an
awaited call, so that the watchdog (`wd`) can strike between any two effects of a node. A
node ends with `Return`, which merges its updates, or `Raise`, which loses them and sets
`errors` (`_make_node_runner`). `Route` is the superstep boundary: it picks the next node by
the routers of `graph.py` and lets the tracker snapshot the state.

`mirrors`, `cluster`, `pending`, `prod`, `claim`, `row`, `pages` and `playbook` are what the
nodes change outside: registered twins, existing twins, creations that run in threads,
production, the pre-actuation row, the final row, pages to on-call, and the playbook
library. `CreateTwin` and `AbandonedPatch` are the threads that outlive a cancelled node.
`EmergencyCleanup`, `EmergencyPage` and `EmergencyRecord` are `execute_emergency_escalation`,
which swallows its failures; `ReturnResult` is the end of `run_incident`.

Abstracted: a twin is named by the plan it rehearses; tournaments and verdicts are their
results (`Tournament` and `SafetyKernel` model how they come about); what only fills text is
left out. K10 is `Authorised`: verdict PASS, for this plan, which is one of the run's.
`failed` is a history of which kinds of calls failed, and properties use it to say who may
be blamed.

`IncidentContract` is the promise without nodes, twins and timers: production is touched
only after a claim, never after the final row; one final row, EXECUTED only of the claimed
plan with nothing in flight, anything else only after on-call was called; no silent end.
`KeepsContract` is the refinement.

### `Reopened`

`ControlLoop` within the life of an alert that comes more than once. `HandleWebhook` accepts
a payload of up to two messages when one of the signatures of its header matches (the first
trigger of a batch counts), `InjectAlert` any alert; both only put an incident in a queue in
memory. `RunIncident` starts a run with a fresh state, since the production wiring passes no
checkpoint store, amid the rows, twins, mirrors and changes of production that earlier runs
left. `Crash` takes the queue, the run and its watchdog at any step. All other steps are
those of `ControlLoop`. A run starts when the threads of a timed out run have ended.

### `SingleWriter`

Several incidents over one table, each a run of the control loop as the store sees it
(`pc`). The facts of K5 and K7 are read in two calls (`ReadActiveRuns`, `CountMutations`),
checked by `Verify`, the verdict's age by `Authorise`, and only `InsertPreActuation` makes
the claim visible to others. `SendPatch` and `Land` are the thread that patches production;
`Settle` the probe; `Unwind` every way out that leaves the graph; `InsertFinal` the final
row. `Crash` drops what is in memory and `Rerun` handles the alert again, with the
`started_at` that a checkpoint would restore. `now` is a clock in units of the K7 window.
The rows keep the facts their verdict rests on, as the code's rows keep the verdict.

### `FleetLifecycle`

Several incidents, one agent process, one gc process. `run` is what the agent does for an
incident (forking, live, rolling back, closing), `fork` and `call` how far each twin's
creation is, and `ns` and `db` what exists, with its age. A call that nobody awaits any more
still lands (`CloneLands`, `NamespaceLands`). `DeleteNamespaces`, `DropDatabases` and
`TeardownFails` are `teardown_incident`, from the rollback or the loop's cleanup;
`HandlerGivesUp` is what the exit handlers make of a failure. `DropDatabases` matches names
by prefix, which `Covered` stands for. `Exit`, `Gone`, `Kill` and `Restart` are the agent
process; its `active` set dies with it. `GcList` to `GcEnds` are `gc`, in the only process
that calls it, where no incident is active.

The clock is relative: `Tick` makes everything older, up to `OlderThan`, after which ages
do not differ. It does not pass the watchdog's `Limit` while a run works, nor a call that
nobody awaits, nor while a clone is being made (call timeouts are seconds, the unit a
fraction of an hour).

Abstracted: a namespace stands for everything applied in it (`TwinFork` has it piece by
piece); a namespace being terminated counts as gone. `Clone` models what psql does with two
`-c` commands and no `ON_ERROR_STOP`: it exits with the status of the second. `SIGTERM` and
`atexit` each try once; the model lets a handler try again any number of times.
`teardown_twin` (called by nothing) and twins made by `ust fleet fork`, which the operator
tears down, are left out.

### `TwinSnapshot` and `TwinFork`

One twin. `TwinSnapshot` is production while it is read: a Deployment that may be rolled out
to a second revision and scaled, to nothing too, its replica sets and pods, and the three
lists of `read_workloads`, each taken by a thread of its own in any order. `Trusted` is how
the running pods of the current replica set pin the image digest. `Forked` and `Wanted` are
what the twin will run: no database, and as many replicas as the Deployment asked for, of
which the model tells none from some. `TwinFork` renders (`EnvAddress` and its helpers
are what becomes of an address in the environment of a container), applies the `Manifests`
one by one in a namespace that may be new, left over or deleted under it, confirms the
policy, and polls the deployments and the pods in two lists, unless there is no deployment
to wait for (`NothingExpected`). `PodStarts` to `Deleted` are
the cluster and other teardowns. `served` and `steady` are histories.

### `SnapshotClone`

The refresh pipeline, command by command, in the pod of twin-postgres: the refresher only
awaits it, and a pipeline that timed out runs on beside its successor with the same staging
name and dump file. Contents are missing, empty, torn or whole, of a version of production.
The cloner looks for the template, creates the database with retries while the template is
in use, stamps it, and may be given up at any point; `DropTwinDatabase` is the teardown.

### `MirrorGateway`, `ShadowTraffic` and `MirrorRegistry`

The event loop of the gateway. `twins` holds a registration per twin: queue, worker and the
two counters. A request is a number, since only its identity matters. `DispatchToTwins` is
`proxy_request` up to its first await, so that production never waits for a twin;
`Send`, `Deliver`, `Fail` and `Die` are `_drain_worker`, `Die` its end by an exception that
it does not catch (`core.py:245`); the registration then stays with a worker that is done.
`wire` and `copies` are the network and the twin: what was sent may arrive late, or never,
whatever became of the worker. `RegisterTwin` and `UnregisterTwin` come at any time, for
that is when the orchestrator calls; `Close` is the end of the process.

`MirrorRegistry` adds the histogram of paths, a restart, and `get_fidelity_reports`: the
counters of all twins, those of production and the paths of each twin are answers of
different moments, of which any but the first may be missing. `Fidelity` is
`evaluate_twin_fidelity` in whole numbers. Left out: the URL and headers that a worker
builds, and the Prometheus metrics.

`ShadowTraffic` has only what was mirrored and what was received: a twin receives a request
at most once, and only one that was mirrored to it. `ShadowsProduction` is the refinement,
the identity on both variables.

### `Tournament`

From the registration of the mirrors to the winner. What the metrics of a twin show in a
poll interval is a level per service (no data, quick, slow, failing), a window shows the
worst of its ticks. `ProbeOnce` is one turn of `probe_environment` with `DetectRecovery` run
over all samples again; `Gather` the rest of `_rehearse_one`: blast set, downstream errors,
drops. `Scores` are in basis points, `Worst` that of a disqualified plan, and the lower
number breaks a tie; a `Streak` of 0 is like one of 1, since the loop looks at a streak only
at a healthy sample; `ParsedRanking` is what the parser makes of any answer of the judge;
`Arbitrate` decides by scores alone. `before` is the window that ends when the twin is ready,
`base` what was read of it, and `since` the window from then on: `Affected` compares the last
two, as the code does, and so counts what the traffic and the incident do as well (see *Also
observed*).

### `SafetyKernel`

The facts are extracted source by source (`Extract`), while other incidents start, finish
and scale (`Change`), and any source may be missing. Then each invariant of the proof tier
is asked in turn: facts it asks for that are missing leave it undecided, and otherwise the
solver discharges it, refutes it or gives up, or the whole time is up. The formulas of K1 to
K9 are those of `kernel/invariants/`; K6 is the fork's (`TwinFork`), K10 the actuator's
(`SingleWriter`, `ControlLoop`). `moved` records which facts changed after they were read.

### `Planner` and `PlanApplier`

`Planner` is pure: what the LLM proposes is refused if it breaks the schema, completed
against the cluster and the deploy history, given its inverse, and numbered; a playbook may
join the ballot. `PlanApplier` lets several incidents plan (with retries), rehearse in twins
and patch production. The handlers read, find nothing to do or refuse, and patch; between
the read and the patch other incidents patch, and a call that was given up may still land
(`late`). `AlreadyApplied` has the annotation slot that `scale` and `restart` go by. A flag
is "true", "false" or neither, which is any other text or no such key at all: nobody
compares the name that the LLM proposes with the cluster's keys, and the handler writes one
of the two in either case. `Survivors` is the loop of `normalise_plans` that drops what
cannot be normalised. `ApplierAssumption` says what is constant there: a commit is deployed
once and the first deploy has every workload, the flags are in one of these states, the
LLM's answers have the types of the schema (whatever they name), and a playbook is a plan
with the inverse it was learned with. `mixed` is a history: a patch landed while another
incident had read the workload. The rollback of a playbook has the inverse of the deploys of
its own time, so `InverseRestores` speaks of the planner's. It also excepts a flag that was
neither before the plan wrote it: the inverse sets it to "true". A ConfigMap that is missing
fails the plan, like any error of the API.

### `PlaybookLibrary`

Incidents in several processes over one table. Retrieval is whatever the search may return,
and what the confirming model may answer. The search is approximate (an HNSW index,
`migrations/versions/0001_initial_store_schema.py:65-68`), so that `Nearest` is any few
playbooks, and their vectors are left out. `Merge` puts the playbook on the ballot.
`RecordRow`, `LookUp`, `Embed`, `Save`, `Credit` and `Blame` are `record_run` and
`write_playbook`, each a transaction or a call of its own, with a `Crash` between any two.
`Seed` loads the seed file, again if the operator likes, and `PlaybookWrite` is `ust playbook
write`: it enters `write_playbook` without a row of its own, for any plan and any run id. Its
dying is its never taking another step, since nothing starts it again.

## 4. Runs

Each property of a passing run has a mutant of a mapped definition that violates it.

| Run | Instance | Properties | Shows |
|---|---|---|---|
| `control_loop` | two plans, one of them a playbook's | `TypeOK`, `MutationClaimed`, `MirrorsTracked`, `RecordSound`, `PagingSound`, `OnlyFailedCleanupLeaks`, `KeepsContract`, `HungNodeEscalates` | the rows, pages, mirrors and twins are what they claim in every interleaving of nodes, failures, late calls and the watchdog; the loop implements the contract; a node that hangs, but for one that waits for the store, is cancelled, cleaned up after and paged for |
| `reopened` | one plan, two alerts, crashes anywhere | `UnrecordedChangesCalled`, `NoSilentRun`, `OnlyInheritedLeaks` | no run is silent and no change of production is left to a row that does not name it, across runs of one incident id |
| `single_writer` | two incidents, one Deployment, budget 1, clock to 2 | `MutatesOnce`, `ClaimVisible`, `OverlapNeedsRace`, `OverBudgetNeedsRace` | at most one patch per incident; a run at work is visible; overlaps and overruns happen only through a race between check and claim, or a final row written early |
| `fleet_lifecycle` | two incidents, one a name prefix of the other and handled twice, one twin each, retention 2, limit 1 | `TwinsIntact`, `OnlyLateTwinsForgotten` | gc and other teardowns take no twin of a working run; what a run leaves is still active or was made too late |
| `twin_fork` | one workload or database, two revisions, replicas or none, two repeated polls | `SnapshotOfTheSpec`, `Contained`, `ServedIfWanted`, `ForkEnds` | the twin gets the image of the spec, reaches neither production nor the internet, is not called ready before it served if it has replicas and a namespace of its own, and the fork ends |
| `snapshot_clone` | two pipelines, one twin cloned twice, two versions | `WholeUnlessOverlap`, `FreshAsRecorded` | a clone is whole unless pipelines overlapped, and no older than the recorded snapshot |
| `mirror_gateway` | two twins, queues of one, two requests with a path each, one twin compared | `TypeOK`, `EachAccountedFor`, `OkMeansShadowed`, `ShadowsProduction`, `QueuesDrain` | the counters account for every request, a twin sees a request at most once, a twin reported OK was shadowed, queues drain |
| `tournament` | two plans, one on a workload the gateway relies on, one that does nothing; streak 2, timeout 4 | `WinnerIsBest`, `RecoveryIsFirstStreak`, `ObservationEnds` | what counts as recovered, who wins, and that it ends |
| `safety_kernel` | two services, four deploys, plans of every kind, two changes meanwhile | `PassIsProved`, `PassIsSafe` | PASS means that every invariant was decided and holds of the facts, and of production where nothing moved |
| `plan_applier` | two incidents, two commits, four answers, one playbook, flags that are set, cleared or not there | `ReplicasAddUp`, `SkipNeedsIdReuse`, `InverseRestores` | patches add up, a plan is skipped only by a reused identifier, the inverse restores all but a flag that was not there |
| `playbook_library` | two incidents, one write by hand, two signatures, two plans, one seed loaded twice, one crash | `CountedOnce`, `DuplicateNeedsRace`, `NothingForgotten` | counters tell what happened, duplicates come from a race, nothing learned is lost |
| `single_writer_holds` | as `single_writer` | `SingleWriterHolds` | K5 does not hold concurrently: check and claim are not atomic (violated) |

The last run checks one sentence of the repository which the code does not keep:
`docs/03-invariants.md:148-153` says that no two plans hold overlapping targets concurrently
and that check and claim are atomic, but the check is made in the kernel node and
`claim_run`, which would be atomic, is called by nobody. The trace is the evidence;
`OverlapNeedsRace` says what holds *instead*.

### Also observed

Met while modelling, seen in the models or excused by a property, and not given a run:

- *Paging.* The watchdog pages again after `escalate_pagerduty` did (`timeouts.py:152`
  against `nodes/handle_failure.py:30`; `PagingSound` excuses it). PagerDuty's 404 counts as
  a page, and the id of a synthetic alert is never one of PagerDuty's. A note that was added
  before the urgency failed is added again by the error edge. The text of a page says
  "Production Status: UNTOUCHED (actuation halted)" (`notify/pagerduty.py:123`), and the
  runner "no production change" (`runner.py:297`), also of runs that changed production.
- *Records.* A playbook write that fails after the row was inserted leaves a broken run
  EXECUTED (`nodes/record_run.py:18`, against `orchestrator/state.py:229`). A page that fails
  in `handle_failure` costs the run its record (`docs/02-architecture.md:517`). After a
  timeout `run_incident` returns whatever row is stored. With a Postgres that hangs it does
  not return: the engine has neither a connect nor a statement timeout
  (`store/database.py:39-45`), and the watchdog's row (`timeouts.py:177`) and the final reads
  (`graph.py:252`, `262`) are awaited without one.
- *K5, K7, K10.* A finished run counts twice against the budget, by both of its rows
  (`kernel/facts.py:471`, `docs/03-invariants.md:172`). K10's age limit is checked on entry
  and two awaits before the patch (`docs/03-invariants.md:211`). K5 compares facts normalised
  to `ust-prod` with rows that keep the plan's own namespace. Concurrent incidents share
  `last_prod_outcome`.
- *K1.* The cluster adapter reports the desired replicas as the healthy ones
  (`kernel/facts.py:75` against `kernel/invariants/k01_replica_floor.py:56`), so `PassIsSafe`
  states K1 of the desired replicas only.
- *Reopened alerts.* When a first run left an ESCALATED or FAILED row without a claim, a
  second run may claim and change production: its row is refused, and `run_incident` returns
  the first run's record. Accepted alerts die with the process, nothing in the repository
  consumes the webhook's queue, and of a v2 batch only the first trigger becomes an alert,
  while the note goes to the incident of the first message. Durable checkpointing
  (`docs/01-decisions.md:67`, `docs/04-build-plan.md:192`) is not wired (`deps.py`).
- *Clones.* A fork may work with a database an earlier fork left (`fleet/database.py:332`,
  `docs/01-decisions.md:102`). A pipeline that was given up renames an empty or torn staging
  database over the template (`database.py:191`, `206`).
- *Twins.* In the middle of a rollout, with no pod of the new revision running, a twin is
  pinned to the old digest (`fleet/k8s.py:321`, `tests/unit/fleet/test_k8s.py:746`). A twin
  that takes over a namespace may be called ready before its pods exist
  (`fleet/controller.py:546`), and its age is the old one, so that gc may reap it. One whose
  workload is scaled to nothing (`fleet/k8s.py:577`), or with no workload to fork
  (`fleet/controller.py:503`), is handed out without a pod. Addresses
  without a scheme, and some drivers' DSNs under other keys, are not rewritten: only the
  policy contains them. `build_twin_namespace` truncates long incident ids and maps `inc_x`
  and `inc-x` to one name (`render.py:74-105`).
- *Mirror.* A worker that died keeps its twin registered, and nothing it held is counted.
  With counters and paths unread, `ust mirror compare` still prints "per-twin request count
  within 2% of prod" (`cli.py:625`). Production is counted from the gateway's start, a twin
  from its registration, so that later twins are DEGRADED. Incidents are matched by
  substring (`inc_1` in `inc_10`).
- *Tournament.* A lone viable candidate always wins, for its rival's score is that of the
  disqualified; an unrecovered plan can win (`tournament/scorer.py:307`,
  `docs/05-evaluation.md:53`). What a plan is charged with is the worst since its twin was
  ready against the window before that (`arbiter.py:346`), not against what was there before
  the apply (`tournament/blast.py:8`, `docs/02-architecture.md:472-473`), so that the start
  of the mirrored traffic and the incident's own symptoms count. The warm-up is measured
  from the last snapshot refresh (`arbiter.py:357`), a failed fetch after the apply counts
  as no degradation, a relapse after the recovery is ignored, and twins and plans are paired
  by position.
- *Plans.* `restart` and `scale` are skipped when the slot has another incident's plan of
  the same number (`actuator/apply.py:508`, `planner/validate.py:532`). An HTTP error of the
  LLM's call is retried by nobody (`validate.py:674-678`). `disable_flag` adds a key that was
  not there (`actuator/apply.py:615-617`), and its inverse then enables it
  (`planner/inverse.py:256-266`).
- *Playbooks.* Evidence is credited to the playbook of the signature whatever plan was
  applied (`playbook/write.py:46`, `docs/07-glossary.md:53`). Only a `PlaybookError` falls
  back; an HTTP error breaks the node although the comment in `plan_candidates.py` says
  otherwise. Two playbooks of one signature make every later look-up raise. A crash between
  the row and the playbook write loses the learning. Seeding again wipes a seed's evidence
  and keeps its counters. `ust playbook write` takes any run id (`cli.py:1594`), and counts a
  run again that has counted itself: `CountedOnce` excepts what it touched, by exactly one
  success for each command.

### Bounds

Two plans are enough in `ControlLoop` for a winner and a loser, a playbook plan and another,
a partial fork and a partial cleanup; nothing in the code compares more than two. Nothing
else is bounded there: the loop has no cycle. `Reopened` accepts two alerts (`MaxAlerts`),
the least that meet what a run left; one plan, since what two add is in `ControlLoop`.

`MaxTime` 2 in `SingleWriter` lets the window and the K10 limit, one unit each, both pass;
re-runs are not bounded, and two incidents are the least that race; the proofs show that the
number does not matter for its properties. In `FleetLifecycle` an age of 2 tells young,
nearly expired and expired things apart; `Rounds` (2 and 1) bounds how often an incident is
forked, since a third fork meets nothing a second did not. `TwinFork` has one workload, two
revisions and `Timeout` 2: a poll that succeeds, one that is repeated, and the deadline. One
replica stands for any number, since ready and available replicas are only compared with how
many there should be: fewer is unready, and none is enough for none. `SnapshotClone` has two
pipelines, since one given up and its successor are what shares the files, two versions, so
that one snapshot can be older, and two clones of a name.

In `MirrorRegistry` a queue of one overflows with the second request before the worker
starts, and two requests with a path each can be received in part. `Tournament` has a
`Horizon` of 5 ticks for a timeout of 4, a streak of 2 and a warm-up of 2, so that streaks
break, restart and come too late; the weights and the margin are the code's. `SafetyKernel`
has two `Changes` by others, one between any two sources; four deploys with a window of
three, so that the migration is inside it and a commit outside. `PlanApplier` has two
incidents, `MaxRetries` 1, and plans for the flag of one of its two workloads, which is in
any of the three states. `PlaybookLibrary` has two runs and one `Writes`, three writers, so
that a third meets what two have written, `TopK` 2, two `Seeds` loads and one crash.

Symmetry is used where the elements are alike and no liveness is checked: incidents in
`single_writer` and `plan_applier`, pipelines in `snapshot_clone`, runs, plans and
signatures in `playbook_library`.

Deadlock is checked except where a run of the model ends: `tournament`, `twin_fork`,
`plan_applier`, `safety_kernel` and `playbook_library` stop when everything is decided.

### Fairness

`control_loop`, `HungNodeEscalates`: a node's awaited call may hang for ever, so no node step
is fair. Weakly fair are the watchdog's timer, which the event loop runs
(`timeouts.py:223-235`), while the node does not await the store, and the cleanup and the page
of the escalation, whose calls all have timeouts: those of httpx for the mirrors and
PagerDuty, and of Kubernetes and kubectl for the twins. A cancelled await of anything but the
store lets go of the graph task. One of the store need not: its driver talks to the server to
cancel, and the engine has neither a connect nor a statement timeout
(`store/database.py:39-45`). For the same reason nothing is assumed of the emergency row
(`timeouts.py:177`) and of the read that ends `run_incident` (`graph.py:252`, `262`). So the
property ends where the escalation reaches its row, after on-call was paged, and not with
the return of `run_incident`, which a hung Postgres keeps for ever.

`mirror_gateway`, `QueuesDrain`: each worker's step is weakly fair, because the event loop
runs a worker that can go on and `client.request` is called with a timeout. The timeout of
httpx bounds each read, not the whole response, so this assumes that a twin does not send a
response for ever. Arrival at the twin, registration and production's requests are not fair.

`tournament`, `ObservationEnds`: the clock, each loop's turn and its reads, which have
timeouts. The mirror, the judge and the arbitration need none for this property.

`twin_fork`, `ForkEnds`: the task of the fork and the three list threads, whose calls have
timeouts. The cluster is not fair: pods need not start, nor a deletion end.

The other runs check safety only, of specifications without fairness.

## 5. Proofs

Every leaf is checked by tlapm; every theorem holds for all values of the constants that the
named assumptions of its module allow.

- `ControlLoopProofs`. `TypeInvariant`, for any set of plans: `TypeOK` is split into the
  graph's half and the environment's, and the steps into rehearsal, production, exit and
  watchdog. It assumes `PlansAssumption`. `MutationIsClaimed`: `MutationClaimed` is not
  inductive, since between the insert of the claim and the patch, and after the patch, nodes
  update the state. `ClaimInv` adds where the run may be when a claim exists (`LateNodes`,
  which the routers never leave) and that a late node changes neither winner nor verdict.
  `MirrorsAreTracked`: the snapshot is older than the state; `TrackInv` adds that mirrors
  are registered only in `register_mirrors`, for twins the state had when it was entered.
  `RecordIsSound` and `PagingIsSound`, from `ReportInv`: a row, a playbook write and a page
  say something of state that is not there when they are written, so `PathInv` says with
  which outcome the run may be in which node (before production it knows nothing of it; what
  is closed without an error was resolved or is escalated), `RowInv` what the row and the
  playbook say, and `PagedInv` who has been told, by the graph and by the watchdog, which
  need not know of each other. `ContractIsKept` is the whole refinement of
  `IncidentContract`: initial states map to initial states, and each step to a step of the
  contract or a stutter, one lemma per group of steps. It needs `SettleInv`: a result is only
  set when the task is done or the watchdog has given it up, and a row comes with the last
  nodes or the watchdog. `OnlyFailuresLeak` adds to it which mirrors and twins the three
  cleanups, of the graph, the error edge and the watchdog, can have missed.
- `ControlLoopProofs`, second part, of `Reopened` and so of any number of runs of an
  incident. A run starts from a fresh state, so what is known of the state, the snapshot and
  the pages of one run (`RunInv`) holds of each. What is known of the row, of production and
  of the mirrors does not, since they may be another run's, and `AcrossInv` says it anew.
  `RowsOrCalls` needs `RowCalledInv` (a row that names no plan is of a run that called
  on-call, and the claim never changes hands); `NoRunIsSilent` needs `EndInv` (however the
  run comes to its end, it is closed with a resolved incident or on-call has been called);
  `OnlyFoundOnesLeak` is the argument of `OnlyFailuresLeak` relative to the mirrors that the
  run found (`FoundInv`).
- `SingleWriterProofs`. `IncidentMutatesOnce` and `ClaimIsVisible`, from `WriterInv`, which
  relates `pc`, both rows and `attempts`: a patch is sent only by a run that inserted the
  row itself, and the table refuses the second insert. `OverlapIsRaced`, from `WriterInv`
  and `RaceInv`: facts are true of the table they were read from (`Told`), a verified run
  has passed K5 on them (`Passed`), and final rows stay. For any number of incidents,
  resources, targets, crashes and re-runs; it assumes `ParametersAssumption`.
  `OverBudgetIsRaced` adds `BudgetInv`: a claim that was in the table when the mutations
  were counted is among them if it is not older than the window, and the tables the claims
  were made on are nested. Without a race one of the authorised has therefore seen all the
  others, counted them, and had room for itself; which one is found by comparing the sizes
  of what they saw.
- `MirrorGatewayProofs`. `GatewayTypes` and `ShadowsOnly`, for any twins, queue bound and
  number of requests, from `GatewayAssumption`. `ShadowsOnly` is the whole refinement:
  initial states map to initial states and every step to a step of `ShadowTraffic` or a
  stutter. It needs `OnceInv`, since "received at most once" says nothing of what is still
  under way: a queued request is queued once, is not on the wire and was not received; one
  on the wire was not received; and one that production has not got no twin has.
  `AccountsBalance`, from `AccountInv`: a registration's counters and what it holds add up
  to what it was offered, which needs that nothing is held twice.
  `OkIsShadowed` is of `MirrorRegistry`, whose steps are steps of the gateway or none. What a
  counter says is a number, while the property is about sets of requests at different
  moments. So `AnsweredInv` says that the delivered counter is the size of a set of requests
  the twin has received since its registration, all of them after the gateway's start, and
  `ComparisonInv` that the number read by a comparison under way is still the size of such a
  set, among the requests production was counted with. It survives every later step because
  what a twin has received only grows.
- `FleetLifecycleProofs`. `TwinsStayIntact` and `OnlyLateOnesForgotten`, for any number of
  incidents and twins, any name prefixes and any rounds, from `FleetInv`: the types, which
  runs need a process that is up (`RunInv`), that a creation waits for the call that is under
  way (`CreationInv`), that nothing exists before the first fork (`UnbornInv`), that what a
  first run works with is no older than the run, so that gc can neither list nor reap it
  (`YoungInv`), that what a creation has got so far is still there (`ThereInv`), and that what
  comes into being behind a teardown's back was made by a call nobody awaited (`LateInv`).
  `YoungInv` is where the ages matter: it rests on `RetentionAssumption`, that gc keeps
  longer than a run may work, an hour against ten minutes by default.
- `SafetyKernelProofs`. `KernelPassIsProved`: `LoopInv` is the loop invariant of `verify`,
  that as long as nothing is missing each invariant before the one under way is known and
  holds. The formulas of the invariants are not expanded for it. `KernelPassIsSafe` expands
  them: every fact that was extracted is true of the source it was read from, as long as that
  has not moved, whatever else is missing, and a set of facts that is complete for an
  invariant lets the formula be read back as a statement about production. The latest of a
  set of deploys is found by well-foundedness. It assumes `KernelAssumption` and
  `RequestAssumption` (a request has one piece of evidence and one inverse, or none).
- `PlaybookLibraryProofs`, for any number of incidents, commands of the operator, signatures,
  plans, crashes and seedings. `LibraryInv` has the types, that every plan and candidate
  names a playbook that is there (`BooksInv`), that the row comes first, so that a run which
  is started again finds its row and never looks up or saves twice (`OnceInv`), and that what
  a run saw at its look-up is there still, under the signature it had (`SeenInv`).
  `DuplicatesAreRaced` and `NothingIsForgotten` follow. `EachIsCountedOnce` needs in addition
  who has been counted, which the state does not say: a run that was counted and started
  again looks like one that was not. `CountInv` therefore says that there *is* a set of
  runs, each with a row, all of them done or started again, of which the counters and the
  evidence are true (`CountedBy`), and `OwnInv` what a run that is about to be counted knows
  of itself. Each step keeps the set or adds the run it counts. The sum of the successes is a
  fold. `SuccessesArePoints` turns it into the cardinality of a set of points, one for each
  success of each playbook, and one step changes it by one point.
- `TwinProofs`, first part, of `TwinFork`. `TwinGetsTheSpec`, `TwinIsContained` and
  `TwinHasServed` (of `ServedIfWanted`), for any deadline, from `ForkInv`, whose four parts
  are `SnapInv` (while the spec's revision is in service, with a pod running or with none
  wanted and none running, the spec cannot change, so that each list, whenever taken, names
  the same revision), `ImageInv` (the image is chosen once, after the last list), `SpaceInv`
  (only the first manifest makes a namespace active, and then it is empty or whole, so that
  where workloads are the policy is) and `OwnInv` (in a namespace the fork made itself no
  old pod can be, so that a count of ready replicas tells of a rendered one). It assumes
  `TwinForkAssumption`.
- `TwinProofs`, second part, of `SnapshotClone`. `ClonesAreWhole`, from `CloneInv`: the
  types, and, as long as no pipeline was started beside another, that there is one at most,
  that the file it opened is its own and what it restored is what it dumped (`AloneInv`),
  and that the template and its copies are whole or missing (`CopiesInv`). It assumes
  `SnapshotAssumption`, including that "none" names no pipeline. `ClonesAreFresh` holds with
  any overlap: `NewestInv` orders the versions by the one dump file all pipelines share,
  which is opened anew with a later version than anything read from it before; so a whole
  restore is of the newest dump there was (`RestoredInv`), the awaited pipeline reads what
  was dumped after the last record (`RecordInv`), and a first clone copies nothing older
  than what it asked for (`AskedInv`).
- `RehearsalProofs`, first part, of `Tournament`: any candidates, services and dependencies,
  weights of requests, margin, streak, warm-up and timeout. `WinnerIsBestHolds` and
  `RecoveryIsFirstStreakHolds`, from `TournamentInv`: the types (a ranking names each
  candidate once, which is about the fold that parses the judge's answer), for each twin
  that its samples are in order and its recovery is the first streak among them
  (`ObservedOf`), and that the result is the arbitration of the evidence (`Decided`). That
  the fold of `DetectRecovery` finds the first streak is an induction over the samples:
  `Knows` says what it knows after `k` of them, the run of healthy ones under way and the
  first that was long enough. The winner is compared with the best of the others, whose
  score is a least element. It assumes `TournamentAssumption`.
- `RehearsalProofs`, second part, of `PlanApplier` and the `Planner` below it, for any
  number of incidents, any deploys, dependency graph, answers and playbooks, and any
  retries. Its invariant `ApplierInv` has three parts. `ApplierTyped` says that a ballot is
  one (`IsBallot`: each entry is the planner's, normalised against a prefix of today's
  deploys, or a playbook's), that the twins are environments whose images have been
  deployed, and that an abandoned patch can still land. `SlotInv` says that an identifier in
  an annotation slot, in production or in what a call has read, was left by an incident that
  has patched that workload; hence `SkipNeedsIdReuseHolds`. `Counted` says that as long as
  no patch came between another's read and patch, whatever a call has read is current, and
  the replicas are the initial number plus the sum of the deltas; hence
  `ReplicasAddUpHolds`. The sum is a fold over a set of incidents of which the summands may
  be taken out in any order (`SumTakesOut`), whatever order the `CHOOSE` of the fold takes.
  `InverseRestoresHolds` needs `ApplierTyped` only, and the lemmas on the planner's
  operators: what survives normalisation, what `Reindexed` keeps, that a reference resolves
  if its commit was deployed with the workload (`ResolveIs`), where the inverse of a
  rollback goes (`PreIncidentIs`), that the inverse of a flag's plan writes the other of the
  two values and so restores what was one of them, and that no identifier is that of its
  inverse (`SlotIdDiffers`, without which a scale would not be undone). It assumes
  `PlannerAssumption` and `ApplierAssumption`.

Recursion and folds: the induction theorems of the library cannot be instantiated by the
installed provers. The proofs do without. A set of numbers that is not empty has a least
element, by the theorem on minimal elements of a well-founded relation (`HasLeast`), so that a
smallest counterexample is one step away from a case that holds; `Climb` is that argument as a
lemma about a set of numbers, with no operator as a parameter. The folds of the community
modules are a `CHOOSE` of a recursive function on the subsets of a set: `FoldExists` shows,
size by size, that there is one, so that the chosen one obeys its recursion.

Model-checked only: liveness (`HungNodeEscalates`, `QueuesDrain`, `ObservationEnds`,
`ForkEnds`), which is beyond the prover. `SingleWriterHolds` is violated.

## 6. Not modelled

Clients of Prometheus, Loki and Datadog and the history of GitHub beyond its deploys (single
reads, whose answers the models choose from small sets); the loading and cross-check of the
dependency graph; layout and volumes of the manifests, messages and prompts (text); fault
injection, the demo services and load generator (the workload); the catalogue and the
explanations (text), the Z3 bridge (a library, whose answer is taken to be right or
unknown); evaluations (append-only rows nobody reads); the put and list calls of the
checkpoint saver, which only tests reach; shadow mode and evaluation (stubs at this commit);
the command line's parsing and printing; deployment files. The Slack and PagerDuty clients
are modelled by which of their calls page, fail or are swallowed.
