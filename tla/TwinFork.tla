------------------------------ MODULE TwinFork ------------------------------
(***************************************************************************)
(* One twin from the snapshot of production to its handle                  *)
(* (K8sFleetController._fork_one_twin, TwinManifestRenderer): manifests    *)
(* applied one by one in a namespace that may exist already, the check of  *)
(* the NetworkPolicy (K6), and the polls for readiness; around it the      *)
(* cluster, whose controllers act when they will, and a teardown of the    *)
(* same namespace by somebody else.                                        *)
(***************************************************************************)
EXTENDS TwinSnapshot, Sequences

CONSTANT Timeout  \* readiness_timeout_seconds, in polls

ASSUME TwinForkAssumption == Timeout \in Nat

\* The pods of a namespace that an earlier fork of the incident left behind,
\* and those of the manifests of this one.
Templates == {"left", "rendered"}

VARIABLES
  fork,    \* where the fork is: [pc, step, image, adopted]
  space,   \* the namespace: [phase, policy, template, pods, counted]
  poll,    \* the two lists of the poll under way: [deps, pods]
  elapsed, \* polls waited
  served   \* history: a pod of the rendered template has been ready here

forkVars == <<fork, space, poll, elapsed, served>>
twinVars == <<deployment, lists, steady, fork, space, poll, elapsed, served>>

NoPods == [t \in Templates |-> "none"]

\* Nothing, or what a fork that died after applying everything left behind.
Spaces0 ==
  {[phase |-> "absent", policy |-> FALSE, template |-> "none", pods |-> NoPods,
    counted |-> FALSE],
   [phase |-> "active", policy |-> TRUE, template |-> "left",
    pods |-> [NoPods EXCEPT !["left"] = "ready"], counted |-> TRUE]}

Unpolled == [deps |-> "unread", pods |-> "unread"]

Found(good) == IF good THEN "good" ELSE "bad"

ForkInit ==
  /\ SnapshotInit
  /\ fork = [pc |-> "read", step |-> 1, image |-> 0, adopted |-> FALSE]
  /\ space \in Spaces0
  /\ poll = Unpolled
  /\ elapsed = 0
  /\ served = FALSE
-----------------------------------------------------------------------------
(* Rendering.                                                              *)

\* An address in an environment variable or ConfigMap of production: under a
\* database key or not, a DSN, a URL or without a scheme the renderer knows,
\* and the host it names.
Addresses == [databaseKey : BOOLEAN, form : {"dsn", "url", "other"},
              host : {"prod", "workload", "system", "ip", "external"}]

\* Where an address that is left as it is leads from the twin's namespace.
Leads(host) ==
  CASE host = "prod" -> "prod"
    [] host = "workload" -> "twin"
    [] host = "system" -> "system"
    [] OTHER -> "internet"

\* A literal address names no Service, so that it is taken for an external one.
IsIpLiteral(host) == host = "ip"

\* rewrite_url.
RewriteUrl(host) ==
  CASE host \in {"prod", "workload"} -> "twin"
    [] host = "system" -> "system"
    [] IsIpLiteral(host) \/ host = "external" -> "stub"

\* rewrite_database_dsn: whatever stood there, parsed or not.
RewriteDsn(host) == "clone"

\* _rewrite_container_env, and the same rules in _render_config_maps.
EnvAddress(a) ==
  CASE a.databaseKey \/ a.form = "dsn" -> RewriteDsn(a.host)
    [] a.form = "url" -> RewriteUrl(a.host)
    [] OTHER -> Leads(a.host)

ConfigMapAddress(a) == EnvAddress(a)

\* What the pods of the twin can reach: what the manifests name and, once
\* there is a NetworkPolicy, it lets through.
Allowed == {"twin", "system", "stub", "clone"}

Reachable ==
  LET named == {EnvAddress(a) : a \in Addresses} \cup {ConfigMapAddress(a) : a \in Addresses}
  IN  IF space.policy THEN named \cap Allowed ELSE named

\* What is rendered for the one workload, kind by kind; a database is not
\* forked, and the ConfigMaps are those of the namespace.
RenderNamespace     == <<"Namespace">>
RenderRbac          == <<"ServiceAccount", "RoleBinding">>
RenderNetworkPolicy == <<"NetworkPolicy">>
RenderConfigMaps    == <<"ConfigMap">>
RenderServices      == IF Forked THEN <<"Service">> ELSE <<>>
RenderDeployments   == IF Forked THEN <<"Deployment">> ELSE <<>>

\* A plausible bug: the workloads first.
Manifests_PolicyLast ==
  RenderNamespace \o RenderRbac \o RenderConfigMaps \o RenderServices
    \o RenderDeployments \o RenderNetworkPolicy

\* The order of the bundle.
Manifests ==
  RenderNamespace \o RenderRbac \o RenderNetworkPolicy \o RenderConfigMaps
    \o RenderServices \o RenderDeployments
-----------------------------------------------------------------------------
(* The fork.                                                               *)

Pc(pc) == fork' = [fork EXCEPT !.pc = pc]

\* read_workloads ends with the last list, and the manifests are rendered.
Render ==
  /\ fork.pc = "read" /\ ~ Reading
  /\ \E image \in PinnedImages :
       fork' = [fork EXCEPT !.pc = "apply", !.image = image]
  /\ UNCHANGED <<prodVars, space, poll, elapsed, served>>

NextManifest ==
  fork' = [fork EXCEPT !.step = @ + 1,
                       !.pc = IF fork.step = Len(Manifests) THEN "confirm" ELSE "apply",
                       !.adopted = @ \/ (fork.step = 1 /\ space.phase # "absent")]

\* A namespace that exists, one that is being deleted too, answers 409 and is
\* taken over.  Inside it an object is created, or replaced if it is there; a
\* namespace that is gone or going refuses it.
Apply ==
  LET kind == Manifests[fork.step] IN
  /\ fork.pc = "apply"
  /\ kind = "Namespace" \/ space.phase = "active"
  /\ space' = CASE kind = "Namespace" /\ space.phase = "absent" ->
                     [space EXCEPT !.phase = "active"]
                [] kind = "NetworkPolicy" -> [space EXCEPT !.policy = TRUE]
                [] kind = "Deployment" -> [space EXCEPT !.template = "rendered"]
                [] OTHER -> space
  /\ NextManifest
  /\ UNCHANGED <<prodVars, poll, elapsed, served>>

\* A call that cannot succeed ends this twin.
Refused ==
  /\ \/ fork.pc = "apply" /\ fork.step > 1 /\ space.phase # "active"
     \/ fork.pc = "confirm" /\ ~ space.policy
  /\ Pc("failed")
  /\ UNCHANGED <<prodVars, space, poll, elapsed, served>>

\* So does any other error of the API, at any call.
ApiError ==
  /\ fork.pc \in {"read", "apply", "confirm", "wait"}
  /\ Pc("failed")
  /\ UNCHANGED <<prodVars, space, poll, elapsed, served>>

\* _confirm_k6_network_policy; without the policy the twin fails.
ConfirmPolicy ==
  /\ fork.pc = "confirm" /\ space.policy
  /\ Pc("wait")
  /\ UNCHANGED <<prodVars, space, poll, elapsed, served>>

\* Nothing to wait for.
NothingExpected ==
  /\ fork.pc = "wait" /\ ~ Forked
  /\ Pc("ready")
  /\ UNCHANGED <<prodVars, space, poll, elapsed, served>>

\* A plausible bug: a deployment that is not in the list holds nothing up.
PollDeployments_SkipsMissing ==
  /\ fork.pc = "wait" /\ Forked /\ poll.deps = "unread"
  /\ poll' = [poll EXCEPT !.deps =
                Found(space.template = "none" \/ space.counted \/ Wanted = 0)]
  /\ UNCHANGED <<prodVars, fork, space, elapsed, served>>

\* The list of deployments: the one expected is there, with as many ready and
\* available replicas as were rendered.  The counts are of whatever pods it had
\* when its status was last written; none is enough for no replicas.
PollDeployments ==
  /\ fork.pc = "wait" /\ Forked /\ poll.deps = "unread"
  /\ poll' = [poll EXCEPT !.deps =
                Found(space.template # "none" /\ (space.counted \/ Wanted = 0))]
  /\ UNCHANGED <<prodVars, fork, space, elapsed, served>>

\* The list of pods: those there are must be running and ready.
PollPods ==
  /\ fork.pc = "wait" /\ Forked /\ poll.pods = "unread"
  /\ poll' = [poll EXCEPT !.pods = Found(\A t \in Templates : space.pods[t] # "starting")]
  /\ UNCHANGED <<prodVars, fork, space, elapsed, served>>

Polled == fork.pc = "wait" /\ "unread" \notin {poll.deps, poll.pods}

AllReady == poll.deps = "good" /\ poll.pods = "good"

\* A plausible bug: no deadline.
PollAgain_Forever ==
  /\ Polled /\ ~ AllReady
  /\ poll' = Unpolled
  /\ elapsed' = IF elapsed < Timeout THEN elapsed + 1 ELSE elapsed
  /\ UNCHANGED <<prodVars, fork, space, served>>

PollAgain ==
  /\ Polled /\ ~ AllReady /\ elapsed < Timeout
  /\ poll' = Unpolled
  /\ elapsed' = elapsed + 1
  /\ UNCHANGED <<prodVars, fork, space, served>>

\* Nothing unready: a handle; or too late.
Judge ==
  /\ Polled
  /\ \/ AllReady /\ Pc("ready")
     \/ ~ AllReady /\ elapsed = Timeout /\ Pc("failed")
  /\ UNCHANGED <<prodVars, space, poll, elapsed, served>>
-----------------------------------------------------------------------------
(* The cluster.                                                            *)

\* The cluster acts on its own; what it does after the fork no longer matters.
Cluster(s) ==
  /\ fork.pc \notin {"read", "ready", "failed"}
  /\ space' = s
  /\ served' = (served \/ s.pods["rendered"] = "ready")
  /\ UNCHANGED <<prodVars, fork, poll, elapsed>>

\* The Deployment that was left behind wanted a pod.
PodStarts ==
  /\ space.phase = "active" /\ space.template # "none"
  /\ space.template = "left" \/ Wanted > 0
  /\ space.pods[space.template] = "none"
  /\ Cluster([space EXCEPT !.pods[space.template] = "starting"])

PodReady(t) ==
  space.pods[t] = "starting" /\ Cluster([space EXCEPT !.pods[t] = "ready"])

PodFails(t) ==
  space.pods[t] = "ready" /\ Cluster([space EXCEPT !.pods[t] = "starting"])

\* The rolling update retires an old pod when a new one is ready or none is
\* wanted.
PodReplaced ==
  /\ space.template = "rendered" /\ space.pods["left"] # "none"
  /\ space.pods["rendered"] = "ready" \/ Wanted = 0
  /\ Cluster([space EXCEPT !.pods["left"] = "none"])

\* The deployment controller writes the status: the ready pods, of either
\* template.
StatusWritten ==
  /\ space.template # "none"
  /\ Cluster([space EXCEPT !.counted = \E t \in Templates : space.pods[t] = "ready"])

\* gc, an emergency teardown or the exit of another process deletes the
\* namespace; its contents go piece by piece, in any order.
Deleted ==
  \/ space.phase = "active" /\ Cluster([space EXCEPT !.phase = "terminating"])
  \/ /\ space.phase = "terminating"
     /\ \/ space.policy /\ Cluster([space EXCEPT !.policy = FALSE])
        \/ /\ space.template # "none"
           /\ Cluster([space EXCEPT !.template = "none", !.pods = NoPods, !.counted = FALSE])
        \/ /\ ~ space.policy /\ space.template = "none"
           /\ Cluster([space EXCEPT !.phase = "absent"])

\* While production is read the rest of the fork waits.
ForkWaits == fork.pc = "read" /\ UNCHANGED forkVars

ForkStep ==
  \/ Render \/ Apply \/ ConfirmPolicy \/ NothingExpected
  \/ PollDeployments \/ PollPods \/ PollAgain \/ Judge

ForkNext ==
  \/ SnapshotNext /\ ForkWaits
  \/ ForkStep \/ Refused \/ ApiError
  \/ PodStarts \/ PodReplaced \/ StatusWritten \/ Deleted
  \/ \E t \in Templates : PodReady(t) \/ PodFails(t)

\* The task of the fork and its threads run, and every call they make has a
\* timeout.
Fairness ==
  /\ WF_twinVars(ForkStep \/ Refused)
  /\ WF_twinVars(ReadDeployments /\ ForkWaits) /\ WF_twinVars(ReadPods /\ ForkWaits)
  /\ WF_twinVars(ReadReplicaSets /\ ForkWaits)

ForkSpec == ForkInit /\ [][ForkNext]_twinVars /\ Fairness
-----------------------------------------------------------------------------
(* Properties.                                                             *)

ForkTypeOK ==
  /\ fork.pc \in {"read", "apply", "confirm", "wait", "ready", "failed"}
  /\ fork.step \in 1..Len(Manifests) + 1 /\ fork.adopted \in BOOLEAN
  /\ fork.pc = "apply" => fork.step <= Len(Manifests)
  /\ fork.pc \notin {"read", "failed"} => fork.image \in Revisions
  /\ space.pods \in [Templates -> {"none", "starting", "ready"}]
  /\ elapsed \in 0..Timeout

\* The image is the spec's (read_workloads): if the revision of the spec was
\* annotated from the first list to the last, and a pod of it running, or none
\* wanted and none of any revision running, the twin gets its image, with old
\* pods beside it and in whatever order the lists were read.
SnapshotOfTheSpec ==
  ForkTypeOK /\ (steady /\ fork.image # 0 => fork.image = lists.dep.spec)

\* K6: no pod of a twin whose namespace is not being deleted reaches
\* production or the internet, at any moment of the fork.  Addresses without a
\* scheme are not rewritten, so that it takes the policy, and the policy
\* before the workloads (render, _apply_manifest).
Contained ==
  space.phase = "active" /\ (\E t \in Templates : space.pods[t] # "none") =>
    Reachable \cap {"prod", "internet"} = {}

\* In a namespace of its own a twin of a workload that has replicas is handed
\* out only after a pod of the rendered template was ready in it, whatever the
\* lag of the status, the order of the two lists and a deletion under way
\* (_wait_for_readiness).  A workload scaled to none is ready without a pod, and
\* in a namespace that was taken over an old pod may stand in for the new one.
ServedIfWanted == fork.pc = "ready" /\ ~ fork.adopted /\ Wanted > 0 => served

\* Every fork ends, with a handle or with a failure.
ForkEnds == <>(fork.pc \in {"ready", "failed"})

=============================================================================
