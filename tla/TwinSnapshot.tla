---------------------------- MODULE TwinSnapshot ----------------------------
(***************************************************************************)
(* What a fork reads of production (src/understudy/fleet/k8s.py).  One     *)
(* workload of production, whose Deployment may be rolled out to a new     *)
(* revision, or scaled, while the three lists (deployments, pods, replica  *)
(* sets) are read, each by a thread of its own and in no order.  A         *)
(* revision stands for the image its template names; both revisions name   *)
(* the same repository, so that the comparison of image names tells        *)
(* nothing.  One replica stands for any number of them but none.           *)
(***************************************************************************)
EXTENDS Naturals, FiniteSets

Revisions == {1, 2}

VARIABLES
  deployment,  \* the Deployment, its replica sets and its pods
  lists,       \* what the reader has read of them, and which lists it has
  steady       \* history: since the fork began, the spec's revision was
               \* annotated and in service

prodVars == <<deployment, lists, steady>>

Components == {"service", "database"}

\* The revision of the spec is known and runs, or no pod is wanted or runs.
InService(p) ==
  /\ p.revision = p.spec
  /\ IF p.replicas = 0 THEN \A r \in Revisions : p.pods[r] # "running"
     ELSE p.pods[p.spec] = "running"

\* Rolled out to its spec, with the pods of an earlier revision still there.
RolledOut(component, spec, replicas) ==
  [component |-> component, spec |-> spec, revision |-> spec, sets |-> 1..spec,
   replicas |-> replicas,
   pods |-> [r \in Revisions |-> IF r <= spec /\ replicas > 0 THEN "running" ELSE "none"]]

SnapshotInit ==
  /\ \E component \in Components, spec \in Revisions, replicas \in {0, 1} :
        deployment = RolledOut(component, spec, replicas)
  /\ lists = [read |-> {}, pods |-> {}, sets |-> {},
              dep |-> [component |-> "none", spec |-> 0, revision |-> 0, replicas |-> 0]]
  /\ steady = TRUE

Reading == lists.read # {"deployments", "pods", "sets"}

\* Production goes on while it is read; after the last list it no longer
\* matters to the fork.
Becomes(p) ==
  /\ Reading
  /\ deployment' = p
  /\ steady' = (steady /\ InService(p))
  /\ UNCHANGED lists

Deploy == deployment.spec = 1 /\ Becomes([deployment EXCEPT !.spec = 2])

Scale == Becomes([deployment EXCEPT !.replicas = 1 - @])

\* The deployment controller annotates the revision and makes its replica set.
Sync ==
  /\ deployment.revision # deployment.spec
  /\ Becomes([deployment EXCEPT !.revision = deployment.spec, !.sets = @ \cup {deployment.spec}])

PodCreated(r) ==
  /\ r = deployment.revision /\ deployment.replicas > 0 /\ deployment.pods[r] = "none"
  /\ Becomes([deployment EXCEPT !.pods[r] = "pending"])

PodRuns(r) ==
  deployment.pods[r] = "pending" /\ Becomes([deployment EXCEPT !.pods[r] = "running"])

\* Evicted or crashed; its replacement waits, or cannot pull its image.
PodLost(r) ==
  deployment.pods[r] = "running" /\ Becomes([deployment EXCEPT !.pods[r] = "pending"])

\* Scaled down, or replaced by a pod of the spec.
PodRetired(r) ==
  /\ deployment.pods[r] # "none"
  /\ deployment.replicas = 0 \/ (r # deployment.spec /\ InService(deployment))
  /\ Becomes([deployment EXCEPT !.pods[r] = "none"])

ReadDeployments ==
  /\ "deployments" \notin lists.read
  /\ lists' = [lists EXCEPT !.read = @ \cup {"deployments"},
                            !.dep = [component |-> deployment.component,
                                     spec |-> deployment.spec, revision |-> deployment.revision,
                                     replicas |-> deployment.replicas]]
  /\ UNCHANGED <<deployment, steady>>

\* Only Running pods matter; both revisions' pods carry the match labels.
ReadPods ==
  /\ "pods" \notin lists.read
  /\ lists' = [lists EXCEPT !.read = @ \cup {"pods"},
                            !.pods = {r \in Revisions : deployment.pods[r] = "running"}]
  /\ UNCHANGED <<deployment, steady>>

ReadReplicaSets ==
  /\ "sets" \notin lists.read
  /\ lists' = [lists EXCEPT !.read = @ \cup {"sets"}, !.sets = deployment.sets]
  /\ UNCHANGED <<deployment, steady>>

SnapshotNext ==
  \/ Deploy \/ Scale \/ Sync \/ ReadDeployments \/ ReadPods \/ ReadReplicaSets
  \/ \E r \in Revisions : PodCreated(r) \/ PodRuns(r) \/ PodLost(r) \/ PodRetired(r)

\* The revision of the pods of the Deployment's current replica set, when the
\* annotation and the list tell which that is.
CurrentRevision == {lists.dep.revision} \cap lists.sets

\* A plausible bug: the labels alone choose the pods.
Trusted_ByLabels == lists.pods

\* The pods whose image id may pin the digest: those of the current replica
\* set, or all of them if it has none running.
Trusted ==
  LET current == lists.pods \cap CurrentRevision
  IN  IF current # {} THEN current ELSE lists.pods

\* The images that a twin may get: that of the newest trusted pod, whichever
\* started last, or the one the tag of the spec names when no pod is trusted.
PinnedImages == IF Trusted = {} THEN {lists.dep.spec} ELSE Trusted

\* Whether the workload is forked at all, and with how many pods: as many as
\* its Deployment asked for, none too.
Forked == lists.dep.component # "database"
Wanted == IF Forked THEN lists.dep.replicas ELSE 0
=============================================================================
