--------------------------- MODULE MCSafetyKernel ---------------------------
(* A caller and the service it calls; four deploys, of which the second     *)
(* oldest migrates the schema; plans of each kind with evidence that is     *)
(* good, too thin, too wide or absent.                                      *)
EXTENDS SafetyKernel

MCServices == {"front", "data"}
MCCallers == [s \in MCServices |-> IF s = "data" THEN {"front"} ELSE {}]
MCHistory == <<[commit |-> "c4", migrates |-> FALSE], [commit |-> "c3", migrates |-> FALSE],
               [commit |-> "c2", migrates |-> TRUE], [commit |-> "c1", migrates |-> FALSE]>>
MCMinReplicas == [s \in MCServices |-> 1]

Data(ns) == {[namespace |-> ns, kind |-> "Deployment", name |-> "data"]}

Plan(action, targets) ==
    [action |-> action, workload |-> "data", commit |-> "none", delta |-> 0,
     targets |-> targets, blast |-> {"data", "front"}, inverse |-> {targets}]

Restart  == Plan("restart_workload", Data("ust-prod"))
Rollback(c) == [Plan("rollback_deploy", Data("ust-prod")) EXCEPT !.commit = c]
Shrink   == [Plan("scale_workload", Data("ust-prod")) EXCEPT !.delta = -1]
OfTwin   == Plan("restart_workload", Data("ust-twin"))
OfOther  == Plan("restart_workload", Data("kube-system"))
NoUndo   == [Restart EXCEPT !.inverse = {}]
Nothing  == [Plan("no_action", {}) EXCEPT !.blast = {}, !.inverse = {}]

Rehearsal(blast, samples, age) ==
    {[observed_blast_set |-> blast, evidence_age_seconds |-> age,
      probe_sample_count |-> samples, max_drop_ratio |-> 0]}

Good == Rehearsal({"data"}, 60, 300)

MCRequests ==
    {[plan |-> p, evidence |-> Good] :
        p \in {Restart, Shrink, OfTwin, OfOther, NoUndo} \cup {Rollback(c) : c \in {"c1", "c2", "c3"}}}
    \cup {[plan |-> Restart, evidence |-> e] : e \in {{}, Rehearsal({"data"}, 59, 0)}}
    \cup {[plan |-> [Restart EXCEPT !.blast = {"front"}], evidence |-> Good],
          [plan |-> Nothing, evidence |-> Rehearsal({}, 60, 0)]}
=============================================================================
