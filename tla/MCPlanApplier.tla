---------------------------- MODULE MCPlanApplier ----------------------------
(* Two incidents on a caller and the service it calls, with two commits of  *)
(* which the newer one has an image of the service only.                    *)
EXTENDS PlanApplier

MCWorkloads == {"front", "data"}
MCCallers == [s \in MCWorkloads |-> IF s = "data" THEN {"front"} ELSE {}]
MCCommits == {"old", "new"}
MCHistory == <<[commit |-> "old", digests |-> {"front", "data"}],
               [commit |-> "new", digests |-> {"data"}]>>

Restart  == [Candidate("restart_workload", "data") EXCEPT !.blast = {"front"}]
ScaleUp  == [Candidate("scale_workload", "data") EXCEPT !.delta = 1]
NoScale  == Candidate("scale_workload", "data")
Rollback == [Candidate("rollback_deploy", "data") EXCEPT !.commit = "old"]
Flag     == [Candidate("disable_flag", "data") EXCEPT !.flag = TRUE]
Config   == [Candidate("revert_config", "data") EXCEPT !.value = {"v"}]
TooWide  == [Candidate("restart_workload", "front") EXCEPT !.blast = {"data"}]
Shrink   == [Candidate("scale_workload", "data") EXCEPT !.delta = -1]

MCLLMAnswers == {<<NoScale>>, <<Config, ScaleUp, Shrink>>, <<Restart, Rollback>>,
                 <<TooWide, Flag, Candidate("no_action", ""), Shrink>>}

Learned ==
    LET p == [ToPlan(ScaleUp, 0) EXCEPT !.id = PlaybookId(1), !.origin = "playbook"]
    IN  [p EXCEPT !.inverse = SynthesizeInverse(p, <<>>)]

Alike == Permutations(Incidents)

MCPlaybooks == {{}, {Learned}}

(* The flag that is proposed is set, cleared or unknown to the cluster.     *)
MCInitialFlags ==
    {[front |-> "true", data |-> flag] : flag \in FlagStates}
=============================================================================
