SPECIFICATION ApplierSpec

CONSTANTS
    Incidents = {i1, i2}
    Workloads <- MCWorkloads
    Callers <- MCCallers
    Commits <- MCCommits
    NoCommit = NoCommit
    Values = {"v"}
    History <- MCHistory
    LLMAnswers <- MCLLMAnswers
    Playbooks <- MCPlaybooks
    MaxRetries = 1
    Replicas = 1
    InitialFlags <- MCInitialFlags

SYMMETRY Alike

INVARIANTS
    ReplicasAddUp
    SkipNeedsIdReuse
    

CHECK_DEADLOCK FALSE
