SPECIFICATION ReopenedSpec

CONSTANTS
    p1 = p1
    Plans <- MCPlans
    PlaybookPlans <- MCPlans
    NoPlan = NoPlan
    MaxAlerts = 2

INVARIANTS
    UnrecordedChangesCalled
    NoSilentRun
    OnlyInheritedLeaks
