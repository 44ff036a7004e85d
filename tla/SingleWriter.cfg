CONSTANTS
    i1 = i1
    i2 = i2
    r1 = r1
    Incidents <- Two
    Resources <- Deployments
    Targets <- Shared
    Budget = 1
    Window = 1
    MaxAge = 1
    MaxTime = 2
SPECIFICATION Spec
SYMMETRY Alike
INVARIANTS
    MutatesOnce
    ClaimVisible
    OverlapNeedsRace
    OverBudgetNeedsRace
