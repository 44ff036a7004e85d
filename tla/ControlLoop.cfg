CONSTANTS
    p1 = p1
    p2 = p2
    Plans <- MCPlans
    PlaybookPlans <- MCPlaybookPlans
    NoPlan = NoPlan
SPECIFICATION FairSpec
INVARIANTS
    TypeOK
    MutationClaimed
    MirrorsTracked
    RecordSound
    PagingSound
    OnlyFailedCleanupLeaks
PROPERTIES
    KeepsContract
    HungNodeEscalates
