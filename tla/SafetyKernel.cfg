SPECIFICATION Spec

CONSTANTS
    Services <- MCServices
    Callers <- MCCallers
    History <- MCHistory
    Window = 3
    MinReplicas <- MCMinReplicas
    Budget = 1
    Requests <- MCRequests
    MaxReplicas = 2
    Changes = 2

INVARIANTS
    PassIsProved
    PassIsSafe

CHECK_DEADLOCK FALSE
