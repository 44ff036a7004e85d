SPECIFICATION RegistryFairSpec

CONSTANTS
    t1 = t1
    t2 = t2
    Twins = {t1, t2}
    QueueMax = 1
    MaxRequests = 2
    Paths = {1, 2}
    PathOf <- MCPathOf
    Compared = {t1}

INVARIANTS
    TypeOK
    EachAccountedFor

PROPERTIES
    OkMeansShadowed
    ShadowsProduction
    QueuesDrain
