CONSTANTS
    i1 = i1
    i2 = i2
    r1 = r1
    Incidents <- Two
    Resources <- Deployments
    Targets <- Shared
    Budget = 3
    Window = 1
    MaxAge = 1
    MaxTime = 1
SPECIFICATION Spec
SYMMETRY Alike
INVARIANT
    SingleWriterHolds
