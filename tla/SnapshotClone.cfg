SPECIFICATION Spec
CONSTANTS
    p1 = p1
    p2 = p2
    t1 = t1
    Pipelines = {p1, p2}
    Twins = {t1}
    MaxRetries = 2
    MaxVersion = 2
    Rounds = 2
INVARIANTS WholeUnlessOverlap FreshAsRecorded
SYMMETRY Alike
