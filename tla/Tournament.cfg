CONSTANTS
  Candidates = 2
  Target <- MCTarget
  NoTarget = "none"
  Services = {"gateway", "data"}
  Gateway = "gateway"
  Calls <- MCCalls
  Share <- MCShare
  Traffic <- MCTraffic
  SnapshotAges = {0, 2}
  WarmUp = 2
  Streak = 2
  Timeout = 4
  MinSamples = 3
  AmbiguityMargin = 1500
  Horizon = 5
SPECIFICATION Spec
\* A decided or failed tournament takes no further step.
CHECK_DEADLOCK FALSE
INVARIANTS
  WinnerIsBest
  RecoveryIsFirstStreak
PROPERTIES
  ObservationEnds
