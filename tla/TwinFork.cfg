SPECIFICATION ForkSpec
CONSTANT Timeout = 2
INVARIANTS
  SnapshotOfTheSpec
  Contained
  ServedIfWanted
PROPERTY ForkEnds
\* The fork ends with a handle or a failure, and nothing is modelled after it.
CHECK_DEADLOCK FALSE
