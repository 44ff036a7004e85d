SPECIFICATION Spec
CONSTANTS
  r1 = r1
  r2 = r2
  w1 = w1
  s1 = s1
  planA = planA
  planB = planB
  sigA = sigA
  sigB = sigB
  NoPlaybook = NoPlaybook
  Runs = {r1, r2}
  Writes = {w1}
  Signatures = {sigA, sigB}
  Plans = {planA, planB}
  Seeds = {s1}
  TopK = 2
  MaxSeedings = 2
  MaxCrashes = 1
SYMMETRY Symmetry
INVARIANTS
  CountedOnce
  DuplicateNeedsRace
PROPERTY NothingForgotten
\* Every incident ends: nothing is left to do.
CHECK_DEADLOCK FALSE
