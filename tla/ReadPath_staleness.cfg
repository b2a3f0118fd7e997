SPECIFICATION Spec
CHECK_DEADLOCK FALSE
CONSTANTS
  r1 = r1
  r2 = r2
  r3 = r3
  i1 = i1
  i2 = i2
  w1 = w1
  w2 = w2
  Modes <- StaleOnly
  Request = {r1, r2}
  Instance = {i1}
  Worker = {w1}
  Seeds = {1}
  Threshold = 2
  MaxPolls = 1
  MaxTries = 2
  MaxVersion = 2
  MaxClock = 2
  MaxFaults = 0
  MaxLeases = 0
  MaxLosses = 1
SYMMETRY Symmetry
INVARIANTS
  AnswersSeeTheFence
  BoundedStaleness
