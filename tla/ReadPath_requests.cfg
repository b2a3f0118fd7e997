SPECIFICATION FairSpec
CHECK_DEADLOCK FALSE
CONSTANTS
  r1 = r1
  r2 = r2
  r3 = r3
  i1 = i1
  i2 = i2
  w1 = w1
  w2 = w2
  Modes <- AllModes
  Request = {r1, r2}
  Instance = {i1}
  Worker = {w1}
  Seeds = {0, 1}
  Threshold = 1
  MaxPolls = 1
  MaxTries = 2
  MaxVersion = 1
  MaxClock = 1
  MaxFaults = 2
  MaxLeases = 1
  MaxLosses = 0
INVARIANTS
  TypeOK
  OneFetchPerLease
PROPERTIES
  OnlyTheOwnerReleases
  EveryRequestIsAnswered
  EveryRefreshSettles
