SPECIFICATION FairSpec
CONSTANTS
  c1 = c1
  c2 = c2
  c3 = c3
  c4 = c4
  Call = {c1, c2, c3, c4}
  Threshold = 2
  Reset = 3
  Timeout = 2
INVARIANTS
  TypeOK
  OpenPeriodBounded
PROPERTIES
  ClosesAfterOutage
  OpensInLastingOutage
