SPECIFICATION FairSpec
CONSTANTS
  q1 = q1
  q2 = q2
  a1 = a1
  a2 = a2
  Poll = {q1}
  Action = {a1, a2}
  MaxInputs = 3
  MaxFaults = 1
INVARIANTS
  TypeOK
  DriftIsReal
  OutageAnnounced
PROPERTIES
  DisplayConverges
