SPECIFICATION Spec
CONSTANTS
  k1 = k1
  k2 = k2
  w1 = w1
  w2 = w2
  f1 = f1
  Key = {k1}
  Version = {1, 2, 3}
  Seed <- MCSeed
  Event = {1, 2}
  Worker = {w1, w2}
  Filler = {f1}
  MaxFaults = 0
  MaxFlushes = 1
SYMMETRY Symmetry
INVARIANTS
  FloorHoldsSinceFlush
