SPECIFICATION Spec
CONSTANTS
  k1 = k1
  p1 = p1
  p2 = p2
  r1 = r1
  r2 = r2
  f1 = f1
  f2 = f2
  Key = {k1}
  Version = {1, 2}
  Seed <- MCSeed
  Warm = {k1}
  Field = {f1, f2}
  Reader = {p1}
  Worker = {p1}
  Patcher = {p2}
  Operator = {r1}
  MaxReseeds = 1
SYMMETRY Symmetry
INVARIANTS
  ResetIsDeterministic
