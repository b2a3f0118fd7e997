SPECIFICATION Spec
CONSTANTS
  c1 = c1
  c2 = c2
  Key = {1, 2}
  Version = {0, 1}
  Capacity = {1, 2}
  Eviction = {"LRU"}
  Lifetime = {1}
  Client = {c1, c2}
  Calls = {"put", "fence", "get", "flush", "patch"}
  MaxClock = 1
  MaxHits = 0
SYMMETRY Symmetry
INVARIANTS
  PolicyIndexesAgree
  SlotBudget
PROPERTIES
  TrimReachesCapacity
  ImplementsVersionedCache
