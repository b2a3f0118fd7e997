SPECIFICATION Spec
CONSTANTS
  c1 = c1
  c2 = c2
  Key = {1, 2, 3}
  Version = {1}
  Capacity = {2}
  Eviction = {"LRU", "LFU"}
  Lifetime = {1}
  Client = {c1}
  Calls = {"put", "touch", "get", "list", "flush"}
  MaxClock = 1
  MaxHits = 1
INVARIANTS
  TypeOK
  IndexExact
  TrimMatchesLoop
PROPERTIES
  EvictionIsExact
