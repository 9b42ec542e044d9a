CONSTANTS
  PlainKeys = {1, 2, 3}
  Values = {v1, v2}
  Empty = Empty
  Meta = Meta
  Unknown = Unknown
  MaxCapacity = 8
  HashFns <- AllHashFns
  InitCapacities = {2, 3, 4}
  InitValue = v1
  NewValues = {v2}
  LoadFactorPct = 80
  MaxReads = 1
SPECIFICATION Spec
CHECK_DEADLOCK FALSE
INVARIANTS
  ReplayNeverFails
  ReplayAgrees
  LookupsRight
  WitnessAccepted
