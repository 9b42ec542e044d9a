CONSTANTS
  PlainKeys = {1, 2, 3}
  Values = {v1, v2}
  Empty = Empty
  MaxCapacity = 4
  Nonces = {0, 1}
  HashFns <- MCHashFns
  InitCapacity = 2
  LoadFactorPct = 80
  Capacities = {3, 5}
SPECIFICATION FairSpec
CHECK_DEADLOCK FALSE
INVARIANTS
  TypeOK
  OrderedWhenIdle
  HistoryIndependent
  FindComplete
  UsageExact
  NothingBeyondCapacity
PROPERTIES
  CallsReturn
  ImplementsKvMap
