CONSTANTS
  Width = 4
  Field = 30011
  Buckets = {16}
  Contents <- MCContents
  DeferredLevels = 3
  MaxUpdates = 2
  AllowRegrow = FALSE
  AllowRepeat = FALSE
  Capacities = {4, 8, 16}
  UsedSlots = {1, 6}
  Nonces = {0}

SPECIFICATION Spec

INVARIANTS
  RootCorrect
  OldValuesStored
  TopReached
