CONSTANTS
  Width = 4
  Field = 30011
  Buckets = {16}
  Contents <- MCContents
  DeferredLevels = 1
  MaxUpdates = 3
  AllowRegrow = TRUE
  AllowRepeat = FALSE
  Capacities = {4, 8}
  UsedSlots = {1}
  Nonces = {0}

SPECIFICATION Spec

INVARIANTS
  RootCorrect
