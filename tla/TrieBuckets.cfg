CONSTANTS
  Width = 2
  Field = 30011
  Buckets = {4, 7}
  Contents <- MCContents
  DeferredLevels = 2
  MaxUpdates = 1
  AllowRegrow = FALSE
  AllowRepeat = FALSE
  Capacities = {2, 4, 16}
  UsedSlots = {1}
  Nonces = {0}

SPECIFICATION Spec

INVARIANTS
  RootCorrect
  TrieExact
  RebuildExact
  WitnessSuffices
