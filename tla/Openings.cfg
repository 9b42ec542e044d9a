CONSTANTS
  P = 13
  N = 4
  Threads = 2
  MaxQueries = 3
  QueryLists <- MCQueryLists
  Challenges = {0, 5, 10}
SPECIFICATION Spec
CHECK_DEADLOCK FALSE
INVARIANTS
  OpeningAccepted
  SameTranscript
