CONSTANTS
  Workers = {w1, w2}
  Callers = {c1}
  Touches = {j1}
  PoolTasks = {p1}
  Lists <- MCLists
  MinBatch = 2
  Threads = 2
  TableJobs = 2
  MayPanic = TRUE
SPECIFICATION Spec
INVARIANTS
  NothingOnTop
  EachNodeOnce
PROPERTY
  EveryTaskEnds
CHECK_DEADLOCK FALSE
