CONSTANTS
  Slots = {s1, s2}
  Meta = meta
  Entries = {a, b}
  Metas = {dm, m1}
  DefaultMeta = dm
  None = None
  MaxWrites = 2
  MaxCommits = 2
  AllowReuse = TRUE

SYMMETRY Symmetry
SPECIFICATION Spec

INVARIANTS
  UpdatesExact
  AccumulationExact
  CountsExact

PROPERTY
  RollbackRestores
