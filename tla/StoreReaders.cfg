CONSTANTS
  PlainKeys = {1, 2, 3}
  Values = {"a", "b"}
  Empty = Empty
  MaxCapacity = 4
  Readers = {r1, r2}
  HashWith <- MCHash
  Blocks <- MCBlocks
  Nodes <- MCNodes
  MaxCommits = 2
SPECIFICATION Spec
INVARIANTS
  LookupAnswers
  ReadsOfOneState
