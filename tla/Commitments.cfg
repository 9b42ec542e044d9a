CONSTANTS
  Prime = 113
  WordBits = 2
  CoeffD = 10
  Order = 29
  NumBases = 2
  WindowSize = 3
  FrBits = 5
  FrWordBits = 4
  FrWords = 2
  Scalars = {0, 3, 6, 9, 12, 13, 27}
  Hash <- MCHash
SPECIFICATION Spec
INVARIANTS
  CommitmentExact
  ReadsInWindow
  DecodedExactly
  MontgomeryExact
