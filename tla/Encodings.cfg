CONSTANTS
  Width = 4
  Field = 11
  WidthBits = 2
  SlotBits = 12
  TagBit = 9
  TagMask = 7
  ByteBits = 4
  NonceBytes = 2
  CapacityBytes = 3
  MaxValueBytes = 9
  KeyLengths <- MCKeyLengths
  Hashes = {0, 26, 47}
  Nonces = {0, 200}
  Capacities <- MCCapacities
  Slots = {0, 1, 3, 4, 5, 7, 15, 16, 17, 63, 64, 255, 256, 511, 1022, 1023}
  PlainEntries <- MCPlainEntries
  Others <- MCOthers
  Elements = {e1, e2}
  Scalars = {s1}
  Undecodable = Undecodable
  NumPoints = 1
  ProofNodes = {1, 2}
  ProofBuckets = {3, 5, 8}
  LevelValues = {1, 5}
  Proofs <- MCProofs
  MaxSends = 2
SPECIFICATION MCSpec
SYMMETRY Symmetry
INVARIANTS
  PathEncoded
  StoreDecodes
  AllBytesHashed
  ProofTravels
