CONSTANTS
  Width = 2
  Field = 30011
  Buckets = {4, 7}
  Contents <- MCContents
  Requests <- MCRequests
  MaxKeys = 2
  Mixable <- MCMixable
  Capacities = {2, 4, 8, 32}
  UsedSlots = {1}
SPECIFICATION Spec
INVARIANTS
  HonestAccepted
  AcceptedIsTrue
