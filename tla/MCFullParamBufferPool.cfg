SPECIFICATION PoolSpec
CONSTANTS
  b1 = b1
  b2 = b2
  b3 = b3
  b4 = b4
  k1 = k1
  k2 = k2
  Buffers <- MCBuffers
  Keys <- MCKeys
  KeyOf <- MCKeyOf
  MaxCachedPerKey = 2
  Cuda = TRUE
SYMMETRY PoolSymmetry
INVARIANTS
  PoolTypeOK
  ExclusiveOwnership
  IdleBuffersAreQuiescent
  CapacityRespected
PROPERTIES
  AcceptedReleaseSurvivesDrain
  HandsOutQuiescent
