SPECIFICATION StorageSpec
CONSTANTS
  b1 = b1
  b2 = b2
  b3 = b3
  b4 = b4
  b5 = b5
  k1 = k1
  NoBuffer = NoBuffer
  Nobody = Nobody
  Buffers <- MCBuffers
  Keys <- MCKeys
  KeyOf <- MCKeyOf
  UnitKey <- MCUnitKey
  UnitCount = 4
  Root = 1
  MaxCachedPerKey = 2
  Cuda = TRUE
  Reshard <- MCReshard
  Hooked <- MCReshard
  Prefetch = TRUE
SYMMETRY BufferSymmetry
INVARIANTS
  StorageTypeOK
  SavedViewsReadOwnParameters
  UnshardedUnitsKeepTheirParameters
