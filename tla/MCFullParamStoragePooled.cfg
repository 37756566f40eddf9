SPECIFICATION StorageSpec
CONSTANTS
  b1 = b1
  b2 = b2
  b3 = b3
  b4 = b4
  b5 = b5
  k1 = k1
  NoBuffer = NoBuffer
  Nobody = Nobody
  Buffers <- MCBuffers
  Keys <- MCKeys
  KeyOf <- MCKeyOf
  UnitKey <- MCUnitKey
  UnitCount = 3
  Root = Nobody
  MaxCachedPerKey = 2
  Cuda = TRUE
  Reshard <- MCEveryUnit
  Hooked <- MCNoUnit
  Prefetch = TRUE
SYMMETRY BufferSymmetry
INVARIANTS
  SavedViewsReadOwnParameters
