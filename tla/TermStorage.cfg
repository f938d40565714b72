SPECIFICATION Spec
CONSTANTS
  t1 = t1
  t2 = t2
  k1 = k1
  k2 = k2
  k3 = k3
  b1 = b1
  b2 = b2
  b3 = b3
  null = null
  NoKey = NoKey
  Thread <- ThreadVal
  Key <- KeyVal
  Hash <- HashVal
  Block <- BlockVal
  BlockSize = 2
  FreeChunkSize = 2
  MaxBuckets = 2
SYMMETRY Symmetry
INVARIANTS
  EntriesAccounted
  CountExact
  WalksStayInBucket
PROPERTY
  ImplementsUniqueTerms
