SPECIFICATION FairSpec
CONSTANTS
  t1 = t1
  t2 = t2
  t3 = t3
  k1 = k1
  k2 = k2
  Thread = {t1, t2, t3}
  NoThread = NoThread
  Key = {k1, k2}
  NoKey = NoKey
  EMPTY = EMPTY
  RESERVED = RESERVED
  npos = npos
  Hash <- MCHash
  minimal_hashtable_size = 8
  RESERVATION_FRACTION = 8
INVARIANTS EveryClaimHasAnIndex TableHasRoom ProbeChainsUnbroken
PROPERTIES EveryCallReturns ImplementsKeyNumbering
