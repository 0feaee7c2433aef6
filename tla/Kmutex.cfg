CONSTANTS
  Keys = {k1, k2}
  Goroutines = {g1, g2, g3}
SPECIFICATION FairSpec
INVARIANTS MutualExclusion RefCounts
PROPERTIES ImplementsKeyedLock EveryLockReturns
