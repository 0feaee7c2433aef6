CONSTANTS
  Calls = {c1, c2}
  MaxResets = 1
  MaxDials = 2
SPECIFICATION FairSpec
CHECK_DEADLOCK FALSE
INVARIANTS NoLeak CreatedOnce OwnErrorsOnly LossIsSignalled
PROPERTIES ImplementsSharedLink EveryCallReturns
