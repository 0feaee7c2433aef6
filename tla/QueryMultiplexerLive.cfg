CONSTANTS
  Queries = {q1, q2}
  Links = {l1}
  IdSpace = 2
  MaxReads = 1
  RetryReadError = TRUE
  None = None
SPECIFICATION FairSpec
CHECK_DEADLOCK FALSE
PROPERTIES
  EveryQueryCompletes
