CONSTANTS
  Queries = {q1, q2}
  Links = {l1, l2}
  IdSpace = 2
  MaxReads = 2
  RetryReadError = TRUE
  None = None
SPECIFICATION Spec
CHECK_DEADLOCK FALSE
INVARIANTS TypeOK CalledAtMostOnce RightAnswer NoneForgotten
SYMMETRY Symmetry
