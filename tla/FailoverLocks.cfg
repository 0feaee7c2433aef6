CONSTANTS
  Users = {r}
  Closer = c
  Handlers = {h1, h2}
  None = None
SPECIFICATION FairLocksSpec
CHECK_DEADLOCK FALSE
INVARIANTS OnlyCloseCrosses
PROPERTIES AwaitEnds  CloseDeletes
