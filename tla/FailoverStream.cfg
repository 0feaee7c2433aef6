CONSTANTS
  Writers = {"client"}
  BufferSize = 3
  IndexSpace = 17
  Start = 15
  MaxFrames = 4
  MaxLinks = 3
SPECIFICATION FairSpec
CHECK_DEADLOCK FALSE
INVARIANTS StreamIntact 
PROPERTIES DataArrives
