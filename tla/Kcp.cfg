CONSTANTS
  Ends = {client, server}
  Writers = {client}
  Readers = {server}
  NumberSpace = 16
  First = 15
  MaxSegments = 2
  SendingBuffer = 1
  ReceivingWindow = 2
  Capacity = 2
SPECIFICATION Spec
CHECK_DEADLOCK FALSE
INVARIANTS StreamIntact NothingLost EofIsEnd
