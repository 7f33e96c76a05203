CONSTANTS
  Pollable = TRUE
  Blocking = TRUE
  BufferSize = 4
  Capacity = 1
  Wire <- MCWire
  Cuts <- MCCuts
  EndOf <- MCEndOf
  CRLF = "crlf"
  Malformed <- MCMalformed
  Length <- MCLength
  Close = {}
  Throughput = TRUE
SPECIFICATION Spec
CHECK_DEADLOCK FALSE
INVARIANTS TypeOK BytesAreKept ResponsesInOrder WrongEventOnlyAfterCancel EventsFindTheirResource IdleIsTold CancelIsTaken
PROPERTY WioeReturns
