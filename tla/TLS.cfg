\* TLS over a virtual connection: one way, both ways and until the end of data.
SPECIFICATION Spec
CONSTANTS
  Byte = {1, 2, 3, 4, 8, 9}
  Client = 1
  Flights = 3
  BufferSize = 3
  Programs <- Exchanges
INVARIANTS SentIsReceived
PROPERTIES WrittenIsOut EndIsTheEnd ExchangeCompletes
\* The programs end.
CHECK_DEADLOCK FALSE
