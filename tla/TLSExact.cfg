\* A read of exactly as many bytes as were written, over TLS.
SPECIFICATION Spec
CONSTANTS
  Byte = {1, 2, 3, 4, 8, 9}
  Client = 1
  Flights = 3
  BufferSize = 3
  Programs <- Exactly
PROPERTIES ReadsAtLeast
CHECK_DEADLOCK FALSE
