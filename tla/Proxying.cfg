CONSTANTS
  Shora = 1
  Size = 2
  MaxChecks = 1
  Retries = 1
  Upstreams <- MCUpstreams
SPECIFICATION Spec
CHECK_DEADLOCK FALSE
INVARIANTS TypeOK AnsweredRightly ChecksDecide
PROPERTIES Answered Settles
