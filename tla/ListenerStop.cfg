CONSTANTS
  Listeners = {l1, l2}
  MaxConnections = 2
SPECIFICATION Spec
CHECK_DEADLOCK FALSE
PROPERTY ShutdownStops
