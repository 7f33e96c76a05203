\* A timer that is stopped while its own callback runs.
SPECIFICATION SafeSpec
CONSTANTS
  c1 = c1
  Callers <- OneCaller
  Worker = Worker
  Periods <- OneOffAndInterval
  MaxId = 2
  MaxTime = 2
  NoTimer = NoTimer
INVARIANT StopStops
\* After the shutdown nothing has to happen any more.
CHECK_DEADLOCK FALSE
