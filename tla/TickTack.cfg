\* Two timers, one-off or periodic, started and stopped by a thread and from callbacks.
SPECIFICATION Spec
CONSTANTS
  c1 = c1
  Callers <- OneCaller
  Worker = Worker
  Periods <- OneOffAndInterval
  MaxId = 2
  MaxTime = 2
  NoTimer = NoTimer
INVARIANTS TypeOK OneOffOnce ShutdownSettles KeepsPhase
PROPERTIES CancelIsLast StartedIsCalled ShutdownEnds
\* After the shutdown nothing has to happen any more.
CHECK_DEADLOCK FALSE
