\* Workers and an outside thread push; the main thread waits for idleness and closes.
SPECIFICATION QSpec
CONSTANTS
  w1 = w1  w2 = w2  io = io  main = main  a = a  b = b
  Poppers <- TwoWorkers
  Pushers <- Outside
  Observers <- MainThread
  Items <- TwoItems
  NoItem = NoItem
  ThresIdle = 2
  MaxLen = 3
INVARIANTS QTypeOK CountsAgree SomeoneComes NoSleeperAfterClose
PROPERTIES ImplementsWorkQueue
\* Once the queue is closed and every worker has been told, nothing is left to do.
CHECK_DEADLOCK FALSE
