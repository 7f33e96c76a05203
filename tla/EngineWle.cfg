\* The engine of main.cpp, one worker, at the end of main().
SPECIFICATION Spec
CONSTANTS
  w1 = w1  w2 = w2  parent = parent  child = child  other = other  io = io  timer = timer
  Workers <- OneWorker
  Gens <- ReadGens
  Notfs <- ReadNotfs
  None = None
  Main = Main
  Awaits <- ReadAwaits
  Launches <- ReadLaunches
  Roots <- ReadRoots
  Yields = {}
  Drained = TRUE
  Rearms = 0
  MaxQueue = 0
PROPERTY WleReturns
CHECK_DEADLOCK FALSE
