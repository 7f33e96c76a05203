\* The engine of yaioi.cpp with two workers: a read that awaits what the other end completes.
SPECIFICATION Spec
CONSTANTS
  w1 = w1  w2 = w2  parent = parent  child = child  other = other  io = io  timer = timer
  Workers <- TwoWorkers
  Gens <- ReadGens
  Notfs <- ReadNotfs
  None = None
  Main = Main
  Awaits <- ReadAwaits
  Launches <- ReadLaunches
  Roots <- ReadRoots
  Yields = {}
  Drained = TRUE
  Rearms = 0
  MaxQueue = 0
PROPERTY ReadCompletes
CHECK_DEADLOCK FALSE
