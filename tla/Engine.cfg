\* One worker, as in main.cpp: a pipeline of generators, two outside futures that complete
\* or are cancelled and may be reused, spurious wake-ups, and the shutdown by wle().
SPECIFICATION Spec
CONSTANTS
  w1 = w1  w2 = w2  parent = parent  child = child  other = other  io = io  timer = timer
  Workers <- OneWorker
  Gens <- ThreeGens
  Notfs <- TwoNotfs
  None = None
  Main = Main
  Awaits <- PipelineAwaits
  Launches <- PipelineLaunches
  Roots <- PipelineRoots
  Yields <- PipelineYields
  Drained = TRUE
  Rearms = 1
  MaxQueue = 0
INVARIANTS TypeOK NoLostWakeup ResumedWithResult ResumedAlone WleAbandonsNothing
PROPERTIES SubmittedFinishes ImplementsAwaitGraph
\* After wle() has returned there is nothing left to do.
CHECK_DEADLOCK FALSE
