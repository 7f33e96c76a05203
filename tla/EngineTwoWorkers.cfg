\* Two workers in the pipeline: what they may do to one generator between them.
SPECIFICATION SafeSpec
CONSTANTS
  w1 = w1  w2 = w2  parent = parent  child = child  other = other  io = io  timer = timer
  Workers <- TwoWorkers
  Gens <- ThreeGens
  Notfs <- TwoNotfs
  None = None
  Main = Main
  Awaits <- PipelineAwaits
  Launches <- PipelineLaunches
  Roots <- PipelineRoots
  Yields <- PipelineYields
  Drained = TRUE
  Rearms = 0
  MaxQueue = 0
INVARIANT ResumedAlone
PROPERTY ImplementsAwaitGraph
\* After wle() has returned there is nothing left to do.
CHECK_DEADLOCK FALSE
