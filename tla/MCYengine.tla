------------------------------ MODULE MCYengine ------------------------------
(* Instances of Yengine for TLC.                                             *)
EXTENDS Yengine, TLC

CONSTANTS w1, w2, parent, child, other, io, timer

OneWorker == {w1}
TwoWorkers == {w1, w2}

\* A pipeline: the parent launches `other` and awaits it, drives `child`, which yields
\* once before its last value, and awaits a timer; the child and `other` await I/O.
ThreeGens == {parent, child, other}
TwoNotfs == {io, timer}
PipelineAwaits == parent :> {child, other} @@ child :> {io} @@ other :> {timer}
PipelineLaunches == parent :> {other} @@ child :> {} @@ other :> {}
PipelineRoots == {parent}
PipelineYields == {child}

\* The read of yaioi.cpp: one generator awaiting one outside future.
ReadGens == {parent, other}
ReadNotfs == {io}
ReadAwaits == parent :> {io} @@ other :> {}
ReadLaunches == parent :> {} @@ other :> {}
ReadRoots == {parent, other}

\* test/yaioi.cpp:27, for an engine with 1, 2 or 4 workers: "the read eventually
\* completes with the data".  Closing the other end completes the outside future `io`,
\* it does not cancel it.
ReadCompletes ==
  parent \in launched ~> (parent \in done \/ nstate[io] = "Cancelled")

\* main.cpp:209-210: once everything has been shut down, engine.wle() returns and the
\* program says goodbye.
WleReturns == wle = "lock" ~> wle = "returned"
==============================================================================
