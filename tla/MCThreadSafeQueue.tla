-------------------------- MODULE MCThreadSafeQueue --------------------------
(* One instance of ThreadSafeQueue for TLC: two workers, an outside thread     *)
(* that pushes as one of the workers does, and the main thread watching.       *)
EXTENDS ThreadSafeQueue, TLC

CONSTANTS w1, w2, io, main, a, b

TwoWorkers == {w1, w2}
Outside == {io, w1}
TwoItems == {a, b}
MainThread == {main}
==============================================================================
