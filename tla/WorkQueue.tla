------------------------------ MODULE WorkQueue ------------------------------
(***************************************************************************)
(* What the engine asks of its work queue, with no threads, no lock and no *)
(* condition variable: values wait in order, each taker is handed the      *)
(* oldest one, and once the queue is shut nobody is handed anything more,  *)
(* whatever still waits.  ThreadSafeQueue implements this specification.   *)
(***************************************************************************)
EXTENDS Sequences

CONSTANTS Takers,  \* the threads that take values
          Values,  \* what the queue carries
          Nothing  \* what a taker holds before its first value

VARIABLES pending, \* the values put and not taken yet, oldest first
          taken,   \* taken[t] is the last value handed to t
          shut     \* the queue has been shut

wqVars == <<pending, taken, shut>>

WQInit ==
  /\ pending = <<>>
  /\ taken = [t \in Takers |-> Nothing]
  /\ shut = FALSE

\* Putting is possible on a shut queue too: the value then waits forever.
Put(v) ==
  /\ pending' = Append(pending, v)
  /\ UNCHANGED <<taken, shut>>

Take(t) ==
  /\ ~shut
  /\ pending # <<>>
  /\ taken' = [taken EXCEPT ![t] = Head(pending)]
  /\ pending' = Tail(pending)
  /\ UNCHANGED shut

Shut ==
  /\ shut' = TRUE
  /\ UNCHANGED <<pending, taken>>

WQNext ==
  \/ \E v \in Values : Put(v)
  \/ \E t \in Takers : Take(t)
  \/ Shut

\* While the queue is open the oldest value is eventually handed to somebody.
WQSpec == WQInit /\ [][WQNext]_wqVars /\ WF_wqVars(\E t \in Takers : Take(t))
==============================================================================
