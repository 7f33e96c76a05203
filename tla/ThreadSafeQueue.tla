--------------------------- MODULE ThreadSafeQueue ---------------------------
(***************************************************************************)
(* yasync/threadsafequeue.hpp: the queue between the threads that submit   *)
(* work to the engine and the engine's workers.  Every method body runs    *)
(* under `mutex`, so one action is one critical section: from taking the   *)
(* mutex to returning or to `cvPop.wait`.                                  *)
(*                                                                         *)
(* The operators Push, PopBegin, PopResume, PopSpurious and Close speak    *)
(* of the queue's variables only, so that Yengine can use them through     *)
(* INSTANCE; the specification at the end closes the queue with the        *)
(* threads around it.                                                      *)
(***************************************************************************)
EXTENDS Integers, Sequences, FiniteSets

CONSTANTS Poppers,   \* the threads that call pop
          Pushers,   \* the threads that call push (a popper may be one)
          Observers, \* the threads that may block on *cvIdle
          Items,     \* the values queued
          NoItem,    \* what a popper holds before its first value
          ThresIdle, \* thresIdle, set by the owner; 0 disables the idle signal
          MaxLen     \* bound of the model: pushes stop at this length

ASSUME QueueAssumption ==
  /\ IsFiniteSet(Poppers)
  /\ Poppers # {}
  /\ ThresIdle \in Nat
  /\ MaxLen \in Nat

VARIABLES list,        \* list
          currentSize, \* currentSize
          popw,        \* popw: threads inside pop()
          closed,      \* closed
          asleep,      \* threads blocked in cvPop.wait
          woken,       \* threads notified that have not got the mutex back yet
          ended,       \* threads to which pop() answered nullopt
          held,        \* held[c]: the value the last pop() of c returned
          cvIdle       \* threads blocked on the condition variable *cvIdle

qVars == <<list, currentSize, popw, closed, asleep, woken, ended, held, cvIdle>>

\* Threads that are inside pop().
Inside == asleep \cup woken

QInit ==
  /\ list = <<>>
  /\ currentSize = 0
  /\ popw = 0
  /\ closed = FALSE
  /\ asleep = {}
  /\ woken = {}
  /\ ended = {}
  /\ held = [c \in Poppers |-> NoItem]
  /\ cvIdle = {}
------------------------------------------------------------------------------
\* cvPop.notify_one(): some sleeper, if there is one, will compete for the mutex.
NotifyOne ==
  IF asleep = {}
  THEN UNCHANGED <<asleep, woken>>
  ELSE \E c \in asleep : /\ asleep' = asleep \ {c}
                         /\ woken' = woken \cup {c}

\* Mutant: the size is tested before it is incremented.
PushNotifiesOnSecond(v) ==
  /\ list' = Append(list, v)
  /\ currentSize' = currentSize + 1
  /\ IF currentSize = 1 THEN NotifyOne ELSE UNCHANGED <<asleep, woken>>
  /\ UNCHANGED <<popw, closed, ended, held, cvIdle>>

\* Mutant: spliced in at the front.
PushFront(v) ==
  /\ list' = <<v>> \o list
  /\ currentSize' = currentSize + 1
  /\ IF currentSize' = 1 THEN NotifyOne ELSE UNCHANGED <<asleep, woken>>
  /\ UNCHANGED <<popw, closed, ended, held, cvIdle>>

\* Mutant: the size is not incremented.
PushUncounted(v) ==
  /\ list' = Append(list, v)
  /\ IF list = <<>> THEN NotifyOne ELSE UNCHANGED <<asleep, woken>>
  /\ UNCHANGED <<currentSize, popw, closed, ended, held, cvIdle>>

Push(v) ==
  /\ list' = Append(list, v)
  /\ currentSize' = currentSize + 1
  /\ IF currentSize' = 1 THEN NotifyOne ELSE UNCHANGED <<asleep, woken>>
  /\ UNCHANGED <<popw, closed, ended, held, cvIdle>>

\* The loop body: nothing to hand out.  p is the value of popw at that point.
Sleep(c, p) ==
  /\ list = <<>>
  /\ ~closed
  /\ cvIdle' = IF ThresIdle > 0 /\ p >= ThresIdle THEN {} ELSE cvIdle
  /\ asleep' = asleep \cup {c}
  /\ woken' = woken \ {c}
  /\ popw' = p
  /\ UNCHANGED <<list, currentSize, closed, ended, held>>

\* Mutant: the early return forgets to leave popw.
RefuseStillCounted(c, p) ==
  /\ closed
  /\ ended' = ended \cup {c}
  /\ woken' = woken \ {c}
  /\ popw' = p
  /\ UNCHANGED <<list, currentSize, closed, asleep, held, cvIdle>>

\* The queue is closed: nullopt, even if values are still queued.
Refuse(c, p) ==
  /\ closed
  /\ ended' = ended \cup {c}
  /\ woken' = woken \ {c}
  /\ popw' = p - 1
  /\ UNCHANGED <<list, currentSize, closed, asleep, held, cvIdle>>

HandOut(c, p) ==
  /\ list # <<>>
  /\ ~closed
  /\ currentSize' = currentSize - 1
  /\ held' = [held EXCEPT ![c] = Head(list)]
  /\ list' = Tail(list)
  /\ woken' = woken \ {c}
  /\ popw' = p - 1
  /\ UNCHANGED <<closed, asleep, ended, cvIdle>>

PopFrom(c, p) == Sleep(c, p) \/ Refuse(c, p) \/ HandOut(c, p)

\* pop() from its call to its first wait or to its return.
PopBegin(c) == c \notin Inside \cup ended /\ PopFrom(c, popw + 1)

\* A notified thread gets the mutex back and evaluates the loop condition again.
PopResume(c) == c \in woken /\ PopFrom(c, popw)

\* std::condition_variable::wait may return without a notification.
PopSpurious(c) ==
  /\ c \in asleep
  /\ asleep' = asleep \ {c}
  /\ woken' = woken \cup {c}
  /\ UNCHANGED <<list, currentSize, popw, closed, ended, held, cvIdle>>

\* Mutant: only one sleeper is told.
CloseTellsOne ==
  /\ ~closed
  /\ closed' = TRUE
  /\ NotifyOne
  /\ UNCHANGED <<list, currentSize, popw, ended, held, cvIdle>>

\* `closed` is read before the mutex is taken.  wle() is the only caller and close()
\* the only writer, so the early read answers what a read inside would.
Close ==
  /\ ~closed
  /\ closed' = TRUE
  /\ woken' = Inside
  /\ asleep' = {}
  /\ UNCHANGED <<list, currentSize, popw, ended, held, cvIdle>>

\* The owner of *cvIdle, having seen currentIdle() below the threshold, blocks.
IdleBlock(o) ==
  /\ o \notin cvIdle
  /\ cvIdle' = cvIdle \cup {o}
  /\ UNCHANGED <<list, currentSize, popw, closed, asleep, woken, ended, held>>
------------------------------------------------------------------------------
\* A thread pushes only between its own pops.
PushBy(p, v) == /\ p \notin Inside \cup ended
                /\ Len(list) < MaxLen
                /\ Push(v)

QNext ==
  \/ \E p \in Pushers, v \in Items : PushBy(p, v)
  \/ \E c \in Poppers : PopBegin(c) \/ PopResume(c) \/ PopSpurious(c)
  \/ \E o \in Observers : IdleBlock(o)
  \/ Close

\* A worker that has a value handles it and calls pop() again; a notified thread
\* gets the mutex.  Nobody has to push, to close or to wake up spuriously.
QFairness == \A c \in Poppers : WF_qVars(PopBegin(c)) /\ WF_qVars(PopResume(c))

QSafeSpec == QInit /\ [][QNext]_qVars
QSpec == QSafeSpec /\ QFairness
------------------------------------------------------------------------------
QTypeOK ==
  /\ list \in Seq(Items)
  /\ currentSize \in Nat
  /\ popw \in Nat
  /\ closed \in BOOLEAN
  /\ asleep \subseteq Poppers
  /\ woken \subseteq Poppers
  /\ ended \subseteq Poppers
  /\ held \in [Poppers -> Items \cup {NoItem}]
  /\ cvIdle \subseteq Observers

\* The two counters the decisions are taken from agree with what they count:
\* `currentSize == 1u` decides whether a push notifies, `popw >= thresIdle`
\* whether the engine looks idle.  A wait that returned and a pop that failed
\* must both have been taken off popw.
CountsAgree ==
  /\ currentSize = Len(list)
  /\ popw = Cardinality(Inside)
  /\ asleep \cap woken = {}
  /\ ended \cap Inside = {}

\* push notifies only on the step from empty to one value, so later values rely on
\* somebody awake to come for them: while values are queued in an open queue some
\* worker is not asleep.
SomeoneComes == (list # <<>> /\ ~closed) => \E c \in Poppers : c \notin asleep

\* close() leaves nobody behind in cvPop.wait, and nobody goes to sleep afterwards.
NoSleeperAfterClose == closed => asleep = {}

\* The queue as the engine sees it: first in, first out, each value handed out once,
\* no value left behind by a missed notification while the queue is open.
Abstract == INSTANCE WorkQueue
  WITH Takers <- Poppers, Values <- Items, Nothing <- NoItem,
       pending <- list, taken <- held, shut <- closed
ImplementsWorkQueue == Abstract!WQSpec
==============================================================================
