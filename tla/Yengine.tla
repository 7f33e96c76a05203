------------------------------- MODULE Yengine -------------------------------
(***************************************************************************)
(* yasync/engine.cpp: the engine that runs generators.  Workers take       *)
(* futures from the work queue (ThreadSafeQueue) and drive them in         *)
(* threado(): a generator that returns a future is registered in           *)
(* `notifications` as that future's awaiter, and whoever completes the     *)
(* future takes the awaiter out of the map and resumes it.  Outside        *)
(* threads (I/O, timers, main) submit generators and complete or cancel    *)
(* outside futures; main finally calls wle(), which waits for the engine   *)
(* to look idle, closes the queue and joins the workers.                   *)
(*                                                                         *)
(* threado() holds no lock from one call to the next: reading a future's   *)
(* state, setting one's own and each call of notifiAdd and notifiDrop are  *)
(* separate actions.  A generator's body is any body that keeps to the     *)
(* contract of IGeneratorT: it may launch generators, return a future it   *)
(* still needs, yield a value or finish.                                   *)
(***************************************************************************)
EXTENDS Integers, Sequences, FiniteSets, Functions

CONSTANTS Workers,   \* worker threads
          Gens,      \* generators bound to futures (IGenf)
          Notfs,     \* outside futures (INotf)
          None,      \* no future, no awaiter
          Main,      \* the thread that calls wle()
          Awaits,    \* Awaits[g]: the futures the body of g awaits
          Launches,  \* Launches[g]: the generators the body of g submits
          Roots,     \* generators submitted from outside
          Yields,    \* generators that also produce a value before their last one
          Drained,   \* wle() is called only after outside work has left the queue
          Rearms,    \* bound of the model: how often an outside future is reused
          MaxQueue   \* not used by the engine: the length of its queue is not limited

Futures == Gens \cup Notfs
Launchable == Roots \cup UNION {Launches[g] : g \in Gens}

\* The map has room for one awaiter per future, so one body awaits each future; a
\* generator that is launched is known to its awaiter only through that launch; one
\* that yields is driven by its awaiter alone.
ASSUME EngineAssumption ==
  /\ IsFiniteSet(Workers) /\ Workers # {}
  /\ Gens \cap Notfs = {}
  /\ None \notin Futures
  /\ Awaits \in [Gens -> SUBSET Futures]
  /\ Launches \in [Gens -> SUBSET Gens]
  /\ Roots \subseteq Gens
  /\ Yields \subseteq Gens \ Launchable
  /\ \A g \in Gens : g \notin Awaits[g]
  /\ \A g, h \in Gens : g # h => Awaits[g] \cap Awaits[h] = {}
  /\ Drained \in BOOLEAN
  /\ Rearms \in Nat

VARIABLES
  \* the work queue; task[w] is what pop() returned and threado() works on
  list, currentSize, popw, closed, asleep, woken, ended, task, cvIdle,
  \* the futures
  gstate,        \* gstate[g]: FutureState of a generator
  nstate,        \* nstate[n]: FutureState of an outside future
  done,          \* the generators that are done()
  val,           \* the generators whose produced value was not taken yet
  need,          \* need[g]: the futures whose result the body of g still needs
  awaited,       \* awaited[g]: the future the last resume of g returned
  yielded,       \* generators of Yields that have yielded their extra value
  \* the engine
  notifications, \* notifications[f]: the generator awaiting f, or None
  pc,            \* pc[w]: where worker w is in threado()
  awa,           \* awa[w]: the future resume() has just returned to worker w
  \* the outside
  launched,      \* generators that have been submitted
  unannounced,   \* outside futures completed or cancelled, notify() still to come
  rearms,        \* how often an outside future has been reused
  outside,       \* outside threads are still running
  wle,           \* where Main is in wle()
  dropped        \* history: generators thrown away by a cancellation

queueVars == <<list, currentSize, popw, closed, asleep, woken, ended, cvIdle>>
genVars == <<gstate, done, val, need, awaited, yielded>>
outsideVars == <<launched, unannounced, rearms, outside>>
workerVars == <<task, pc, awa>>
vars == <<queueVars, workerVars, genVars, nstate, notifications, outsideVars, wle, dropped>>

Q == INSTANCE ThreadSafeQueue
  WITH Poppers <- Workers, Pushers <- Workers \cup {Main}, Observers <- {Main},
       Items <- Futures, NoItem <- None, ThresIdle <- Cardinality(Workers),
       MaxLen <- MaxQueue, held <- task

FutureState == {"Suspended", "Queued", "Running", "Awaiting", "Completed", "Cancelled"}

StateOf(f) == IF f \in Gens THEN gstate[f] ELSE nstate[f]

Init ==
  /\ Q!QInit
  /\ gstate = [g \in Gens |-> "Suspended"]
  /\ nstate = [n \in Notfs |-> "Running"]
  /\ done = {}
  /\ val = {}
  /\ need = Awaits
  /\ awaited = [g \in Gens |-> None]
  /\ yielded = {}
  /\ notifications = [f \in Futures |-> None]
  /\ pc = [w \in Workers |-> "pop"]
  /\ awa = [w \in Workers |-> None]
  /\ launched = {}
  /\ unannounced = {}
  /\ rearms = 0
  /\ outside = TRUE
  /\ wle = "off"
  /\ dropped = {}
------------------------------------------------------------------------------
\* wle() holds notificationsLock from the test to the wait.
NotificationsFree == wle \notin {"test", "wait"}

GoTo(w, label) == pc' = [pc EXCEPT ![w] = label]

\* notifiAdd(k, v)
NotifiAdd(k, v) ==
  /\ NotificationsFree
  /\ notifications' = [notifications EXCEPT ![k] = v]

\* notifiDrop(k), for a k that has an awaiter; the last one out tells wle().
NotifiDrop(k) ==
  /\ NotificationsFree
  /\ notifications' = [notifications EXCEPT ![k] = None]
  /\ cvIdle' = IF \A f \in Futures : notifications'[f] = None THEN {} ELSE cvIdle
  /\ UNCHANGED <<list, currentSize, popw, closed, asleep, woken, ended>>

\* execute(g): the state is set before the push, and nobody looks in between.
Execute(g) ==
  /\ gstate' = [gstate EXCEPT ![g] = "Queued"]
  /\ Q!Push(g)
  /\ launched' = launched \cup {g}
------------------------------------------------------------------------------
\* threadwork(): pop() answers a future, sleeps, or ends the worker.
Pop(w) ==
  /\ pc[w] = "pop"
  /\ Q!PopBegin(w) \/ Q!PopResume(w)
  /\ IF w \in Q!Inside' \cup ended' THEN UNCHANGED pc ELSE GoTo(w, "threado")
  /\ UNCHANGED <<awa, genVars, nstate, notifications, outsideVars, wle, dropped>>

PopSpurious(w) ==
  /\ Q!PopSpurious(w)
  /\ UNCHANGED <<awa, genVars, nstate, notifications, pc, outsideVars, wle, dropped>>

\* Mutant: a notification is taken at its word, the state of its future is not tested.
ThreadoTrustsNotification(w) ==
  /\ pc[w] = "threado"
  /\ LET f == task[w] IN
     GoTo(w, CASE StateOf(f) = "Cancelled" -> "nuke"
               [] f \in Notfs \/ StateOf(f) = "Completed" -> "proceed"
               [] StateOf(f) = "Awaiting" -> "pop"
               [] OTHER -> "resume")
  /\ UNCHANGED <<queueVars, task, awa, genVars, nstate, notifications, outsideVars, wle,
                 dropped>>

\* Mutant: a completed future falls through to the visit, which does nothing with it.
ThreadoIgnoresCompleted(w) ==
  /\ pc[w] = "threado"
  /\ LET f == task[w] IN
     GoTo(w, CASE StateOf(f) = "Cancelled" -> "nuke"
               [] StateOf(f) \in {"Awaiting", "Completed"} -> "pop"
               [] OTHER -> IF f \in Gens THEN "resume" ELSE "pop")
  /\ UNCHANGED <<queueVars, task, awa, genVars, nstate, notifications, outsideVars, wle,
                 dropped>>

\* The tests at the top of threado(): Cancelled, Completed, > Running, and the visit.
Threado(w) ==
  /\ pc[w] = "threado"
  /\ LET f == task[w] IN
     GoTo(w, CASE StateOf(f) = "Cancelled" -> "nuke"
               [] StateOf(f) = "Completed" -> "proceed"
               [] StateOf(f) = "Awaiting" -> "pop"
               [] OTHER -> IF f \in Gens THEN "resume" ELSE "pop")
  /\ UNCHANGED <<queueVars, task, awa, genVars, nstate, notifications, outsideVars, wle,
                 dropped>>

\* One round of `while(auto naut = notifiDrop(task)) task = *naut`.
Nuke(w) ==
  /\ pc[w] = "nuke"
  /\ \/ /\ notifications[task[w]] = None
        /\ NotificationsFree
        /\ GoTo(w, "pop")
        /\ UNCHANGED <<queueVars, task, notifications, dropped>>
     \/ /\ notifications[task[w]] # None
        /\ NotifiDrop(task[w])
        /\ task' = [task EXCEPT ![w] = notifications[task[w]]]
        /\ dropped' = dropped \cup {notifications[task[w]]}
        /\ UNCHANGED pc
  /\ UNCHANGED <<awa, genVars, nstate, outsideVars, wle>>

\* `if(auto naut = notifiDrop(task)) task = *naut; else return`: the awaiter, if there
\* is one, is resumed at once by this worker.
Proceed(w) ==
  /\ pc[w] = "proceed"
  /\ \/ /\ notifications[task[w]] = None
        /\ NotificationsFree
        /\ GoTo(w, "pop")
        /\ UNCHANGED <<queueVars, task, notifications>>
     \/ /\ notifications[task[w]] # None
        /\ NotifiDrop(task[w])
        /\ task' = [task EXCEPT ![w] = notifications[task[w]]]
        /\ GoTo(w, "resume")
  /\ UNCHANGED <<awa, genVars, nstate, outsideVars, wle, dropped>>

\* setState(Running) and the call of resume(): the body first takes the result of what
\* it awaited.  A generator that is not done may be asked for its next value later.
Resume(w) ==
  /\ pc[w] = "resume"
  /\ LET g == task[w] IN
     /\ gstate' = [gstate EXCEPT ![g] = "Running"]
     /\ val' = val \ {g, awaited[g]}
     /\ need' = IF awaited[g] \in Gens \ done
                THEN need ELSE [need EXCEPT ![g] = @ \ {awaited[g]}]
     /\ awaited' = [awaited EXCEPT ![g] = None]
  /\ GoTo(w, "body")
  /\ UNCHANGED <<queueVars, task, awa, done, yielded, nstate, notifications, outsideVars,
                 wle, dropped>>
------------------------------------------------------------------------------
\* The body submits another generator.
BodyLaunch(w, h) ==
  /\ pc[w] = "body"
  /\ h \in Launches[task[w]] \ launched
  /\ Execute(h)
  /\ UNCHANGED <<done, val, need, awaited, yielded, nstate, notifications, workerVars,
                 unannounced, rearms, outside, wle, dropped>>

\* Mutant: the reused future is set back to Suspended.
RearmSuspends(w, n) ==
  /\ pc[w] = "body"
  /\ outside /\ rearms < Rearms
  /\ n \in (Awaits[task[w]] \cap Notfs) \ need[task[w]]
  /\ nstate[n] = "Completed"
  /\ nstate' = [nstate EXCEPT ![n] = "Suspended"]
  /\ need' = [need EXCEPT ![task[w]] = @ \cup {n}]
  /\ rearms' = rearms + 1
  /\ UNCHANGED <<queueVars, workerVars, gstate, done, val, awaited, yielded,
                 notifications, launched, unannounced, outside, wle, dropped>>

\* The body reuses an outside future it has had a result of (OutsideFuture::running).
BodyRearm(w, n) ==
  /\ pc[w] = "body"
  /\ outside /\ rearms < Rearms
  /\ n \in (Awaits[task[w]] \cap Notfs) \ need[task[w]]
  /\ nstate[n] = "Completed"
  /\ nstate' = [nstate EXCEPT ![n] = "Running"]
  /\ need' = [need EXCEPT ![task[w]] = @ \cup {n}]
  /\ rearms' = rearms + 1
  /\ UNCHANGED <<queueVars, workerVars, gstate, done, val, awaited, yielded,
                 notifications, launched, unannounced, outside, wle, dropped>>

\* resume() returns a future.
BodyAwait(w, f) ==
  /\ pc[w] = "body"
  /\ f \in need[task[w]]
  /\ f \in Launchable => f \in launched
  /\ awaited' = [awaited EXCEPT ![task[w]] = f]
  /\ awa' = [awa EXCEPT ![w] = f]
  /\ GoTo(w, "returned")
  /\ UNCHANGED <<queueVars, task, gstate, done, val, need, yielded, nstate, notifications,
                 outsideVars, wle, dropped>>

\* Mutant: setState(Suspended) whether the generator is done or not.
FinishSuspends(w) ==
  /\ pc[w] = "body"
  /\ need[task[w]] = {}
  /\ Launches[task[w]] \subseteq launched
  /\ task[w] \in Yields => task[w] \in yielded
  /\ gstate' = [gstate EXCEPT ![task[w]] = "Suspended"]
  /\ done' = done \cup {task[w]}
  /\ val' = val \cup {task[w]}
  /\ GoTo(w, "proceed")
  /\ UNCHANGED <<queueVars, task, awa, need, awaited, yielded, nstate, notifications,
                 outsideVars, wle, dropped>>

\* resume() returns a value; setState(done ? Completed : Suspended).
BodyFinish(w) ==
  /\ pc[w] = "body"
  /\ need[task[w]] = {}
  /\ Launches[task[w]] \subseteq launched
  /\ task[w] \in Yields => task[w] \in yielded
  /\ gstate' = [gstate EXCEPT ![task[w]] = "Completed"]
  /\ done' = done \cup {task[w]}
  /\ val' = val \cup {task[w]}
  /\ GoTo(w, "proceed")
  /\ UNCHANGED <<queueVars, task, awa, need, awaited, yielded, nstate, notifications,
                 outsideVars, wle, dropped>>

BodyYield(w) ==
  /\ pc[w] = "body"
  /\ task[w] \in Yields \ yielded
  /\ gstate' = [gstate EXCEPT ![task[w]] = "Suspended"]
  /\ yielded' = yielded \cup {task[w]}
  /\ val' = val \cup {task[w]}
  /\ GoTo(w, "proceed")
  /\ UNCHANGED <<queueVars, task, awa, need, awaited, done, nstate, notifications,
                 outsideVars, wle, dropped>>

Body(w) ==
  \/ \E h \in Gens : BodyLaunch(w, h)
  \/ \E n \in Notfs : BodyRearm(w, n)
  \/ \E f \in Futures : BodyAwait(w, f)
  \/ BodyFinish(w)
  \/ BodyYield(w)
------------------------------------------------------------------------------
\* Mutant: the awaiter registers even on a future that is completed already.
ReturnedRegisters(w) ==
  /\ pc[w] = "returned"
  /\ LET s == StateOf(awa[w]) IN
     \/ /\ s = "Cancelled"
        /\ GoTo(w, "resume")
        /\ UNCHANGED gstate
     \/ /\ s # "Cancelled"
        /\ gstate' = [gstate EXCEPT ![task[w]] = "Awaiting"]
        /\ GoTo(w, IF s = "Suspended" THEN "descend" ELSE "register")
  /\ UNCHANGED <<queueVars, task, awa, done, val, need, awaited, yielded, nstate,
                 notifications, outsideVars, wle, dropped>>

\* Mutant: a queued or running generator is driven like a suspended one.
ReturnedDescends(w) ==
  /\ pc[w] = "returned"
  /\ LET s == StateOf(awa[w]) IN
     \/ /\ s \in {"Cancelled", "Completed"}
        /\ GoTo(w, "resume")
        /\ UNCHANGED gstate
     \/ /\ s \in {"Suspended", "Queued", "Awaiting", "Running"}
        /\ gstate' = [gstate EXCEPT ![task[w]] = "Awaiting"]
        /\ GoTo(w, IF awa[w] \in Gens THEN "descend" ELSE "register")
  /\ UNCHANGED <<queueVars, task, awa, done, val, need, awaited, yielded, nstate,
                 notifications, outsideVars, wle, dropped>>

\* `switch(awa->state())`: resume again, or become Awaiting and go to notifiAdd.
Returned(w) ==
  /\ pc[w] = "returned"
  /\ LET s == StateOf(awa[w]) IN
     \/ /\ s \in {"Cancelled", "Completed"}
        /\ GoTo(w, "resume")
        /\ UNCHANGED gstate
     \/ /\ s \in {"Suspended", "Queued", "Awaiting", "Running"}
        /\ gstate' = [gstate EXCEPT ![task[w]] = "Awaiting"]
        /\ GoTo(w, IF s = "Suspended" THEN "descend" ELSE "register")
  /\ UNCHANGED <<queueVars, task, awa, done, val, need, awaited, yielded, nstate,
                 notifications, outsideVars, wle, dropped>>

\* Mutant: `task = *gawa` is forgotten, the worker goes on with the awaiter.
DescendStays(w) ==
  /\ pc[w] = "descend"
  /\ NotifiAdd(awa[w], task[w])
  /\ GoTo(w, "resume")
  /\ UNCHANGED <<queueVars, task, awa, genVars, nstate, outsideVars, wle, dropped>>

\* A suspended future is a generator's; the worker of its awaiter drives it.
Descend(w) ==
  /\ pc[w] = "descend"
  /\ NotifiAdd(awa[w], task[w])
  /\ task' = [task EXCEPT ![w] = awa[w]]
  /\ GoTo(w, "resume")
  /\ UNCHANGED <<queueVars, awa, genVars, nstate, outsideVars, wle, dropped>>

Register(w) ==
  /\ pc[w] = "register"
  /\ NotifiAdd(awa[w], task[w])
  /\ GoTo(w, "pop")
  /\ UNCHANGED <<queueVars, task, awa, genVars, nstate, outsideVars, wle, dropped>>
------------------------------------------------------------------------------
\* An outside thread submits a generator.
Submit(g) ==
  /\ outside
  /\ g \in Roots \ launched
  /\ Execute(g)
  /\ UNCHANGED <<done, val, need, awaited, yielded, nstate, notifications, workerVars,
                 unannounced, rearms, outside, wle, dropped>>

\* An outside thread sets the state of its future ...
Settle(n, s) ==
  /\ outside
  /\ nstate[n] = "Running"
  /\ n \notin unannounced
  /\ nstate' = [nstate EXCEPT ![n] = s]
  /\ unannounced' = unannounced \cup {n}
  /\ UNCHANGED <<queueVars, workerVars, genVars, notifications, launched, rearms, outside,
                 wle, dropped>>

\* ... and then calls notify().
Notify(n) ==
  /\ n \in unannounced
  /\ Q!Push(n)
  /\ unannounced' = unannounced \ {n}
  /\ UNCHANGED <<genVars, nstate, notifications, workerVars, launched, rearms, outside,
                 wle, dropped>>

\* The outside threads have been joined: every outside future has been settled and
\* announced, everything that was to be submitted has been.  In main.cpp they are joined
\* by wioe(), which waits for the tickets that the tasks of the outside hold, so nothing
\* of theirs is in the queue any more; a caller with no such tickets has Drained = FALSE.
OutsideEnds ==
  /\ outside
  /\ unannounced = {}
  /\ \A n \in Notfs : nstate[n] # "Running"
  /\ Roots \subseteq launched
  /\ Drained => \A i \in DOMAIN list : list[i] \notin Notfs \cup Roots
  /\ outside' = FALSE
  /\ UNCHANGED <<queueVars, workerVars, genVars, nstate, notifications, launched,
                 unannounced, rearms, wle, dropped>>

WleGoes(from, to) ==
  /\ wle = from
  /\ wle' = to
  /\ UNCHANGED <<workerVars, genVars, nstate, notifications, outsideVars, dropped>>

\* main() calls wle() once the outside is quiet.
WleCall ==
  /\ ~outside
  /\ WleGoes("off", "lock")
  /\ UNCHANGED queueVars

\* std::unique_lock lock(notificationsLock)
WleLock == WleGoes("lock", "test") /\ UNCHANGED queueVars

\* Mutant: the map of awaiters is not looked at.
WleBusyIgnoresMap == popw < Cardinality(Workers)

\* `work.currentIdle() < work.thresIdle || !notifications.empty()`
WleBusy == popw < Cardinality(Workers) \/ \E f \in Futures : notifications[f] # None
WleTest ==
  /\ \/ WleBusy /\ WleGoes("test", "wait")
     \/ ~WleBusy /\ WleGoes("test", "close")
  /\ UNCHANGED queueVars

\* condWLE.wait(lock)
WleWait == WleGoes("wait", "blocked") /\ Q!IdleBlock(Main)

WleWake == Main \notin cvIdle /\ WleGoes("blocked", "lock") /\ UNCHANGED queueVars

WleSpurious ==
  /\ WleGoes("blocked", "lock")
  /\ cvIdle = {Main} /\ cvIdle' = {}
  /\ UNCHANGED <<list, currentSize, popw, closed, asleep, woken, ended>>

WleClose == WleGoes("close", "join") /\ Q!Close

WleJoin == ended = Workers /\ WleGoes("join", "returned") /\ UNCHANGED queueVars

Wle == \/ WleCall \/ WleLock \/ WleTest \/ WleWait \/ WleWake \/ WleSpurious
       \/ WleClose \/ WleJoin
------------------------------------------------------------------------------
Worker(w) ==
  \/ Pop(w) \/ Threado(w) \/ Nuke(w) \/ Proceed(w) \/ Resume(w) \/ Body(w)
  \/ Returned(w) \/ Descend(w) \/ Register(w)

Outside ==
  \/ \E g \in Gens : Submit(g)
  \/ \E n \in Notfs, s \in {"Completed", "Cancelled"} : Settle(n, s)
  \/ \E n \in Notfs : Notify(n)
  \/ OutsideEnds

Next ==
  \/ \E w \in Workers : Worker(w) \/ PopSpurious(w)
  \/ Outside
  \/ Wle

SafeSpec == Init /\ [][Next]_vars

\* Threads that can run do run, bodies return, the outside settles its futures and ends.
\* A worker that competes with wle() for notificationsLock gets it in the end, hence the
\* strong fairness.  Nothing is assumed of spurious wake-ups.
Fairness ==
  /\ \A w \in Workers : SF_vars(Worker(w))
  /\ \A g \in Gens : WF_vars(Submit(g))
  /\ \A n \in Notfs : WF_vars(Settle(n, "Completed") \/ Settle(n, "Cancelled"))
                      /\ WF_vars(Notify(n))
  /\ WF_vars(OutsideEnds)
  /\ WF_vars(WleCall \/ WleLock \/ WleTest \/ WleWait \/ WleWake \/ WleClose \/ WleJoin)

Spec == SafeSpec /\ Fairness
------------------------------------------------------------------------------
TypeOK ==
  /\ list \in Seq(Futures)
  /\ currentSize \in Int /\ popw \in Int
  /\ closed \in BOOLEAN
  /\ asleep \subseteq Workers /\ woken \subseteq Workers /\ ended \subseteq Workers
  /\ cvIdle \subseteq {Main}
  /\ task \in [Workers -> Futures \cup {None}]
  /\ awa \in [Workers -> Futures \cup {None}]
  /\ gstate \in [Gens -> FutureState]
  /\ nstate \in [Notfs -> {"Running", "Completed", "Cancelled"}]
  /\ done \subseteq Gens /\ val \subseteq Gens /\ yielded \subseteq Yields
  /\ need \in [Gens -> SUBSET Futures]
  /\ awaited \in [Gens -> Futures \cup {None}]
  /\ notifications \in [Futures -> Gens \cup {None}]
  /\ pc \in [Workers -> {"pop", "threado", "nuke", "proceed", "resume", "body",
                         "returned", "descend", "register"}]
  /\ launched \subseteq Gens
  /\ unannounced \subseteq Notfs
  /\ rearms \in 0 .. Rearms
  /\ outside \in BOOLEAN
  /\ wle \in {"off", "lock", "test", "wait", "blocked", "close", "join", "returned"}
  /\ dropped \subseteq Gens

Queued == {list[i] : i \in DOMAIN list}

\* Worker w is at one of `labels` with future f.
HasAt(f, labels) == \E w \in Workers : task[w] = f /\ pc[w] \in labels

\* Somebody still has f and will come to the awaiter of f when f completes.
OnItsWay(f) ==
  \/ /\ f \in Notfs
     /\ \/ nstate[f] = "Running"
        \/ f \in unannounced \cup Queued
        \/ HasAt(f, {"threado", "nuke", "proceed"})
  \/ /\ f \in Gens
     /\ \/ gstate[f] = "Queued" /\ (f \in Queued \/ HasAt(f, {"threado"}))
        \/ gstate[f] = "Awaiting" /\ \E k \in Futures : notifications[k] = f
        \/ HasAt(f, {"resume", "body", "returned", "descend", "register", "proceed", "nuke"})
        \/ f \in dropped

\* No wake-up is lost: a future that has an awaiter in the map is not over without
\* somebody being on the way to that awaiter.  The state is read before notifiAdd and
\* the awaiter looked up after the state is set, so this is a matter of who else runs.
NoLostWakeup == \A f \in Futures : notifications[f] # None => OnItsWay(f)

\* f has something for its awaiter (a cancelled outside future counts: its awaiter is
\* resumed when it asks after the cancellation).
Settled(f) == IF f \in Gens THEN f \in val ELSE nstate[f] # "Running"

\* A generator that waits for a future is resumed only when that future has a result,
\* never on an old notification, and never while a value of its own is still to be taken.
ResumedWithResult ==
  \A w \in Workers : pc[w] = "resume" =>
    /\ awaited[task[w]] # None => Settled(awaited[task[w]])
    /\ task[w] \notin val

\* agen.hpp:17: resume is not called again once the generator is done; and no two
\* workers are inside the same generator.
ResumedAlone ==
  \A w \in Workers : pc[w] \in {"resume", "body", "returned"} =>
    /\ task[w] \in Gens \ (done \cup dropped)
    /\ \A v \in Workers \ {w} : pc[v] \in {"resume", "body", "returned"} => task[v] # task[w]

\* wle() closes the queue only on an engine that has finished what it had begun: no
\* generator is running, none waits, and what is still queued has not been started.
WleAbandonsNothing ==
  wle \in {"close", "join", "returned"} =>
    /\ \A g \in Gens \ dropped : gstate[g] \notin {"Running", "Awaiting"}
    /\ \A f \in Queued : f \in Notfs \/ (f \in Roots /\ gstate[f] = "Queued")

\* Every generator that has been submitted finishes, unless a cancellation took it or
\* something it awaits away, or wle() closed the queue before it was started.
Chain[i \in 0 .. Cardinality(Gens)] ==
  IF i = 0 THEN dropped
  ELSE Chain[i - 1] \cup {g \in Gens : awaited[g] \in Chain[i - 1]}
Lost == Chain[Cardinality(Gens)] \cup IF closed THEN Queued ELSE {}
SubmittedFinishes == \A g \in Gens : g \in launched ~> g \in done \cup Lost

\* The engine as the generators see it.
AbstractStage(g) ==
  IF g \in dropped THEN "gone"
  ELSE IF g \in done THEN "finished"
  ELSE IF awaited[g] # None THEN "waiting"
  ELSE CASE gstate[g] = "Running" -> "running"
         [] gstate[g] = "Queued" -> "ready"
         [] OTHER -> "idle"
AbstractSignal(n) ==
  CASE nstate[n] = "Running" -> "open"
    [] nstate[n] = "Completed" -> "set"
    [] nstate[n] = "Cancelled" -> "cancelled"
Graph == INSTANCE AwaitGraph
  WITH Processes <- Gens, Signals <- Notfs, Nobody <- None,
       stage <- [g \in Gens |-> AbstractStage(g)], on <- awaited, ready <- val,
       signal <- [n \in Notfs |-> AbstractSignal(n)]
ImplementsAwaitGraph == Graph!AGSpec
==============================================================================
