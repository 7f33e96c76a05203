----------------------- MODULE YengineOneWorker_proofs ------------------------
(***************************************************************************)
(* More about an engine with one worker, on top of the invariant of        *)
(* Yengine_proofs, which says where everything is: what a generator may    *)
(* count on when it is resumed (what is done, dropped, produced and still  *)
(* needed), and in what state wle() closes the engine.                     *)
(***************************************************************************)
EXTENDS Yengine_proofs, FiniteSetTheorems

\* Done is Completed.
DoneInv ==
  \A g \in Gens : /\ gstate[g] # "Cancelled"
                  /\ gstate[g] = "Completed" <=> g \in done

\* What a cancellation has thrown away stays away.
DroppedInv ==
  \A g \in dropped :
    /\ gstate[g] = "Awaiting"
    /\ \A k \in Futures : notifications[k] # g
    /\ \A w \in Workers : pc[w] \in Busy => task[w] # g

\* Who has returned a future waits for it, one of its own, until the next resume.
AwaitedInv ==
  \A g \in Gens :
    /\ awaited[g] # None => awaited[g] \in Awaits[g]
    /\ gstate[g] \in {"Suspended", "Queued"} => awaited[g] = None

\* A generator that is not launched runs on behalf of its awaiter, which is in the map.
DrivenInv ==
  \A g \in Gens \ Launchable :
    /\ gstate[g] # "Queued"
    /\ gstate[g] \in {"Running", "Awaiting"} \/ HasAt(g, Busy) =>
         g \in dropped \/ notifications[g] # None

\* A value that is not the last is on its way to who awaits it.
Delivered(g) ==
  \E w \in Workers : \/ pc[w] = "proceed" /\ task[w] = g /\ notifications[g] # None
                     \/ pc[w] = "resume" /\ awaited[task[w]] = g
ValueInv ==
  \A g \in val : /\ g \in Launchable => g \in launched
                 /\ gstate[g] \in {"Suspended", "Completed"}
                 /\ gstate[g] = "Suspended" => Delivered(g)

\* A last value that is needed has not been taken.
NeededInv == \A h \in Gens : \A g \in need[h] \cap done : g \in val

\* What the worker has in hand.
HandInv ==
  \A w \in Workers :
    /\ pc[w] \in Busy => task[w] \notin done
    /\ pc[w] = "body" => gstate[task[w]] = "Running" /\ awaited[task[w]] = None
    /\ pc[w] = "returned" => awa[w] \in need[task[w]]
    /\ pc[w] = "proceed" => Settled(task[w])
    /\ pc[w] = "nuke" /\ task[w] \in Notfs => nstate[task[w]] = "Cancelled"
    /\ pc[w] = "resume" => IF awaited[task[w]] = None
                          THEN gstate[task[w]] \in {"Suspended", "Queued"}
                          ELSE Settled(awaited[task[w]])

ResumeInv == DoneInv /\ DroppedInv /\ AwaitedInv /\ DrivenInv /\ ValueInv /\ NeededInv /\ HandInv
------------------------------------------------------------------------------

\* One lemma per action: it keeps every part of ResumeInv.
LEMMA PopResumes ==
  ASSUME SingleWorker, WakeupInv, WakeupInv', ResumeInv, NEW w \in Workers, Pop(w)
  PROVE  ResumeInv'
<1> USE EngineAssumption DEF WakeupInv, TypeInv, TypeOK, HeldTypes, Busy, ResumeInv, queueVars,
        workerVars, genVars, outsideVars
<1>0. /\ UNCHANGED <<awa, gstate, done, val, need, awaited, nstate, notifications, launched, dropped>>
      /\ pc[w] = "pop"
      /\ \/ UNCHANGED <<pc, task>>
         \/ \E f \in Futures : /\ task' = [task EXCEPT ![w] = f]
                               /\ pc' = [pc EXCEPT ![w] = "threado"]
  BY PopTypes DEF Pop, GoTo
<1>1. DoneInv'
  BY <1>0 DEF SingleWorker, DoneInv, HandInv, FreshInv, HeldInv
<1>2. DroppedInv'
  BY <1>0 DEF SingleWorker, DroppedInv, HeldInv, MapInv, FreshInv
<1>3. AwaitedInv'
  BY <1>0 DEF SingleWorker, AwaitedInv, HandInv, HeldInv, NeedInv, FreshInv, MapInv
<1>4. DrivenInv'
  BY <1>0 DEF SingleWorker, DrivenInv, HasAt, DroppedInv, HeldInv, MapInv
<1>5. ValueInv'
  BY <1>0 DEF SingleWorker, ValueInv, Delivered, HandInv, DoneInv, AwaitedInv, DrivenInv, HeldInv, MapInv, FreshInv, DroppedInv, HasAt
<1>6. NeededInv'
  BY <1>0 DEF SingleWorker, NeededInv, HandInv, DoneInv, AwaitedInv, NeedInv, Futures
<1>7. HandInv'
  BY <1>0 DEF SingleWorker, HandInv, Settled, HeldInv, QueuedInv, FreshInv, DoneInv, AwaitedInv, MapInv, ValueInv, Delivered, NeededInv, Futures
<1> QED BY <1>1, <1>2, <1>3, <1>4, <1>5, <1>6, <1>7

LEMMA ThreadoResumes ==
  ASSUME SingleWorker, WakeupInv, WakeupInv', ResumeInv, NEW w \in Workers, Threado(w)
  PROVE  ResumeInv'
<1> USE EngineAssumption DEF WakeupInv, TypeInv, TypeOK, HeldTypes, Busy, ResumeInv, queueVars,
        workerVars, genVars, outsideVars
<1>1. DoneInv'
  BY DEF Threado, GoTo, StateOf, SingleWorker, DoneInv, HandInv, FreshInv, HeldInv
<1>2. DroppedInv'
  BY DEF Threado, GoTo, StateOf, SingleWorker, DroppedInv, HeldInv, MapInv, FreshInv
<1>3. AwaitedInv'
  BY DEF Threado, GoTo, StateOf, SingleWorker, AwaitedInv, HandInv, HeldInv, NeedInv, FreshInv, MapInv
<1>4. DrivenInv'
  BY DEF Threado, GoTo, StateOf, SingleWorker, DrivenInv, HasAt, DroppedInv, HeldInv, MapInv
<1>5. ValueInv'
  BY DEF Threado, GoTo, StateOf, SingleWorker, ValueInv, Delivered, HandInv, DoneInv, AwaitedInv, DrivenInv, HeldInv, MapInv, FreshInv, DroppedInv, HasAt
<1>6. NeededInv'
  BY DEF Threado, GoTo, StateOf, SingleWorker, NeededInv, HandInv, DoneInv, AwaitedInv, NeedInv, Futures
<1>7. HandInv'
  BY DEF Threado, GoTo, StateOf, SingleWorker, HandInv, Settled, HeldInv, QueuedInv, FreshInv, DoneInv, AwaitedInv, MapInv, ValueInv, Delivered, NeededInv, Futures
<1> QED BY <1>1, <1>2, <1>3, <1>4, <1>5, <1>6, <1>7

LEMMA NukeResumes ==
  ASSUME SingleWorker, WakeupInv, WakeupInv', ResumeInv, NEW w \in Workers, Nuke(w)
  PROVE  ResumeInv'
<1> USE EngineAssumption DEF WakeupInv, TypeInv, TypeOK, HeldTypes, Busy, ResumeInv, queueVars,
        workerVars, genVars, outsideVars
<1>1. DoneInv'
  BY DEF Nuke, GoTo, NotifiDrop, SingleWorker, DoneInv, HandInv, FreshInv, HeldInv
<1>2. DroppedInv'
  <2>1. CASE notifications[task[w]] = None
    BY <2>1 DEF Nuke, GoTo, SingleWorker, DroppedInv
  <2>2. CASE notifications[task[w]] # None
    <3>1. /\ task[w] \in Futures /\ notifications[task[w]] \in Gens
          /\ dropped' = dropped \cup {notifications[task[w]]}
          /\ notifications' = [notifications EXCEPT ![task[w]] = None]
          /\ UNCHANGED <<gstate, pc>> /\ pc[w] = "nuke"
      BY <2>2 DEF Nuke, NotifiDrop
    <3>2. \A k \in Futures : notifications'[k] # notifications[task[w]]
      BY <2>2, <3>1 DEF MapInv
    <3>3. \A g \in dropped, k \in Futures : notifications'[k] # g
      BY <3>1 DEF DroppedInv, Futures
    <3>4. \A v \in Workers : pc'[v] \notin Busy
      BY <3>1 DEF SingleWorker
    <3> QED BY <2>2, <3>1, <3>2, <3>3, <3>4 DEF DroppedInv, MapInv
  <2> QED BY <2>1, <2>2
<1>3. AwaitedInv'
  BY DEF Nuke, GoTo, NotifiDrop, SingleWorker, AwaitedInv, HandInv, HeldInv, NeedInv, FreshInv, MapInv
<1>4. DrivenInv'
  <2>1. /\ UNCHANGED gstate /\ dropped \subseteq dropped'
        /\ pc[w] = "nuke" /\ pc'[w] \in {"nuke", "pop"}
    BY DEF Nuke, GoTo
  <2>2. \A g \in Gens \ {task[w]} : notifications'[g] = notifications[g]
    BY DEF Nuke, NotifiDrop, Futures
  <2>3. task[w] \in Gens => task[w] \in dropped
    BY <2>1 DEF HeldInv
  <2>4. \A g \in Gens : ~HasAt(g, Busy)'
    BY <2>1 DEF HasAt, SingleWorker
  <2> QED BY <2>1, <2>2, <2>3, <2>4 DEF DrivenInv
<1>5. ValueInv'
  BY DEF Nuke, GoTo, NotifiDrop, SingleWorker, ValueInv, Delivered, HandInv, DoneInv, AwaitedInv, DrivenInv, HeldInv, MapInv, FreshInv, DroppedInv, HasAt
<1>6. NeededInv'
  BY DEF Nuke, GoTo, NotifiDrop, SingleWorker, NeededInv, HandInv, DoneInv, AwaitedInv, NeedInv, Futures
<1>7. HandInv'
  BY DEF Nuke, GoTo, NotifiDrop, SingleWorker, HandInv, Settled, HeldInv, QueuedInv, FreshInv, DoneInv, AwaitedInv, MapInv, ValueInv, Delivered, NeededInv, Futures
<1> QED BY <1>1, <1>2, <1>3, <1>4, <1>5, <1>6, <1>7

LEMMA ProceedResumes ==
  ASSUME SingleWorker, WakeupInv, WakeupInv', ResumeInv, NEW w \in Workers, Proceed(w)
  PROVE  ResumeInv'
<1> USE EngineAssumption DEF WakeupInv, TypeInv, TypeOK, HeldTypes, Busy, ResumeInv, queueVars,
        workerVars, genVars, outsideVars
<1>1. DoneInv'
  BY DEF Proceed, GoTo, NotifiDrop, SingleWorker, DoneInv, HandInv, FreshInv, HeldInv
<1>2. DroppedInv'
  <2>1. CASE notifications[task[w]] = None
    BY <2>1 DEF Proceed, GoTo, SingleWorker, DroppedInv
  <2>2. CASE notifications[task[w]] # None
    <3>1. /\ task[w] \in Futures /\ notifications[task[w]] \in Gens
          /\ task'[w] = notifications[task[w]]
          /\ notifications' = [notifications EXCEPT ![task[w]] = None]
          /\ UNCHANGED <<gstate, dropped>>
      BY <2>2 DEF Proceed, NotifiDrop
    <3>2. notifications[task[w]] \notin dropped
      BY <3>1 DEF DroppedInv, Futures
    <3>3. \A g \in dropped, k \in Futures : notifications'[k] # g
      BY <3>1 DEF DroppedInv, Futures
    <3> QED BY <3>1, <3>2, <3>3 DEF DroppedInv, SingleWorker
  <2> QED BY <2>1, <2>2
<1>3. AwaitedInv'
  BY DEF Proceed, GoTo, NotifiDrop, SingleWorker, AwaitedInv, HandInv, HeldInv, NeedInv, FreshInv, MapInv
<1>4. DrivenInv'
  <2>1. UNCHANGED <<gstate, dropped>> /\ pc[w] = "proceed" /\ task[w] \in Futures
    BY DEF Proceed
  <2>2. \A g \in Gens \ {task[w]} : notifications'[g] = notifications[g]
    BY DEF Proceed, NotifiDrop, Futures
  <2>3. task[w] \in Gens => gstate[task[w]] \in {"Suspended", "Completed"}
    BY <2>1 DEF HandInv, Settled, ValueInv
  <2>4. \A g \in Gens : HasAt(g, Busy)' => g # task[w] /\ gstate[g] = "Awaiting"
    <3>1. CASE notifications[task[w]] = None
      BY <2>1, <3>1 DEF Proceed, GoTo, HasAt, SingleWorker
    <3>2. CASE notifications[task[w]] # None
      <4>1. task'[w] = notifications[task[w]] /\ gstate[task'[w]] = "Awaiting"
        BY <2>1, <3>2 DEF Proceed, MapInv
      <4> QED BY <2>1, <2>3, <4>1 DEF HasAt, SingleWorker
    <3> QED BY <3>1, <3>2
  <2> QED BY <2>1, <2>2, <2>3, <2>4 DEF DrivenInv
<1>5. ValueInv'
  BY DEF Proceed, GoTo, NotifiDrop, SingleWorker, ValueInv, Delivered, HandInv, DoneInv, AwaitedInv, DrivenInv, HeldInv, MapInv, FreshInv, DroppedInv, HasAt
<1>6. NeededInv'
  BY DEF Proceed, GoTo, NotifiDrop, SingleWorker, NeededInv, HandInv, DoneInv, AwaitedInv, NeedInv, Futures
<1>7. HandInv'
  BY DEF Proceed, GoTo, NotifiDrop, SingleWorker, HandInv, Settled, HeldInv, QueuedInv, FreshInv, DoneInv, AwaitedInv, MapInv, ValueInv, Delivered, NeededInv, Futures
<1> QED BY <1>1, <1>2, <1>3, <1>4, <1>5, <1>6, <1>7

LEMMA ResumeResumes ==
  ASSUME SingleWorker, WakeupInv, WakeupInv', ResumeInv, NEW w \in Workers, Resume(w)
  PROVE  ResumeInv'
<1> USE EngineAssumption DEF WakeupInv, TypeInv, TypeOK, HeldTypes, Busy, ResumeInv, queueVars,
        workerVars, genVars, outsideVars
<1>1. DoneInv'
  BY DEF Resume, GoTo, SingleWorker, DoneInv, HandInv, FreshInv, HeldInv
<1>2. DroppedInv'
  BY DEF Resume, GoTo, SingleWorker, DroppedInv, HeldInv, MapInv, FreshInv
<1>3. AwaitedInv'
  BY DEF Resume, GoTo, SingleWorker, AwaitedInv, HandInv, HeldInv, NeedInv, FreshInv, MapInv
<1>4. DrivenInv'
  BY DEF Resume, GoTo, SingleWorker, DrivenInv, HasAt, DroppedInv, HeldInv, MapInv
<1>5. ValueInv'
  BY DEF Resume, GoTo, SingleWorker, ValueInv, Delivered, HandInv, DoneInv, AwaitedInv, DrivenInv, HeldInv, MapInv, FreshInv, DroppedInv, HasAt
<1>6. NeededInv'
  BY DEF Resume, GoTo, SingleWorker, NeededInv, HandInv, DoneInv, AwaitedInv, NeedInv, Futures
<1>7. HandInv'
  BY DEF Resume, GoTo, SingleWorker, HandInv, Settled, HeldInv, QueuedInv, FreshInv, DoneInv, AwaitedInv, MapInv, ValueInv, Delivered, NeededInv, Futures
<1> QED BY <1>1, <1>2, <1>3, <1>4, <1>5, <1>6, <1>7

LEMMA BodyLaunchResumes ==
  ASSUME SingleWorker, WakeupInv, WakeupInv', ResumeInv, NEW w \in Workers, NEW h \in Gens, BodyLaunch(w, h)
  PROVE  ResumeInv'
<1> USE EngineAssumption DEF WakeupInv, TypeInv, TypeOK, HeldTypes, Busy, ResumeInv, queueVars,
        workerVars, genVars, outsideVars
<1>1. DoneInv'
  BY DEF BodyLaunch, Execute, Launchable, SingleWorker, DoneInv, HandInv, FreshInv, HeldInv
<1>2. DroppedInv'
  BY DEF BodyLaunch, Execute, Launchable, SingleWorker, DroppedInv, HeldInv, MapInv, FreshInv
<1>3. AwaitedInv'
  BY DEF BodyLaunch, Execute, Launchable, SingleWorker, AwaitedInv, HandInv, HeldInv, NeedInv, FreshInv, MapInv
<1>4. DrivenInv'
  BY DEF BodyLaunch, Execute, Launchable, SingleWorker, DrivenInv, HasAt, DroppedInv, HeldInv, MapInv
<1>5. ValueInv'
  BY DEF BodyLaunch, Execute, Launchable, SingleWorker, ValueInv, Delivered, HandInv, DoneInv, AwaitedInv, DrivenInv, HeldInv, MapInv, FreshInv, DroppedInv, HasAt
<1>6. NeededInv'
  BY DEF BodyLaunch, Execute, Launchable, SingleWorker, NeededInv, HandInv, DoneInv, AwaitedInv, NeedInv, Futures
<1>7. HandInv'
  BY DEF BodyLaunch, Execute, Launchable, SingleWorker, HandInv, Settled, HeldInv, QueuedInv, FreshInv, DoneInv, AwaitedInv, MapInv, ValueInv, Delivered, NeededInv, Futures
<1> QED BY <1>1, <1>2, <1>3, <1>4, <1>5, <1>6, <1>7

LEMMA BodyRearmResumes ==
  ASSUME SingleWorker, WakeupInv, WakeupInv', ResumeInv, NEW w \in Workers, NEW n \in Notfs, BodyRearm(w, n)
  PROVE  ResumeInv'
<1> USE EngineAssumption DEF WakeupInv, TypeInv, TypeOK, HeldTypes, Busy, ResumeInv, queueVars,
        workerVars, genVars, outsideVars
<1>1. DoneInv'
  BY DEF BodyRearm, SingleWorker, DoneInv, HandInv, FreshInv, HeldInv
<1>2. DroppedInv'
  BY DEF BodyRearm, SingleWorker, DroppedInv, HeldInv, MapInv, FreshInv
<1>3. AwaitedInv'
  BY DEF BodyRearm, SingleWorker, AwaitedInv, HandInv, HeldInv, NeedInv, FreshInv, MapInv
<1>4. DrivenInv'
  BY DEF BodyRearm, SingleWorker, DrivenInv, HasAt, DroppedInv, HeldInv, MapInv
<1>5. ValueInv'
  BY DEF BodyRearm, SingleWorker, ValueInv, Delivered, HandInv, DoneInv, AwaitedInv, DrivenInv, HeldInv, MapInv, FreshInv, DroppedInv, HasAt
<1>6. NeededInv'
  BY DEF BodyRearm, SingleWorker, NeededInv, HandInv, DoneInv, AwaitedInv, NeedInv, Futures
<1>7. HandInv'
  BY DEF BodyRearm, SingleWorker, HandInv, Settled, HeldInv, QueuedInv, FreshInv, DoneInv, AwaitedInv, MapInv, ValueInv, Delivered, NeededInv, Futures
<1> QED BY <1>1, <1>2, <1>3, <1>4, <1>5, <1>6, <1>7

LEMMA BodyAwaitResumes ==
  ASSUME SingleWorker, WakeupInv, WakeupInv', ResumeInv, NEW w \in Workers, NEW f \in Futures, BodyAwait(w, f)
  PROVE  ResumeInv'
<1> USE EngineAssumption DEF WakeupInv, TypeInv, TypeOK, HeldTypes, Busy, ResumeInv, queueVars,
        workerVars, genVars, outsideVars
<1>1. DoneInv'
  BY DEF BodyAwait, GoTo, SingleWorker, DoneInv, HandInv, FreshInv, HeldInv
<1>2. DroppedInv'
  BY DEF BodyAwait, GoTo, SingleWorker, DroppedInv, HeldInv, MapInv, FreshInv
<1>3. AwaitedInv'
  <2>1. /\ task[w] \in Gens /\ f \in Awaits[task[w]] /\ pc[w] = "body"
        /\ awaited' = [awaited EXCEPT ![task[w]] = f] /\ UNCHANGED gstate
    BY DEF BodyAwait, NeedInv
  <2>2. gstate[task[w]] = "Running"
    BY <2>1 DEF HandInv
  <2> QED BY <2>1, <2>2 DEF AwaitedInv
<1>4. DrivenInv'
  BY DEF BodyAwait, GoTo, SingleWorker, DrivenInv, HasAt, DroppedInv, HeldInv, MapInv
<1>5. ValueInv'
  BY DEF BodyAwait, GoTo, SingleWorker, ValueInv, Delivered, HandInv, DoneInv, AwaitedInv, DrivenInv, HeldInv, MapInv, FreshInv, DroppedInv, HasAt
<1>6. NeededInv'
  BY DEF BodyAwait, GoTo, SingleWorker, NeededInv, HandInv, DoneInv, AwaitedInv, NeedInv, Futures
<1>7. HandInv'
  BY DEF BodyAwait, GoTo, SingleWorker, HandInv, Settled, HeldInv, QueuedInv, FreshInv, DoneInv, AwaitedInv, MapInv, ValueInv, Delivered, NeededInv, Futures
<1> QED BY <1>1, <1>2, <1>3, <1>4, <1>5, <1>6, <1>7

LEMMA BodyFinishResumes ==
  ASSUME SingleWorker, WakeupInv, WakeupInv', ResumeInv, NEW w \in Workers, BodyFinish(w)
  PROVE  ResumeInv'
<1> USE EngineAssumption DEF WakeupInv, TypeInv, TypeOK, HeldTypes, Busy, ResumeInv, queueVars,
        workerVars, genVars, outsideVars
<1>1. DoneInv'
  BY DEF BodyFinish, GoTo, SingleWorker, DoneInv, HandInv, FreshInv, HeldInv
<1>2. DroppedInv'
  BY DEF BodyFinish, GoTo, SingleWorker, DroppedInv, HeldInv, MapInv, FreshInv
<1>3. AwaitedInv'
  BY DEF BodyFinish, GoTo, SingleWorker, AwaitedInv, HandInv, HeldInv, NeedInv, FreshInv, MapInv
<1>4. DrivenInv'
  BY DEF BodyFinish, GoTo, SingleWorker, DrivenInv, HasAt, DroppedInv, HeldInv, MapInv
<1>5. ValueInv'
  BY DEF BodyFinish, GoTo, SingleWorker, ValueInv, Delivered, HandInv, DoneInv, AwaitedInv, DrivenInv, HeldInv, MapInv, FreshInv, DroppedInv, HasAt
<1>6. NeededInv'
  BY DEF BodyFinish, GoTo, SingleWorker, NeededInv, HandInv, DoneInv, AwaitedInv, NeedInv, Futures
<1>7. HandInv'
  BY DEF BodyFinish, GoTo, SingleWorker, HandInv, Settled, HeldInv, QueuedInv, FreshInv, DoneInv, AwaitedInv, MapInv, ValueInv, Delivered, NeededInv, Futures
<1> QED BY <1>1, <1>2, <1>3, <1>4, <1>5, <1>6, <1>7

LEMMA BodyYieldResumes ==
  ASSUME SingleWorker, WakeupInv, WakeupInv', ResumeInv, NEW w \in Workers, BodyYield(w)
  PROVE  ResumeInv'
<1> USE EngineAssumption DEF WakeupInv, TypeInv, TypeOK, HeldTypes, Busy, ResumeInv, queueVars,
        workerVars, genVars, outsideVars
<1>1. DoneInv'
  BY DEF BodyYield, GoTo, SingleWorker, DoneInv, HandInv, FreshInv, HeldInv
<1>2. DroppedInv'
  BY DEF BodyYield, GoTo, SingleWorker, DroppedInv, HeldInv, MapInv, FreshInv
<1>3. AwaitedInv'
  BY DEF BodyYield, GoTo, SingleWorker, AwaitedInv, HandInv, HeldInv, NeedInv, FreshInv, MapInv
<1>4. DrivenInv'
  BY DEF BodyYield, GoTo, SingleWorker, DrivenInv, HasAt, DroppedInv, HeldInv, MapInv
<1>5. ValueInv'
  BY DEF BodyYield, GoTo, SingleWorker, ValueInv, Delivered, HandInv, DoneInv, AwaitedInv, DrivenInv, HeldInv, MapInv, FreshInv, DroppedInv, HasAt
<1>6. NeededInv'
  BY DEF BodyYield, GoTo, SingleWorker, NeededInv, HandInv, DoneInv, AwaitedInv, NeedInv, Futures
<1>7. HandInv'
  BY DEF BodyYield, GoTo, SingleWorker, HandInv, Settled, HeldInv, QueuedInv, FreshInv, DoneInv, AwaitedInv, MapInv, ValueInv, Delivered, NeededInv, Futures
<1> QED BY <1>1, <1>2, <1>3, <1>4, <1>5, <1>6, <1>7

LEMMA ReturnedResumes ==
  ASSUME SingleWorker, WakeupInv, WakeupInv', ResumeInv, NEW w \in Workers, Returned(w)
  PROVE  ResumeInv'
<1> USE EngineAssumption DEF WakeupInv, TypeInv, TypeOK, HeldTypes, Busy, ResumeInv, queueVars,
        workerVars, genVars, outsideVars
<1>1. DoneInv'
  BY DEF Returned, GoTo, StateOf, SingleWorker, DoneInv, HandInv, FreshInv, HeldInv
<1>2. DroppedInv'
  BY DEF Returned, GoTo, StateOf, SingleWorker, DroppedInv, HeldInv, MapInv, FreshInv
<1>3. AwaitedInv'
  BY DEF Returned, GoTo, StateOf, SingleWorker, AwaitedInv, HandInv, HeldInv, NeedInv, FreshInv, MapInv
<1>4. DrivenInv'
  BY DEF Returned, GoTo, StateOf, SingleWorker, DrivenInv, HasAt, DroppedInv, HeldInv, MapInv
<1>5. ValueInv'
  BY DEF Returned, GoTo, StateOf, SingleWorker, ValueInv, Delivered, HandInv, DoneInv, AwaitedInv, DrivenInv, HeldInv, MapInv, FreshInv, DroppedInv, HasAt
<1>6. NeededInv'
  BY DEF Returned, GoTo, StateOf, SingleWorker, NeededInv, HandInv, DoneInv, AwaitedInv, NeedInv, Futures
<1>7. HandInv'
  BY DEF Returned, GoTo, StateOf, SingleWorker, HandInv, Settled, HeldInv, QueuedInv, FreshInv, DoneInv, AwaitedInv, MapInv, ValueInv, Delivered, NeededInv, Futures
<1> QED BY <1>1, <1>2, <1>3, <1>4, <1>5, <1>6, <1>7

LEMMA DescendResumes ==
  ASSUME SingleWorker, WakeupInv, WakeupInv', ResumeInv, NEW w \in Workers, Descend(w)
  PROVE  ResumeInv'
<1> USE EngineAssumption DEF WakeupInv, TypeInv, TypeOK, HeldTypes, Busy, ResumeInv, queueVars,
        workerVars, genVars, outsideVars
<1>1. DoneInv'
  BY DEF Descend, GoTo, NotifiAdd, SingleWorker, DoneInv, HandInv, FreshInv, HeldInv
<1>2. DroppedInv'
  BY DEF Descend, GoTo, NotifiAdd, SingleWorker, DroppedInv, HeldInv, MapInv, FreshInv
<1>3. AwaitedInv'
  BY DEF Descend, GoTo, NotifiAdd, SingleWorker, AwaitedInv, HandInv, HeldInv, NeedInv, FreshInv, MapInv
<1>4. DrivenInv'
  BY DEF Descend, GoTo, NotifiAdd, SingleWorker, DrivenInv, HasAt, DroppedInv, HeldInv, MapInv
<1>5. ValueInv'
  BY DEF Descend, GoTo, NotifiAdd, SingleWorker, ValueInv, Delivered, HandInv, DoneInv, AwaitedInv, DrivenInv, HeldInv, MapInv, FreshInv, DroppedInv, HasAt
<1>6. NeededInv'
  BY DEF Descend, GoTo, NotifiAdd, SingleWorker, NeededInv, HandInv, DoneInv, AwaitedInv, NeedInv, Futures
<1>7. HandInv'
  BY DEF Descend, GoTo, NotifiAdd, SingleWorker, HandInv, Settled, HeldInv, QueuedInv, FreshInv, DoneInv, AwaitedInv, MapInv, ValueInv, Delivered, NeededInv, Futures
<1> QED BY <1>1, <1>2, <1>3, <1>4, <1>5, <1>6, <1>7

LEMMA RegisterResumes ==
  ASSUME SingleWorker, WakeupInv, WakeupInv', ResumeInv, NEW w \in Workers, Register(w)
  PROVE  ResumeInv'
<1> USE EngineAssumption DEF WakeupInv, TypeInv, TypeOK, HeldTypes, Busy, ResumeInv, queueVars,
        workerVars, genVars, outsideVars
<1>1. DoneInv'
  BY DEF Register, GoTo, NotifiAdd, SingleWorker, DoneInv, HandInv, FreshInv, HeldInv
<1>2. DroppedInv'
  BY DEF Register, GoTo, NotifiAdd, SingleWorker, DroppedInv, HeldInv, MapInv, FreshInv
<1>3. AwaitedInv'
  BY DEF Register, GoTo, NotifiAdd, SingleWorker, AwaitedInv, HandInv, HeldInv, NeedInv, FreshInv, MapInv
<1>4. DrivenInv'
  BY DEF Register, GoTo, NotifiAdd, SingleWorker, DrivenInv, HasAt, DroppedInv, HeldInv, MapInv
<1>5. ValueInv'
  BY DEF Register, GoTo, NotifiAdd, SingleWorker, ValueInv, Delivered, HandInv, DoneInv, AwaitedInv, DrivenInv, HeldInv, MapInv, FreshInv, DroppedInv, HasAt
<1>6. NeededInv'
  BY DEF Register, GoTo, NotifiAdd, SingleWorker, NeededInv, HandInv, DoneInv, AwaitedInv, NeedInv, Futures
<1>7. HandInv'
  BY DEF Register, GoTo, NotifiAdd, SingleWorker, HandInv, Settled, HeldInv, QueuedInv, FreshInv, DoneInv, AwaitedInv, MapInv, ValueInv, Delivered, NeededInv, Futures
<1> QED BY <1>1, <1>2, <1>3, <1>4, <1>5, <1>6, <1>7

LEMMA SubmitResumes ==
  ASSUME SingleWorker, WakeupInv, WakeupInv', ResumeInv, NEW g \in Gens, Submit(g)
  PROVE  ResumeInv'
<1> USE EngineAssumption DEF WakeupInv, TypeInv, TypeOK, HeldTypes, Busy, ResumeInv, queueVars,
        workerVars, genVars, outsideVars
<1>1. DoneInv'
  BY DEF Submit, Execute, Launchable, SingleWorker, DoneInv, HandInv, FreshInv, HeldInv
<1>2. DroppedInv'
  BY DEF Submit, Execute, Launchable, SingleWorker, DroppedInv, HeldInv, MapInv, FreshInv
<1>3. AwaitedInv'
  BY DEF Submit, Execute, Launchable, SingleWorker, AwaitedInv, HandInv, HeldInv, NeedInv, FreshInv, MapInv
<1>4. DrivenInv'
  BY DEF Submit, Execute, Launchable, SingleWorker, DrivenInv, HasAt, DroppedInv, HeldInv, MapInv
<1>5. ValueInv'
  BY DEF Submit, Execute, Launchable, SingleWorker, ValueInv, Delivered, HandInv, DoneInv, AwaitedInv, DrivenInv, HeldInv, MapInv, FreshInv, DroppedInv, HasAt
<1>6. NeededInv'
  BY DEF Submit, Execute, Launchable, SingleWorker, NeededInv, HandInv, DoneInv, AwaitedInv, NeedInv, Futures
<1>7. HandInv'
  BY DEF Submit, Execute, Launchable, SingleWorker, HandInv, Settled, HeldInv, QueuedInv, FreshInv, DoneInv, AwaitedInv, MapInv, ValueInv, Delivered, NeededInv, Futures
<1> QED BY <1>1, <1>2, <1>3, <1>4, <1>5, <1>6, <1>7

LEMMA SettleResumes ==
  ASSUME SingleWorker, WakeupInv, WakeupInv', ResumeInv, NEW n \in Notfs, NEW s \in {"Completed", "Cancelled"}, Settle(n, s)
  PROVE  ResumeInv'
<1> USE EngineAssumption DEF WakeupInv, TypeInv, TypeOK, HeldTypes, Busy, ResumeInv, queueVars,
        workerVars, genVars, outsideVars
<1>1. DoneInv'
  BY DEF Settle, SingleWorker, DoneInv, HandInv, FreshInv, HeldInv
<1>2. DroppedInv'
  BY DEF Settle, SingleWorker, DroppedInv, HeldInv, MapInv, FreshInv
<1>3. AwaitedInv'
  BY DEF Settle, SingleWorker, AwaitedInv, HandInv, HeldInv, NeedInv, FreshInv, MapInv
<1>4. DrivenInv'
  BY DEF Settle, SingleWorker, DrivenInv, HasAt, DroppedInv, HeldInv, MapInv
<1>5. ValueInv'
  BY DEF Settle, SingleWorker, ValueInv, Delivered, HandInv, DoneInv, AwaitedInv, DrivenInv, HeldInv, MapInv, FreshInv, DroppedInv, HasAt
<1>6. NeededInv'
  BY DEF Settle, SingleWorker, NeededInv, HandInv, DoneInv, AwaitedInv, NeedInv, Futures
<1>7. HandInv'
  BY DEF Settle, SingleWorker, HandInv, Settled, HeldInv, QueuedInv, FreshInv, DoneInv, AwaitedInv, MapInv, ValueInv, Delivered, NeededInv, Futures
<1> QED BY <1>1, <1>2, <1>3, <1>4, <1>5, <1>6, <1>7

LEMMA NotifyResumes ==
  ASSUME SingleWorker, WakeupInv, WakeupInv', ResumeInv, NEW n \in Notfs, Notify(n)
  PROVE  ResumeInv'
<1> USE EngineAssumption DEF WakeupInv, TypeInv, TypeOK, HeldTypes, Busy, ResumeInv, queueVars,
        workerVars, genVars, outsideVars
<1>1. DoneInv'
  BY DEF Notify, SingleWorker, DoneInv, HandInv, FreshInv, HeldInv
<1>2. DroppedInv'
  BY DEF Notify, SingleWorker, DroppedInv, HeldInv, MapInv, FreshInv
<1>3. AwaitedInv'
  BY DEF Notify, SingleWorker, AwaitedInv, HandInv, HeldInv, NeedInv, FreshInv, MapInv
<1>4. DrivenInv'
  BY DEF Notify, SingleWorker, DrivenInv, HasAt, DroppedInv, HeldInv, MapInv
<1>5. ValueInv'
  BY DEF Notify, SingleWorker, ValueInv, Delivered, HandInv, DoneInv, AwaitedInv, DrivenInv, HeldInv, MapInv, FreshInv, DroppedInv, HasAt
<1>6. NeededInv'
  BY DEF Notify, SingleWorker, NeededInv, HandInv, DoneInv, AwaitedInv, NeedInv, Futures
<1>7. HandInv'
  BY DEF Notify, SingleWorker, HandInv, Settled, HeldInv, QueuedInv, FreshInv, DoneInv, AwaitedInv, MapInv, ValueInv, Delivered, NeededInv, Futures
<1> QED BY <1>1, <1>2, <1>3, <1>4, <1>5, <1>6, <1>7
\* Steps that leave all of this alone.
LEMMA QuietResumes ==
  ASSUME ResumeInv,
         UNCHANGED <<workerVars, genVars, nstate, notifications, launched, dropped>>
  PROVE  ResumeInv'
<1> USE DEF ResumeInv, workerVars, genVars
<1>1. DoneInv' /\ DroppedInv' /\ AwaitedInv' /\ NeededInv'
  BY DEF DoneInv, DroppedInv, AwaitedInv, NeededInv
<1>2. DrivenInv' /\ ValueInv'
  BY DEF DrivenInv, ValueInv, HasAt, Delivered
<1>3. HandInv'
  BY DEF HandInv, Settled
<1> QED BY <1>1, <1>2, <1>3

\* Nothing has been run, awaited or produced.
LEMMA ResumeInit == Init => ResumeInv
<1> SUFFICES ASSUME Init PROVE ResumeInv
  OBVIOUS
<1>1. /\ \A g \in Gens : gstate[g] = "Suspended" /\ awaited[g] = None
      /\ done = {} /\ val = {} /\ dropped = {}
      /\ \A w \in Workers : pc[w] = "pop"
  BY DEF Init
<1>2. DoneInv /\ DroppedInv /\ AwaitedInv /\ ValueInv /\ NeededInv
  BY <1>1 DEF DoneInv, DroppedInv, AwaitedInv, ValueInv, NeededInv
<1>3. DrivenInv /\ HandInv
  BY <1>1 DEF DrivenInv, HandInv, HasAt, Busy
<1> QED BY <1>2, <1>3 DEF ResumeInv

\* Every step keeps it.
LEMMA ResumeNext == SingleWorker /\ WakeupInv /\ ResumeInv /\ [Next]_vars => ResumeInv'
<1> SUFFICES ASSUME SingleWorker, WakeupInv, ResumeInv, [Next]_vars PROVE ResumeInv'
  OBVIOUS
<1>1. WakeupInv'
  BY WakeupNext
<1>2. ASSUME NEW w \in Workers, Worker(w) PROVE ResumeInv'
  BY <1>1, <1>2, PopResumes, ThreadoResumes, NukeResumes, ProceedResumes, ResumeResumes,
     BodyLaunchResumes, BodyRearmResumes, BodyAwaitResumes, BodyFinishResumes,
     BodyYieldResumes, ReturnedResumes, DescendResumes, RegisterResumes
  DEF Worker, Body
<1>3. ASSUME NEW w \in Workers, PopSpurious(w) PROVE ResumeInv'
  BY <1>3, QuietResumes DEF PopSpurious, Q!PopSpurious, workerVars, outsideVars
<1>4. CASE Outside
  <2>1. CASE OutsideEnds
    BY <2>1, QuietResumes DEF OutsideEnds
  <2> QED BY <1>1, <1>4, <2>1, SubmitResumes, SettleResumes, NotifyResumes DEF Outside
<1>5. CASE Wle
  <2>1. UNCHANGED <<workerVars, genVars, nstate, notifications, launched, dropped>>
    BY <1>5 DEF Wle, WleCall, WleLock, WleTest, WleWait, WleWake, WleSpurious, WleClose,
                WleJoin, WleGoes, Q!IdleBlock, Q!Close, workerVars, outsideVars
  <2> QED BY <2>1, QuietResumes
<1>6. CASE UNCHANGED vars
  BY <1>6, QuietResumes DEF vars, outsideVars
<1> QED BY <1>2, <1>3, <1>4, <1>5, <1>6 DEF Next

\* What the theorems about the worker rest on.
LEMMA ResumeInvariance ==
  ASSUME SingleWorker
  PROVE  SafeSpec => [](WakeupInv /\ ResumeInv)
<1>1. WakeupInv /\ ResumeInv /\ [Next]_vars => WakeupInv' /\ ResumeInv'
  BY WakeupNext, ResumeNext
<1> QED BY <1>1, WakeupInit, ResumeInit, PTL DEF SafeSpec
------------------------------------------------------------------------------
\* A generator that waits is resumed when there is something for it: what it awaits has a
\* result it has not had, and its own last value has been taken (engine.cpp 53-78).
THEOREM OneWorkerResumesWithResult ==
  ASSUME SingleWorker
  PROVE  SafeSpec => []ResumedWithResult
<1>1. WakeupInv /\ ResumeInv => ResumedWithResult
  <2> SUFFICES ASSUME WakeupInv, ResumeInv, NEW w \in Workers, pc[w] = "resume"
               PROVE  /\ awaited[task[w]] # None => Settled(awaited[task[w]])
                      /\ task[w] \notin val
    BY DEF ResumedWithResult
  <2>1. awaited[task[w]] # None => Settled(awaited[task[w]])
    BY DEF ResumeInv, HandInv
  <2>2. task[w] \in Gens \ done
    BY DEF WakeupInv, TypeInv, HeldTypes, ResumeInv, HandInv, Busy
  <2>3. ~Delivered(task[w])
    BY <2>2, EngineAssumption DEF SingleWorker, Delivered, ResumeInv, AwaitedInv, Futures
  <2> QED BY <2>1, <2>2, <2>3 DEF ResumeInv, ValueInv, DoneInv
<1> QED BY <1>1, ResumeInvariance, PTL

\* The contract of resume(): never of a generator that is done, nor of one that was thrown
\* away (agen.hpp 14-17).
THEOREM OneWorkerResumesAlone ==
  ASSUME SingleWorker
  PROVE  SafeSpec => []ResumedAlone
<1>1. WakeupInv /\ ResumeInv => ResumedAlone
  BY DEF WakeupInv, TypeInv, HeldTypes, ResumeInv, HandInv, DroppedInv, Busy, SingleWorker,
         ResumedAlone
<1> QED BY <1>1, ResumeInvariance, PTL
------------------------------------------------------------------------------
\* pop() counts the one worker while it is inside, and not otherwise.
PopInv ==
  \A w \in Workers : /\ w \in Q!Inside \cup ended => pc[w] = "pop"
                     /\ popw = IF w \in Q!Inside THEN 1 ELSE 0

\* While the worker is inside pop() only the outside pushes; once the outside has ended
\* there is nothing of its in the queue.
DrainInv ==
  /\ \A w \in Workers : w \in Q!Inside \cup ended => Queued \subseteq Notfs \cup Roots
  /\ ~outside => /\ unannounced = {}
                 /\ Roots \subseteq launched
                 /\ Queued \cap (Notfs \cup Roots) = {}

\* Where wle() is, and that what it has seen stays.
CloseInv ==
  /\ wle # "off" => ~outside
  /\ closed => wle \in {"join", "returned"}
  /\ wle \in {"close", "join", "returned"} =>
       /\ \A f \in Futures : notifications[f] = None
       /\ Workers \subseteq Q!Inside \cup ended
WleInv == PopInv /\ DrainInv /\ CloseInv

\* A worker in threado() is not inside pop(), so wle() is not past its test.
LEMMA AwayKeeps ==
  ASSUME SingleWorker, TypeInv, WleInv, NEW w \in Workers, pc[w] # "pop",
         UNCHANGED <<asleep, woken, ended, popw, closed, outside, unannounced, wle>>,
         launched \subseteq launched', Queued' \subseteq Queued \cup (Gens \ launched)
  PROVE  WleInv'
<1>1. \A v \in Workers : v \notin Q!Inside \cup ended /\ v \notin Q!Inside' \cup ended'
  BY DEF WleInv, PopInv, SingleWorker, Q!Inside
<1>2. PopInv'
  BY <1>1 DEF WleInv, PopInv
<1>3. DrainInv'
  BY <1>1, EngineAssumption DEF WleInv, DrainInv
<1>4. CloseInv'
  BY <1>1 DEF WleInv, CloseInv
<1> QED BY <1>2, <1>3, <1>4 DEF WleInv

\* The worker outside pop() disturbs nothing wle() has seen ...
LEMMA ThreadoKeepsWle ==
  ASSUME SingleWorker, WakeupInv, WleInv, NEW w \in Workers, Worker(w), ~Pop(w)
  PROVE  WleInv'
<1> USE DEF queueVars, workerVars, genVars, outsideVars
<1>1. TypeInv /\ UniqueInv /\ asleep \subseteq Workers
  BY DEF WakeupInv, TypeInv, TypeOK
<1>2. CASE \E h \in Gens : BodyLaunch(w, h)
  <2>1. PICK h \in Gens : BodyLaunch(w, h)
    BY <1>2
  <2>2. pc[w] = "body" /\ asleep = {}
    BY <1>1, <2>1 DEF BodyLaunch, WleInv, PopInv, SingleWorker, Q!Inside
  <2>3. /\ UNCHANGED <<asleep, woken, ended, popw, closed>>
        /\ launched' = launched \cup {h} /\ h \notin launched
    BY <2>1, <2>2 DEF BodyLaunch, Execute, Q!Push, Q!NotifyOne
  <2>4. Queued' = Queued \cup {h}
    BY <1>1, <2>1, PushQueued, EngineAssumption
    DEF BodyLaunch, Execute, Launchable, Futures, WakeupInv, TypeInv, HeldTypes, Busy,
        QueuedInv, FreshInv
  <2> QED BY <1>1, <2>1, <2>2, <2>3, <2>4, AwayKeeps DEF BodyLaunch
<1>3. CASE ~\E h \in Gens : BodyLaunch(w, h)
  <2>1. /\ pc[w] # "pop"
        /\ UNCHANGED <<list, asleep, woken, ended, popw, closed, outside, unannounced, wle,
                       launched>>
    BY <1>3 DEF Worker, Threado, Nuke, Proceed, Resume, Body, BodyRearm, BodyAwait,
                BodyFinish, BodyYield, Returned, Descend, Register, NotifiDrop, NotifiAdd
  <2>2. Queued' = Queued
    BY <1>1, <2>1, SameQueued
  <2> QED BY <1>1, <2>1, <2>2, AwayKeeps
<1> QED BY <1>2, <1>3

\* pop() takes nothing any more once wle() has seen the worker inside.
LEMMA PopKeepsWle ==
  ASSUME SingleWorker, Drained, WakeupInv, WleInv, NEW w \in Workers, Pop(w)
  PROVE  WleInv'
<1> USE DEF outsideVars
<1>1. /\ TypeInv /\ UniqueInv /\ TypeOK /\ Apart
      /\ asleep \subseteq Workers /\ woken \subseteq Workers /\ ended \subseteq Workers
      /\ popw \in Int
  BY DEF WakeupInv, TypeInv, TypeOK
<1>2. /\ UNCHANGED <<notifications, outside, unannounced, launched, wle>>
      /\ pc[w] = "pop" /\ w \notin asleep \cup ended
  BY <1>1 DEF Pop, Q!PopBegin, Q!PopResume, Q!Inside, Apart
<1>3. Q!PopFrom(w, 1)
  BY <1>1, <1>2 DEF Pop, Q!PopBegin, Q!PopResume, WleInv, PopInv, Q!Inside
<1>4. CASE Q!Sleep(w, 1)
  <2>1. /\ list' = list /\ list = <<>> /\ closed' = closed
        /\ w \in Q!Inside' /\ popw' = 1 /\ pc' = pc
    BY <1>4 DEF Q!Sleep, Q!Inside, Pop
  <2>2. Queued = {} /\ Queued' = {}
    BY <2>1 DEF Queued
  <2>3. PopInv'
    BY <1>2, <2>1 DEF PopInv, SingleWorker
  <2>4. DrainInv'
    BY <1>2, <2>2 DEF WleInv, DrainInv
  <2>5. CloseInv'
    BY <1>2, <2>1 DEF WleInv, CloseInv, SingleWorker
  <2> QED BY <2>3, <2>4, <2>5 DEF WleInv
<1>5. CASE Q!Refuse(w, 1)
  <2>1. /\ list' = list /\ closed /\ closed' = closed /\ w \notin Q!Inside'
        /\ w \in ended' /\ popw' = 0 /\ pc' = pc
    BY <1>1, <1>2, <1>5 DEF Q!Refuse, Q!Inside, Pop
  <2>2. Queued' = Queued /\ Queued \subseteq Notfs \cup Roots
    BY <1>1, <2>1, SameQueued DEF WleInv, CloseInv, DrainInv
  <2>3. PopInv'
    BY <1>2, <2>1 DEF PopInv, SingleWorker
  <2>4. DrainInv'
    BY <1>2, <2>2 DEF WleInv, DrainInv
  <2>5. CloseInv'
    BY <1>2, <2>1 DEF WleInv, CloseInv, SingleWorker
  <2> QED BY <2>3, <2>4, <2>5 DEF WleInv
<1>6. CASE Q!HandOut(w, 1)
  <2>1. /\ list # <<>> /\ list' = Tail(list) /\ ~closed /\ closed' = closed
        /\ w \notin Q!Inside' \cup ended' /\ popw' = 0
    BY <1>1, <1>2, <1>6 DEF Q!HandOut, Q!Inside
  <2>2. Queued = Queued' \cup {Head(list)}
    BY <1>1, <2>1, TailQueued
  <2>3. wle \notin {"close", "join", "returned"}
    BY <1>2, <2>2 DEF WleInv, CloseInv, DrainInv
  <2>4. PopInv'
    BY <2>1 DEF PopInv, SingleWorker
  <2>5. DrainInv'
    BY <1>2, <2>1, <2>2 DEF WleInv, DrainInv, SingleWorker
  <2>6. CloseInv'
    BY <1>2, <2>1, <2>3 DEF WleInv, CloseInv
  <2> QED BY <2>4, <2>5, <2>6 DEF WleInv
<1> QED BY <1>3, <1>4, <1>5, <1>6 DEF Q!PopFrom

\* A push by the outside wakes the worker where it is.
LEMMA OutsidePush ==
  ASSUME TypeInv, UniqueInv, NEW f \in Futures, Q!Push(f)
  PROVE  /\ UNCHANGED <<popw, closed, ended>>
         /\ Q!Inside' = Q!Inside
BY DEF Q!Push, Q!NotifyOne, Q!Inside

\* ... nor does the outside before it has ended.
LEMMA OutsideKeepsWle ==
  ASSUME SingleWorker, Drained, WakeupInv, WleInv, Outside
  PROVE  WleInv'
<1> USE EngineAssumption DEF queueVars, workerVars, genVars
<1>1. TypeInv /\ UniqueInv /\ TypeOK
  BY DEF WakeupInv, TypeInv
<1>2. ASSUME NEW g \in Gens, Submit(g) PROVE WleInv'
  <2>1. Queued' = Queued \cup {g}
    BY <1>1, <1>2, PushQueued
    DEF Submit, Execute, Launchable, Futures, WakeupInv, QueuedInv, FreshInv
  <2>2. /\ g \in Roots /\ outside
        /\ UNCHANGED <<popw, closed, ended, outside, unannounced, wle, pc, notifications>>
        /\ Q!Inside' = Q!Inside
    BY <1>1, <1>2, OutsidePush DEF Submit, Execute, Futures
  <2>3. PopInv' /\ CloseInv'
    BY <2>2 DEF WleInv, PopInv, CloseInv
  <2>4. DrainInv'
    BY <2>1, <2>2 DEF WleInv, DrainInv
  <2> QED BY <2>3, <2>4 DEF WleInv
<1>3. ASSUME NEW n \in Notfs, Notify(n) PROVE WleInv'
  <2>1. Queued' = Queued \cup {n}
    BY <1>1, <1>3, PushQueued DEF Notify, Futures
  <2>2. /\ n \in unannounced /\ unannounced' = unannounced \ {n}
        /\ UNCHANGED <<popw, closed, ended, outside, wle, pc, notifications, launched>>
        /\ Q!Inside' = Q!Inside
    BY <1>1, <1>3, OutsidePush DEF Notify, Futures
  <2>3. PopInv' /\ CloseInv'
    BY <2>2 DEF WleInv, PopInv, CloseInv
  <2>4. DrainInv'
    BY <2>1, <2>2 DEF WleInv, DrainInv
  <2> QED BY <2>3, <2>4 DEF WleInv
<1>4. ASSUME NEW n \in Notfs, NEW s, Settle(n, s) PROVE WleInv'
  <2>1. /\ outside
        /\ UNCHANGED <<list, asleep, woken, popw, closed, ended, outside, wle, pc, notifications,
                       launched>>
    BY <1>4 DEF Settle
  <2>2. Queued' = Queued
    BY <1>1, <2>1, SameQueued
  <2>3. PopInv' /\ CloseInv'
    BY <2>1 DEF WleInv, PopInv, CloseInv, Q!Inside
  <2>4. DrainInv'
    BY <2>1, <2>2 DEF WleInv, DrainInv, Q!Inside
  <2> QED BY <2>3, <2>4 DEF WleInv
<1>5. CASE OutsideEnds
  <2>1. /\ unannounced = {} /\ Roots \subseteq launched
        /\ UNCHANGED <<list, asleep, woken, popw, closed, ended, wle, pc, notifications, launched,
                       unannounced>>
        /\ \A i \in DOMAIN list : list[i] \notin Notfs \cup Roots
        /\ outside' = FALSE
    BY <1>5 DEF OutsideEnds
  <2>2. Queued' = Queued /\ Queued \cap (Notfs \cup Roots) = {}
    BY <1>1, <2>1, SameQueued DEF Queued
  <2>3. PopInv' /\ CloseInv'
    BY <2>1 DEF WleInv, PopInv, CloseInv, Q!Inside
  <2>4. DrainInv'
    BY <2>1, <2>2 DEF WleInv, DrainInv, Q!Inside
  <2> QED BY <2>3, <2>4 DEF WleInv
<1> QED BY <1>2, <1>3, <1>4, <1>5 DEF Outside

\* wle() goes on to close() when the worker is inside pop() and the map is empty.
LEMMA WleKeeps ==
  ASSUME SingleWorker, WakeupInv, WleInv, Wle
  PROVE  WleInv'
<1>1. TypeInv /\ UniqueInv /\ TypeOK
  BY DEF WakeupInv, TypeInv
<1>2. UNCHANGED <<list, popw, ended, pc, notifications, launched, unannounced, outside>>
  BY DEF Wle, WleCall, WleLock, WleTest, WleWait, WleWake, WleSpurious, WleClose, WleJoin,
         WleGoes, Q!IdleBlock, Q!Close, queueVars, workerVars, outsideVars
<1>3. Q!Inside' = Q!Inside
  BY DEF Wle, WleCall, WleLock, WleTest, WleWait, WleWake, WleSpurious, WleClose, WleJoin,
         WleGoes, Q!IdleBlock, Q!Close, Q!Inside, queueVars
<1>4. PopInv'
  BY <1>2, <1>3 DEF WleInv, PopInv
<1>5. DrainInv'
  <2>1. Queued' = Queued
    BY <1>1, <1>2, SameQueued
  <2> QED BY <1>2, <1>3, <2>1 DEF WleInv, DrainInv
<1>6. ASSUME ~WleBusy PROVE Workers \subseteq Q!Inside
  <2>1. PICK w \in Workers : Workers = {w}
    BY EngineAssumption DEF SingleWorker
  <2>2. Cardinality(Workers) = 1
    BY <2>1, FS_Singleton
  <2> QED BY <1>6, <2>1, <2>2 DEF WleBusy, WleInv, PopInv
<1>7. CloseInv'
  <2>1. /\ wle' # "off"
        /\ wle = "off" => ~outside
    BY DEF Wle, WleCall, WleLock, WleTest, WleWait, WleWake, WleSpurious, WleClose, WleJoin,
           WleGoes
  <2>2. closed' => wle' \in {"join", "returned"}
    BY DEF Wle, WleCall, WleLock, WleTest, WleWait, WleWake, WleSpurious, WleClose, WleJoin,
           WleGoes, Q!IdleBlock, queueVars, WleInv, CloseInv
  <2>3. wle' \in {"close", "join", "returned"} =>
          wle \in {"close", "join", "returned"} \/ ~WleBusy
    BY DEF Wle, WleCall, WleLock, WleTest, WleWait, WleWake, WleSpurious, WleClose, WleJoin,
           WleGoes
  <2> QED BY <1>2, <1>3, <1>6, <2>1, <2>2, <2>3 DEF WleInv, CloseInv, WleBusy
<1> QED BY <1>4, <1>5, <1>7 DEF WleInv

\* Once the outside has left, wle() closes the queue when the engine has finished what it
\* had begun (engine.cpp 12-19).
THEOREM OneWorkerAbandonsNothing ==
  ASSUME SingleWorker, Drained
  PROVE  SafeSpec => []WleAbandonsNothing
<1>1. Init => WleInv
  <2> SUFFICES ASSUME Init PROVE WleInv
    OBVIOUS
  <2>1. /\ list = <<>> /\ Queued = {} /\ Q!Inside = {} /\ ended = {} /\ popw = 0
        /\ ~closed /\ outside /\ wle = "off"
    BY DEF Init, Q!QInit, Q!Inside, Queued
  <2> QED BY <2>1 DEF WleInv, PopInv, DrainInv, CloseInv
<1>2. WakeupInv /\ WleInv /\ [Next]_vars => WakeupInv' /\ WleInv'
  <2> SUFFICES ASSUME WakeupInv, WleInv, [Next]_vars PROVE WleInv'
    BY WakeupNext
  <2>1. ASSUME UNCHANGED <<list, popw, closed, ended, pc, notifications, launched, unannounced,
                           outside, wle>>,
               Q!Inside' = Q!Inside
        PROVE  WleInv'
    BY <2>1, SameQueued DEF WakeupInv, WleInv, PopInv, DrainInv, CloseInv
  <2>2. ASSUME NEW w \in Workers, PopSpurious(w) PROVE WleInv'
    BY <2>1, <2>2 DEF PopSpurious, Q!PopSpurious, Q!Inside, outsideVars
  <2>3. CASE UNCHANGED vars
    BY <2>1, <2>3 DEF vars, queueVars, workerVars, outsideVars, Q!Inside
  <2> QED BY <2>2, <2>3, ThreadoKeepsWle, PopKeepsWle, OutsideKeepsWle, WleKeeps DEF Next
<1>3. WakeupInv /\ WleInv => WleAbandonsNothing
  <2> SUFFICES ASSUME WakeupInv, WleInv, wle \in {"close", "join", "returned"}
               PROVE  /\ \A g \in Gens \ dropped : gstate[g] \notin {"Running", "Awaiting"}
                      /\ \A f \in Queued : f \in Notfs \/ (f \in Roots /\ gstate[f] = "Queued")
    BY DEF WleAbandonsNothing
  <2>1. /\ \A f \in Futures : notifications[f] = None
        /\ \A w \in Workers : w \in Q!Inside \cup ended /\ pc[w] = "pop"
    BY DEF WleInv, CloseInv, PopInv
  <2>2. \A g \in Gens \ dropped : gstate[g] \notin {"Running", "Awaiting"}
    BY <2>1, EngineAssumption DEF WakeupInv, StateInv, HasAt, Futures
  <2>3. Queued \subseteq Notfs \cup Roots
    BY <2>1, EngineAssumption DEF WleInv, DrainInv
  <2> QED BY <2>2, <2>3, EngineAssumption DEF WakeupInv, QueuedInv
<1> QED BY <1>1, <1>2, <1>3, WakeupInit, PTL DEF SafeSpec
------------------------------------------------------------------------------
(***************************************************************************)
(* What AwaitGraph promises: every step of the engine is one of its steps, *)
(* or none.                                                                *)
(***************************************************************************)
EngineInv == WakeupInv /\ ResumeInv

\* The stages of the generators in `except` apart, a step leaves the stages alone.
StagesKept(except) == \A g \in Gens \ except : AbstractStage(g)' = AbstractStage(g)
------------------------------------------------------------------------------
\* A stage is read off four variables, each at the generator itself.
LEMMA StageDepends ==
  ASSUME NEW g \in Gens, g \in dropped' <=> g \in dropped, g \in done' <=> g \in done,
         awaited'[g] = awaited[g], gstate'[g] = gstate[g]
  PROVE  AbstractStage(g)' = AbstractStage(g)
BY DEF AbstractStage

\* A step that leaves the stages, waits, values and outside futures alone is a stutter.
LEMMA Stutter ==
  ASSUME StagesKept({}), UNCHANGED <<awaited, val, nstate>>
  PROVE  UNCHANGED Graph!agVars
<1>1. \A n \in Notfs : AbstractSignal(n)' = AbstractSignal(n)
  BY DEF AbstractSignal
<1> QED BY <1>1 DEF Graph!agVars, StagesKept

\* A generator that is handed to execute() was idle.
LEMMA ExecuteStarts ==
  ASSUME EngineInv, NEW h \in Launchable \ launched, h \in Gens, Execute(h),
         UNCHANGED <<done, dropped, awaited, val, nstate>>
  PROVE  Graph!Start(h)
<1> USE DEF EngineInv, WakeupInv, TypeInv, TypeOK, ResumeInv
<1>1. gstate[h] = "Suspended" /\ awaited[h] = None /\ h \notin done /\ h \notin dropped
  BY DEF FreshInv, AwaitedInv, DoneInv, DroppedInv
<1>2. gstate' = [gstate EXCEPT ![h] = "Queued"]
  BY DEF Execute
<1>3. AbstractStage(h) = "idle" /\ AbstractStage(h)' = "ready"
  BY <1>1, <1>2 DEF AbstractStage
<1>4. StagesKept({h})
  BY <1>2, StageDepends DEF StagesKept
<1>5. \A n \in Notfs : AbstractSignal(n)' = AbstractSignal(n)
  BY DEF AbstractSignal
<1> QED BY <1>3, <1>4, <1>5 DEF Graph!Start, StagesKept

\* What nuke throws away was waiting for something cancelled or thrown away.
LEMMA NukeLoses ==
  ASSUME EngineInv, NEW w \in Workers, Nuke(w), notifications[task[w]] # None
  PROVE  Graph!Lose(notifications[task[w]])
<1> USE DEF EngineInv, WakeupInv, TypeInv, TypeOK, ResumeInv
<1>0. task[w] \in Futures /\ notifications[task[w]] \in Gens
  BY DEF Nuke, HeldTypes
<1>p. PICK p \in Gens : p = notifications[task[w]]
  BY <1>0
<1>1. /\ pc[w] = "nuke" /\ dropped' = dropped \cup {p}
      /\ UNCHANGED <<gstate, done, awaited, val, nstate>>
  BY <1>p DEF Nuke, genVars
<1>3. awaited[p] = task[w] /\ gstate[p] = "Awaiting" /\ task[w] # None
  BY <1>0, <1>p, EngineAssumption DEF MapInv
<1>4. p \notin done /\ p \notin dropped
  BY <1>0, <1>p, <1>3 DEF DoneInv, DroppedInv
<1>5. AbstractStage(p) = "waiting" /\ AbstractStage(p)' = "gone"
  BY <1>1, <1>3, <1>4 DEF AbstractStage
<1>6. StagesKept({p})
  BY <1>1, StageDepends DEF StagesKept
<1>7. \A n \in Notfs : AbstractSignal(n)' = AbstractSignal(n)
  BY <1>1 DEF AbstractSignal
<1>8. \/ task[w] \in Notfs /\ AbstractSignal(task[w]) = "cancelled"
      \/ task[w] \in Gens /\ AbstractStage(task[w]) = "gone"
  BY <1>0, <1>1 DEF Futures, HandInv, HeldInv, AbstractSignal, AbstractStage
<1>9. [g \in Gens |-> AbstractStage(g)]'
        = [[g \in Gens |-> AbstractStage(g)] EXCEPT ![p] = "gone"]
  BY <1>5, <1>6 DEF StagesKept
<1>10. [n \in Notfs |-> AbstractSignal(n)]' = [n \in Notfs |-> AbstractSignal(n)]
  BY <1>7
<1>11. Graph!Lose(p)
  BY <1>1, <1>3, <1>5, <1>8, <1>9, <1>10 DEF Graph!Lose
<1> QED BY <1>p, <1>11

\* The worker resumes a generator that may continue.
LEMMA ResumeContinues ==
  ASSUME SingleWorker, EngineInv, NEW w \in Workers, Resume(w)
  PROVE  Graph!Continue(task[w])
<1> USE DEF EngineInv, WakeupInv, TypeInv, TypeOK, ResumeInv
<1>p. PICK p \in Gens : p = task[w]
  BY DEF Resume, HeldTypes, Busy
<1>1. /\ pc[w] = "resume" /\ task[w] = p
      /\ gstate' = [gstate EXCEPT ![p] = "Running"]
      /\ val' = val \ {p, awaited[p]}
      /\ awaited' = [awaited EXCEPT ![p] = None]
      /\ UNCHANGED <<done, dropped, nstate>>
  BY <1>p DEF Resume
<1>2. p \notin done /\ p \notin dropped
  BY <1>1 DEF HandInv, DroppedInv, Busy
<1>3. p \notin val
  <2>1. ~Delivered(p)
    BY <1>1, EngineAssumption DEF SingleWorker, Delivered, AwaitedInv, Futures
  <2> QED BY <1>1, <1>2, <2>1 DEF ValueInv, DoneInv
<1>4. IF awaited[p] = None THEN gstate[p] \in {"Suspended", "Queued"} ELSE Settled(awaited[p])
  BY <1>1 DEF HandInv
<1>5. AbstractStage(p)' = "running"
  BY <1>1, <1>2 DEF AbstractStage
<1>6. IF awaited[p] = None THEN AbstractStage(p) \in {"idle", "ready"}
                           ELSE AbstractStage(p) = "waiting"
  BY <1>2, <1>4 DEF AbstractStage
<1>7. awaited[p] # None => IF awaited[p] \in Gens THEN awaited[p] \in val
                           ELSE awaited[p] \in Notfs /\ AbstractSignal(awaited[p]) # "open"
  BY <1>1, <1>4 DEF Settled, Futures, AbstractSignal
<1>8. StagesKept({p})
  BY <1>1, StageDepends DEF StagesKept
<1>9. \A n \in Notfs : AbstractSignal(n)' = AbstractSignal(n)
  BY <1>1 DEF AbstractSignal
<1>10. val' = val \ {awaited[p]}
  BY <1>1, <1>3
<1>11. awaited[p] # None => Graph!Settled(awaited[p])
  BY <1>7 DEF Graph!Settled
<1>12. \/ AbstractStage(p) \in {"idle", "ready"} /\ awaited[p] = None /\ p \notin val
       \/ AbstractStage(p) = "waiting" /\ Graph!Settled(awaited[p])
  BY <1>3, <1>6, <1>11
<1>13. [g \in Gens |-> AbstractStage(g)]'
         = [[g \in Gens |-> AbstractStage(g)] EXCEPT ![p] = "running"]
  BY <1>1, <1>5, <1>8 DEF StagesKept
<1>14. [n \in Notfs |-> AbstractSignal(n)]' = [n \in Notfs |-> AbstractSignal(n)]
  BY <1>9
<1>15. Graph!Continue(p)
  BY <1>1, <1>10, <1>12, <1>13, <1>14 DEF Graph!Continue
<1> QED BY <1>p, <1>15

\* Inside a generator's body its stage is "running".
LEMMA BodyRuns ==
  ASSUME EngineInv, NEW w \in Workers, pc[w] = "body"
  PROVE  /\ task[w] \in Gens \ (done \cup dropped)
         /\ gstate[task[w]] = "Running" /\ awaited[task[w]] = None
         /\ AbstractStage(task[w]) = "running"
<1>1. /\ task[w] \in Gens \ (done \cup dropped)
      /\ gstate[task[w]] = "Running" /\ awaited[task[w]] = None
  BY DEF EngineInv, WakeupInv, TypeInv, HeldTypes, Busy, ResumeInv, HandInv, DroppedInv
<1> QED BY <1>1 DEF AbstractStage

\* A future that the body returns is one to wait for.
LEMMA AwaitWaits ==
  ASSUME EngineInv, NEW w \in Workers, NEW f \in Futures, BodyAwait(w, f)
  PROVE  Graph!WaitFor(task[w], f)
<1> USE DEF EngineInv, WakeupInv, TypeInv, TypeOK
<1>p. PICK p \in Gens : p = task[w]
  BY BodyRuns DEF BodyAwait
<1>1. /\ pc[w] = "body" /\ awaited' = [awaited EXCEPT ![p] = f]
      /\ UNCHANGED <<gstate, done, dropped, val, nstate>>
  BY <1>p DEF BodyAwait
<1>2. f # None
  BY EngineAssumption DEF Futures
<1>3. AbstractStage(p)' = "waiting"
  BY <1>p, <1>1, <1>2, BodyRuns DEF AbstractStage
<1>4. StagesKept({p})
  BY <1>1, StageDepends DEF StagesKept
<1>5. \A n \in Notfs : AbstractSignal(n)' = AbstractSignal(n)
  BY <1>1 DEF AbstractSignal
<1>6. [g \in Gens |-> AbstractStage(g)]'
        = [[g \in Gens |-> AbstractStage(g)] EXCEPT ![p] = "waiting"]
  BY <1>3, <1>4 DEF StagesKept
<1>7. [n \in Notfs |-> AbstractSignal(n)]' = [n \in Notfs |-> AbstractSignal(n)]
  BY <1>5
<1>8. AbstractStage(p) = "running"
  BY <1>p, <1>1, BodyRuns
<1>9. Graph!WaitFor(p, f)
  BY <1>1, <1>6, <1>7, <1>8 DEF Graph!WaitFor
<1> QED BY <1>p, <1>9

\* A value that the body returns, the last or not, is one produced.
LEMMA ValueProduces ==
  ASSUME EngineInv, NEW w \in Workers, BodyFinish(w) \/ BodyYield(w)
  PROVE  Graph!Produce(task[w])
<1> USE DEF EngineInv, WakeupInv, TypeInv, TypeOK
<1>p. PICK p \in Gens : p = task[w]
  BY BodyRuns DEF BodyFinish, BodyYield
<1>1. /\ pc[w] = "body" /\ val' = val \cup {p}
      /\ UNCHANGED <<awaited, dropped, nstate>>
      /\ \/ /\ gstate' = [gstate EXCEPT ![p] = "Completed"]
            /\ done' = done \cup {p}
         \/ /\ gstate' = [gstate EXCEPT ![p] = "Suspended"]
            /\ UNCHANGED done
  BY <1>p DEF BodyFinish, BodyYield
<1>2. AbstractStage(p)' \in {"finished", "idle"}
  BY <1>p, <1>1, BodyRuns DEF AbstractStage
<1>3. StagesKept({p})
  BY <1>1, StageDepends DEF StagesKept
<1>4. \A n \in Notfs : AbstractSignal(n)' = AbstractSignal(n)
  BY <1>1 DEF AbstractSignal
<1>5. [g \in Gens |-> AbstractStage(g)]'
        = [[g \in Gens |-> AbstractStage(g)] EXCEPT ![p] = AbstractStage(p)']
  BY <1>3 DEF StagesKept
<1>6. [n \in Notfs |-> AbstractSignal(n)]' = [n \in Notfs |-> AbstractSignal(n)]
  BY <1>4
<1>7. AbstractStage(p) = "running"
  BY <1>p, <1>1, BodyRuns
<1>8. Graph!Produce(p)
  BY <1>1, <1>2, <1>5, <1>6, <1>7 DEF Graph!Produce
<1> QED BY <1>p, <1>8

\* The outside settles a future, or a body takes it into use again.
LEMMA StateSignals ==
  ASSUME TypeOK, NEW n \in Notfs, NEW s \in {"Running", "Completed", "Cancelled"},
         nstate' = [nstate EXCEPT ![n] = s], UNCHANGED <<gstate, done, dropped, awaited, val>>
  PROVE  Graph!Signal(n)
<1>1. AbstractSignal(n)' \in {"open", "set", "cancelled"}
  BY DEF TypeOK, AbstractSignal
<1>2. \A m \in Notfs \ {n} : AbstractSignal(m)' = AbstractSignal(m)
  BY DEF TypeOK, AbstractSignal
<1>3. [m \in Notfs |-> AbstractSignal(m)]'
        = [[m \in Notfs |-> AbstractSignal(m)] EXCEPT ![n] = AbstractSignal(n)']
  BY <1>2
<1>4. \A g \in Gens : AbstractStage(g)' = AbstractStage(g)
  BY StageDepends
<1> QED BY <1>1, <1>3, <1>4 DEF Graph!Signal
------------------------------------------------------------------------------
\* Nothing has been started.
LEMMA GraphInit == Init => Graph!AGInit
BY DEF Init, Graph!AGInit, AbstractStage, AbstractSignal

\* The states of generators that wait are not their stages.
LEMMA ReturnedStutters ==
  ASSUME EngineInv, NEW w \in Workers, Returned(w)
  PROVE  UNCHANGED Graph!agVars
<1> USE DEF EngineInv, WakeupInv, TypeInv, TypeOK
<1>p. PICK p \in Gens : p = task[w]
  BY DEF Returned, HeldTypes, Busy
<1>1. /\ pc[w] = "returned" /\ UNCHANGED <<done, dropped, awaited, val, nstate>>
      /\ \/ UNCHANGED gstate
         \/ gstate' = [gstate EXCEPT ![p] = "Awaiting"]
  BY <1>p DEF Returned
<1>2. awaited[p] # None
  BY <1>p, <1>1, EngineAssumption DEF HeldTypes, Busy, HeldInv, Futures
<1>3. AbstractStage(p)' = AbstractStage(p)
  BY <1>1, <1>2 DEF AbstractStage
<1>4. StagesKept({p})
  BY <1>1, StageDepends DEF StagesKept
<1> QED BY <1>1, <1>3, <1>4, Stutter DEF StagesKept

\* Steps of the queue, the map and wle() do not show.
LEMMA QuietStutters ==
  ASSUME UNCHANGED <<genVars, nstate, dropped>>
  PROVE  UNCHANGED Graph!agVars
BY StageDepends, Stutter DEF StagesKept, genVars

\* What a worker does is one step of the generator it holds, or none.
LEMMA WorkerStep ==
  ASSUME SingleWorker, EngineInv, NEW w \in Workers, Worker(w)
  PROVE  [Graph!AGNext]_(Graph!agVars)
<1> USE DEF EngineInv, WakeupInv, TypeInv
<1>1. CASE Pop(w) \/ Threado(w) \/ Proceed(w) \/ Descend(w) \/ Register(w)
  <2>1. UNCHANGED <<genVars, nstate, dropped>>
    BY <1>1 DEF Pop, Threado, Proceed, Descend, Register
  <2> QED BY <2>1, QuietStutters
<1>2. CASE Nuke(w)
  <2>1. CASE notifications[task[w]] = None
    BY <1>2, <2>1, QuietStutters DEF Nuke
  <2>2. CASE notifications[task[w]] # None
    <3>1. notifications[task[w]] \in Gens
      BY <1>2, <2>2 DEF Nuke, HeldTypes, TypeOK
    <3> QED BY <1>2, <2>2, <3>1, NukeLoses DEF Graph!AGNext
  <2> QED BY <2>1, <2>2
<1>3. CASE Resume(w)
  <2>1. task[w] \in Gens
    BY <1>3 DEF Resume, HeldTypes, Busy
  <2> QED BY <1>3, <2>1, ResumeContinues DEF Graph!AGNext
<1>4. ASSUME NEW h \in Gens, BodyLaunch(w, h) PROVE Graph!Start(h)
  <2>1. h \in Launchable \ launched
    BY <1>4, BodyRuns DEF BodyLaunch, Launchable
  <2> QED BY <1>4, <2>1, ExecuteStarts DEF BodyLaunch
<1>5. ASSUME NEW n \in Notfs, BodyRearm(w, n) PROVE Graph!Signal(n)
  BY <1>5, StateSignals DEF BodyRearm
<1>6. ASSUME NEW f \in Futures, BodyAwait(w, f)
      PROVE  task[w] \in Gens /\ Graph!WaitFor(task[w], f)
  BY <1>6, AwaitWaits, BodyRuns DEF BodyAwait
<1>7. CASE BodyFinish(w) \/ BodyYield(w)
  <2>1. task[w] \in Gens
    BY <1>7, BodyRuns DEF BodyFinish, BodyYield
  <2> QED BY <1>7, <2>1, ValueProduces DEF Graph!AGNext
<1>8. CASE Body(w)
  BY <1>4, <1>5, <1>6, <1>7, <1>8 DEF Body, Graph!AGNext, Futures
<1>9. CASE Returned(w)
  BY <1>9, ReturnedStutters
<1> QED BY <1>1, <1>2, <1>3, <1>8, <1>9 DEF Worker

\* Every step of the engine is a step of the graph, or none.
LEMMA GraphStep ==
  SingleWorker /\ EngineInv /\ [Next]_vars => [Graph!AGNext]_(Graph!agVars)
<1> SUFFICES ASSUME SingleWorker, EngineInv, [Next]_vars PROVE [Graph!AGNext]_(Graph!agVars)
  OBVIOUS
<1> USE DEF EngineInv, WakeupInv, TypeInv
<1>1. ASSUME NEW w \in Workers, PopSpurious(w) PROVE UNCHANGED Graph!agVars
  BY <1>1, QuietStutters DEF PopSpurious
<1>2. ASSUME NEW g \in Gens, Submit(g) PROVE Graph!Start(g)
  <2>1. g \in Launchable \ launched
    BY <1>2 DEF Submit, Launchable
  <2> QED BY <1>2, <2>1, ExecuteStarts DEF Submit
<1>3. ASSUME NEW n \in Notfs, NEW s \in {"Completed", "Cancelled"}, Settle(n, s)
      PROVE  Graph!Signal(n)
  BY <1>3, StateSignals DEF Settle, genVars
<1>4. CASE OutsideEnds \/ \E n \in Notfs : Notify(n)
  BY <1>4, QuietStutters DEF OutsideEnds, Notify
<1>5. CASE Wle
  <2>1. UNCHANGED <<genVars, nstate, dropped>>
    BY <1>5 DEF Wle, WleCall, WleLock, WleTest, WleWait, WleWake, WleSpurious, WleClose,
                WleJoin, WleGoes
  <2> QED BY <2>1, QuietStutters
<1>6. CASE UNCHANGED vars
  BY <1>6, QuietStutters DEF vars
<1>7. CASE Outside
  BY <1>2, <1>3, <1>4, <1>7 DEF Outside, Graph!AGNext
<1> QED BY <1>1, <1>5, <1>6, <1>7, WorkerStep DEF Next

\* What generators see of the engine is the sequential process of AwaitGraph: started at
\* most once, resumed only with what it waits for, never after its end, lost only to a
\* cancellation it depends on (engine.cpp 21-93).
THEOREM OneWorkerImplementsAwaitGraph ==
  ASSUME SingleWorker
  PROVE  SafeSpec => ImplementsAwaitGraph
<1>1. EngineInv /\ [Next]_vars => [Graph!AGNext]_(Graph!agVars)
  BY GraphStep
<1>2. SafeSpec => []EngineInv
  BY ResumeInvariance, PTL DEF EngineInv
<1> QED BY <1>1, <1>2, GraphInit, PTL DEF SafeSpec, ImplementsAwaitGraph, Graph!AGSpec
==============================================================================
