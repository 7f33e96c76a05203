---------------------------- MODULE Yengine_proofs ----------------------------
(***************************************************************************)
(* Proofs about Yengine.  The types hold for any number of workers; that   *)
(* no wake-up is lost is proved for an engine with one worker, the engine  *)
(* of main.cpp, whatever the generators, what they await and launch, and   *)
(* however the outside settles and announces its futures.                  *)
(***************************************************************************)
EXTENDS Yengine, TLAPS

\* The worker is inside a generator.
Busy == {"resume", "body", "returned", "descend", "register"}

\* What a worker's position says of the types of its locals.
HeldTypes ==
  \A w \in Workers :
    /\ pc[w] # "pop" => task[w] \in Futures
    /\ pc[w] \in Busy => task[w] \in Gens
    /\ pc[w] \in {"returned", "descend", "register"} => awa[w] \in Futures
    /\ pc[w] = "descend" => awa[w] \in Gens

\* A worker sleeps in pop(), has been woken there, has been refused, or is outside.
Apart == asleep \cap woken = {} /\ ended \cap (asleep \cup woken) = {}

TypeInv == TypeOK /\ HeldTypes /\ Apart
------------------------------------------------------------------------------
\* The queue's own steps, as the engine uses them.
LEMMA PushTypes ==
  ASSUME TypeOK, Apart, NEW f \in Futures, Q!Push(f)
  PROVE  /\ list' \in Seq(Futures)
         /\ currentSize' \in Int /\ popw' \in Int
         /\ closed' \in BOOLEAN
         /\ asleep' \subseteq Workers /\ woken' \subseteq Workers /\ ended' \subseteq Workers
         /\ cvIdle' \subseteq {Main}
         /\ task' = task
         /\ Apart'
BY DEF TypeOK, Apart, Q!Push, Q!NotifyOne

LEMMA PopTypes ==
  ASSUME TypeOK, Apart, NEW w \in Workers, Q!PopBegin(w) \/ Q!PopResume(w)
  PROVE  /\ list' \in Seq(Futures)
         /\ currentSize' \in Int /\ popw' \in Int
         /\ closed' \in BOOLEAN
         /\ asleep' \subseteq Workers /\ woken' \subseteq Workers /\ ended' \subseteq Workers
         /\ cvIdle' \subseteq {Main}
         /\ Apart'
         /\ \/ /\ w \in Q!Inside' \cup ended'
               /\ UNCHANGED <<task, list>>
            \/ /\ w \notin Q!Inside' \cup ended'
               /\ list # <<>>
               /\ list' = Tail(list)
               /\ task' = [task EXCEPT ![w] = Head(list)]
               /\ Head(list) \in Futures
<1>1. PICK p \in Int : Q!PopFrom(w, p)
  BY DEF TypeOK, Q!PopBegin, Q!PopResume
<1> w \notin asleep \cup ended
  BY DEF Q!PopBegin, Q!PopResume, Q!Inside, Apart
<1>2. CASE Q!Sleep(w, p)
  BY <1>2 DEF TypeOK, Apart, Q!Sleep, Q!Inside
<1>3. CASE Q!Refuse(w, p)
  BY <1>3 DEF TypeOK, Apart, Q!Refuse
<1>4. CASE Q!HandOut(w, p)
  <2>1. Head(list) \in Futures /\ Tail(list) \in Seq(Futures)
    BY <1>4 DEF TypeOK, Q!HandOut
  <2> QED BY <1>4, <2>1 DEF TypeOK, Apart, Q!HandOut, Q!Inside
<1> QED BY <1>1, <1>2, <1>3, <1>4 DEF Q!PopFrom

LEMMA TypeInit == Init => TypeInv
<1> SUFFICES ASSUME Init PROVE TypeInv
  OBVIOUS
<1>1. /\ list \in Seq(Futures)
      /\ task \in [Workers -> Futures \cup {None}]
  BY DEF Init, Q!QInit
<1>2. /\ gstate \in [Gens -> FutureState]
      /\ nstate \in [Notfs -> {"Running", "Completed", "Cancelled"}]
      /\ notifications \in [Futures -> Gens \cup {None}]
      /\ awaited \in [Gens -> Futures \cup {None}]
      /\ awa \in [Workers -> Futures \cup {None}]
      /\ need \in [Gens -> SUBSET Futures]
      /\ pc \in [Workers -> {"pop", "threado", "nuke", "proceed", "resume", "body",
                             "returned", "descend", "register"}]
      /\ rearms \in 0 .. Rearms
  BY EngineAssumption DEF Init, FutureState
<1>3. /\ currentSize = 0 /\ popw = 0 /\ closed = FALSE
      /\ asleep = {} /\ woken = {} /\ ended = {} /\ cvIdle = {}
  BY DEF Init, Q!QInit
<1>4. /\ done = {} /\ val = {} /\ yielded = {} /\ launched = {} /\ unannounced = {}
      /\ dropped = {} /\ outside = TRUE /\ wle = "off"
  BY DEF Init
<1>5. TypeOK
  <2>1. currentSize \in Int /\ popw \in Int
    BY <1>3
  <2>2. closed \in BOOLEAN /\ outside \in BOOLEAN
    BY <1>3, <1>4, Zenon
  <2>3. wle \in {"off", "lock", "test", "wait", "blocked", "close", "join", "returned"}
    BY <1>4
  <2> QED BY <1>1, <1>2, <1>3, <1>4, <2>1, <2>2, <2>3 DEF TypeOK
<1>6. HeldTypes /\ Apart
  BY <1>3 DEF Init, HeldTypes, Apart, Busy
<1> QED BY <1>5, <1>6 DEF TypeInv

LEMMA TypeNext == TypeInv /\ [Next]_vars => TypeInv'
<1> SUFFICES ASSUME TypeInv, [Next]_vars PROVE TypeInv'
  OBVIOUS
<1> USE EngineAssumption DEF TypeInv, HeldTypes, Busy
<1>1. ASSUME NEW w \in Workers, Pop(w) PROVE TypeInv'
  <2>1. task' \in [Workers -> Futures \cup {None}]
    BY <1>1, PopTypes DEF Pop, TypeOK
  <2>2. pc' \in [Workers -> {"pop", "threado", "nuke", "proceed", "resume", "body",
                             "returned", "descend", "register"}]
    BY <1>1 DEF Pop, TypeOK, GoTo
  <2>3. TypeOK'
    BY <1>1, <2>1, <2>2, PopTypes DEF Pop, TypeOK, genVars, outsideVars
  <2>4. HeldTypes'
    BY <1>1, PopTypes DEF Pop, TypeOK, GoTo
  <2> QED BY <1>1, <2>3, <2>4, PopTypes DEF Pop
<1>2. ASSUME NEW w \in Workers, PopSpurious(w) PROVE TypeInv'
  BY <1>2 DEF PopSpurious, Q!PopSpurious, Apart, TypeOK, genVars, outsideVars
<1>3. ASSUME NEW w \in Workers, Threado(w) PROVE TypeInv'
  BY <1>3 DEF Threado, TypeOK, genVars, outsideVars, queueVars, Apart, GoTo
<1>4. ASSUME NEW w \in Workers, Nuke(w) PROVE TypeInv'
  <2>1. CASE notifications[task[w]] = None
    BY <1>4, <2>1 DEF Nuke, TypeOK, genVars, outsideVars, queueVars, Apart, GoTo
  <2>2. CASE notifications[task[w]] # None
    <3>1. notifications[task[w]] \in Gens
      BY <1>4, <2>2 DEF Nuke, TypeOK
    <3>2. cvIdle' \subseteq {Main} /\ notifications' \in [Futures -> Gens \cup {None}]
      BY <1>4, <2>2 DEF Nuke, NotifiDrop, TypeOK
    <3>3. /\ task' \in [Workers -> Futures \cup {None}]
          /\ pc' \in [Workers -> {"pop", "threado", "nuke", "proceed", "resume", "body",
                             "returned", "descend", "register"}]
      <4>1. task' = [task EXCEPT ![w] = notifications[task[w]]]
        BY <1>4, <2>2 DEF Nuke
      <4>2. notifications[task[w]] \in Futures
        BY <3>1 DEF Futures
      <4>3. task' \in [Workers -> Futures \cup {None}]
        BY <4>1, <4>2 DEF TypeOK
      <4>4. pc' \in [Workers -> {"pop", "threado", "nuke", "proceed", "resume", "body",
                             "returned", "descend", "register"}]
        BY <1>4, <2>2 DEF Nuke, TypeOK, GoTo
      <4> QED BY <4>3, <4>4
    <3>4. TypeOK'
      BY <1>4, <2>2, <3>1, <3>2, <3>3
      DEF Nuke, NotifiDrop, TypeOK, genVars, outsideVars
    <3>5. HeldTypes'
      BY <1>4, <2>2, <3>1 DEF Nuke, TypeOK, GoTo, Futures
    <3>6. Apart'
      BY <1>4, <2>2 DEF Nuke, NotifiDrop, Apart
    <3> QED BY <3>4, <3>5, <3>6
  <2> QED BY <2>1, <2>2
<1>5. ASSUME NEW w \in Workers, Proceed(w) PROVE TypeInv'
  <2>1. CASE notifications[task[w]] = None
    BY <1>5, <2>1 DEF Proceed, TypeOK, genVars, outsideVars, queueVars, Apart, GoTo
  <2>2. CASE notifications[task[w]] # None
    <3>1. notifications[task[w]] \in Gens
      BY <1>5, <2>2 DEF Proceed, TypeOK
    <3>2. cvIdle' \subseteq {Main} /\ notifications' \in [Futures -> Gens \cup {None}]
      BY <1>5, <2>2 DEF Proceed, NotifiDrop, TypeOK
    <3>3. /\ task' \in [Workers -> Futures \cup {None}]
          /\ pc' \in [Workers -> {"pop", "threado", "nuke", "proceed", "resume", "body",
                             "returned", "descend", "register"}]
      <4>1. task' = [task EXCEPT ![w] = notifications[task[w]]]
        BY <1>5, <2>2 DEF Proceed
      <4>2. notifications[task[w]] \in Futures
        BY <3>1 DEF Futures
      <4>3. task' \in [Workers -> Futures \cup {None}]
        BY <4>1, <4>2 DEF TypeOK
      <4>4. pc' \in [Workers -> {"pop", "threado", "nuke", "proceed", "resume", "body",
                             "returned", "descend", "register"}]
        BY <1>5, <2>2 DEF Proceed, TypeOK, GoTo
      <4> QED BY <4>3, <4>4
    <3>4. TypeOK'
      BY <1>5, <2>2, <3>1, <3>2, <3>3
      DEF Proceed, NotifiDrop, TypeOK, genVars, outsideVars
    <3>5. HeldTypes'
      BY <1>5, <2>2, <3>1 DEF Proceed, TypeOK, GoTo, Futures
    <3>6. Apart'
      BY <1>5, <2>2 DEF Proceed, NotifiDrop, Apart
    <3> QED BY <3>4, <3>5, <3>6
  <2> QED BY <2>1, <2>2
<1>6. ASSUME NEW w \in Workers, Resume(w) PROVE TypeInv'
  BY <1>6 DEF Resume, TypeOK, outsideVars, queueVars, Apart, GoTo, FutureState
<1>7. ASSUME NEW w \in Workers, NEW h \in Gens, BodyLaunch(w, h) PROVE TypeInv'
  BY <1>7, PushTypes DEF BodyLaunch, Execute, TypeOK, workerVars, Futures, FutureState
<1>8. ASSUME NEW w \in Workers, NEW n \in Notfs, BodyRearm(w, n) PROVE TypeInv'
  BY <1>8 DEF BodyRearm, TypeOK, workerVars, queueVars, Apart, Futures
<1>9. ASSUME NEW w \in Workers, NEW f \in Futures, BodyAwait(w, f) PROVE TypeInv'
  BY <1>9 DEF BodyAwait, TypeOK, queueVars, Apart, outsideVars, GoTo
<1>10. ASSUME NEW w \in Workers, BodyFinish(w) PROVE TypeInv'
  BY <1>10 DEF BodyFinish, TypeOK, queueVars, Apart, outsideVars, GoTo, FutureState,
     Futures
<1>11. ASSUME NEW w \in Workers, BodyYield(w) PROVE TypeInv'
  BY <1>11 DEF BodyYield, TypeOK, queueVars, Apart, outsideVars, GoTo, FutureState,
     Futures
<1>12. ASSUME NEW w \in Workers, Returned(w) PROVE TypeInv'
  <2>1. StateOf(awa[w]) = "Suspended" => awa[w] \in Gens
    BY <1>12 DEF Returned, StateOf, TypeOK, Futures
  <2>2. /\ pc[w] = "returned" /\ task[w] \in Gens
        /\ UNCHANGED <<queueVars, task, awa, done, val, need, awaited, yielded, nstate,
                       notifications, outsideVars, wle, dropped>>
    BY <1>12 DEF Returned
  <2>3. gstate' \in [Gens -> FutureState]
    BY <1>12, <2>2 DEF Returned, TypeOK, FutureState
  <2>4. /\ pc' = [pc EXCEPT ![w] = pc'[w]]
        /\ pc'[w] \in {"resume", "descend", "register"}
        /\ pc'[w] = "descend" => awa[w] \in Gens
    BY <1>12, <2>1 DEF Returned, TypeOK, GoTo
  <2>5. TypeOK'
    BY <2>2, <2>3, <2>4 DEF TypeOK, queueVars, outsideVars
  <2>6. HeldTypes'
    BY <2>2, <2>4 DEF TypeOK
  <2>7. Apart'
    BY <2>2 DEF Apart, queueVars
  <2> QED BY <2>5, <2>6, <2>7
<1>13. ASSUME NEW w \in Workers, Descend(w) PROVE TypeInv'
  BY <1>13 DEF Descend, NotifiAdd, TypeOK, queueVars, Apart, genVars, outsideVars, GoTo,
     Futures
<1>14. ASSUME NEW w \in Workers, Register(w) PROVE TypeInv'
  BY <1>14 DEF Register, NotifiAdd, TypeOK, queueVars, Apart, genVars, outsideVars, GoTo
<1>15. ASSUME NEW g \in Gens, Submit(g) PROVE TypeInv'
  BY <1>15, PushTypes DEF Submit, Execute, TypeOK, workerVars, Futures, FutureState
<1>16. ASSUME NEW n \in Notfs, NEW s \in {"Completed", "Cancelled"}, Settle(n, s)
       PROVE  TypeInv'
  BY <1>16 DEF Settle, TypeOK, workerVars, queueVars, Apart, genVars
<1>17. ASSUME NEW n \in Notfs, Notify(n) PROVE TypeInv'
  BY <1>17, PushTypes DEF Notify, TypeOK, workerVars, genVars, Futures
<1>18. CASE OutsideEnds
  BY <1>18 DEF OutsideEnds, TypeOK, workerVars, queueVars, Apart, genVars
<1>19. CASE Wle
  BY <1>19 DEF Wle, WleCall, WleLock, WleTest, WleWait, WleWake, WleSpurious, WleClose,
               WleJoin, WleGoes, Q!IdleBlock, Q!Close, Q!Inside, TypeOK, workerVars,
               queueVars, Apart, genVars, outsideVars
<1>20. CASE UNCHANGED vars
  BY <1>20 DEF vars, TypeOK, workerVars, queueVars, Apart, genVars, outsideVars
<1> QED
  BY <1>1, <1>2, <1>3, <1>4, <1>5, <1>6, <1>7, <1>8, <1>9, <1>10, <1>11, <1>12, <1>13,
     <1>14, <1>15, <1>16, <1>17, <1>18, <1>19, <1>20
  DEF Next, Worker, Body, Outside

\* The engine's types, for any number of workers.
THEOREM EngineTypeOK == SafeSpec => []TypeOK
<1>1. TypeInv => TypeOK
  BY DEF TypeInv
<1> QED BY <1>1, TypeInit, TypeNext, PTL DEF SafeSpec
------------------------------------------------------------------------------
\* From here on the engine has one worker.
SingleWorker == \A v, w \in Workers : v = w

\* What the worker's position says of the future it works on.
HeldInv ==
  \A w \in Workers :
    /\ pc[w] = "threado" /\ task[w] \in Gens =>
         gstate[task[w]] = "Queued" /\ task[w] \notin Queued
    /\ pc[w] = "nuke" /\ task[w] \in Gens => task[w] \in dropped
    /\ pc[w] \in Busy => task[w] \notin Queued
    /\ pc[w] \in {"returned", "descend", "register"} =>
         awa[w] \in Awaits[task[w]] /\ awaited[task[w]] = awa[w]
    /\ pc[w] \in {"descend", "register"} => gstate[task[w]] = "Awaiting"
    /\ pc[w] = "descend" => gstate[awa[w]] = "Suspended"
    /\ pc[w] = "register" => OnItsWay(awa[w])

\* A generator is in the queue once ...
UniqueInv ==
  \A i, j \in DOMAIN list : list[i] = list[j] /\ list[i] \in Gens => i = j

\* ... and then its state says so.
QueuedInv == \A g \in Gens : g \in Queued => gstate[g] = "Queued"

\* What a generator's state says of where it is.
StateInv ==
  \A g \in Gens :
    /\ gstate[g] = "Queued" => g \in Queued \/ HasAt(g, {"threado", "resume"})
    /\ gstate[g] = "Awaiting" =>
         \/ g \in dropped
         \/ \E k \in Futures : notifications[k] = g
         \/ HasAt(g, {"resume", "descend", "register"})
    /\ gstate[g] = "Running" => HasAt(g, {"resume", "body", "returned"})

\* An awaiter in the map waits, for that future and no other, and nobody runs it.
MapInv ==
  \A f \in Futures : notifications[f] # None =>
    /\ awaited[notifications[f]] = f
    /\ f \in Awaits[notifications[f]]
    /\ gstate[notifications[f]] = "Awaiting"
    /\ \A w \in Workers : pc[w] \in Busy => task[w] # notifications[f]

\* A generator that is still to be launched is nowhere.
FreshInv ==
  \A g \in Launchable \ launched :
    /\ gstate[g] = "Suspended"
    /\ \A w \in Workers :
         /\ pc[w] # "pop" => task[w] # g
         /\ pc[w] \in {"returned", "descend", "register"} => awa[w] # g

NeedInv == \A g \in Gens : need[g] \subseteq Awaits[g]

WakeupInv ==
  /\ TypeInv
  /\ HeldInv
  /\ UniqueInv
  /\ QueuedInv
  /\ StateInv
  /\ MapInv
  /\ FreshInv
  /\ NeedInv
  /\ NoLostWakeup
------------------------------------------------------------------------------
LEMMA PushQueued ==
  ASSUME TypeOK, UniqueInv, NEW f \in Futures, Q!Push(f), f \in Gens => f \notin Queued
  PROVE  Queued' = Queued \cup {f} /\ UniqueInv'
<1>1. /\ list' = Append(list, f)
      /\ list \in Seq(Futures)
  BY DEF Q!Push, TypeOK
<1>2. /\ DOMAIN list = 1 .. Len(list)
      /\ DOMAIN list' = 1 .. Len(list) + 1
      /\ Len(list) \in Nat
      /\ \A i \in 1 .. Len(list) : list'[i] = list[i]
      /\ list'[Len(list) + 1] = f
  BY <1>1
<1>3. Queued' = Queued \cup {f}
  BY <1>2 DEF Queued
<1>4. UniqueInv'
  BY <1>2 DEF UniqueInv, Queued
<1> QED BY <1>3, <1>4

LEMMA TailQueued ==
  ASSUME TypeOK, UniqueInv, list # <<>>, list' = Tail(list)
  PROVE  /\ Queued = Queued' \cup {Head(list)}
         /\ Head(list) \in Futures
         /\ UniqueInv'
         /\ Head(list) \in Gens => Head(list) \notin Queued'
<1>1. list \in Seq(Futures)
  BY DEF TypeOK
<1>2. /\ DOMAIN list = 1 .. Len(list)
      /\ Len(list) \in Nat \ {0}
      /\ DOMAIN list' = 1 .. Len(list) - 1
      /\ \A i \in 1 .. Len(list) - 1 : list'[i] = list[i + 1]
      /\ Head(list) = list[1]
  BY <1>1
<1>3. Queued = Queued' \cup {Head(list)}
  <2>1. ASSUME NEW i \in 1 .. Len(list) PROVE list[i] \in Queued' \cup {Head(list)}
    <3>1. CASE i = 1
      BY <3>1, <1>2
    <3>2. CASE i # 1
      <4>1. i - 1 \in 1 .. Len(list) - 1 /\ list'[i - 1] = list[i]
        BY <3>2, <1>2
      <4> QED BY <4>1, <1>2 DEF Queued
    <3> QED BY <3>1, <3>2
  <2>2. ASSUME NEW i \in 1 .. Len(list) - 1 PROVE list'[i] \in Queued
    BY <1>2 DEF Queued
  <2>3. Head(list) \in Queued
    BY <1>2 DEF Queued
  <2>4. Queued = {list[i] : i \in 1 .. Len(list)}
    BY <1>2, Zenon DEF Queued
  <2>5. Queued' = {list'[i] : i \in 1 .. Len(list) - 1}
    BY <1>2, Zenon DEF Queued
  <2>6. Queued \subseteq Queued' \cup {Head(list)}
    BY <2>1, <2>4, Zenon
  <2>7. Queued' \subseteq Queued
    BY <2>2, <2>5, Zenon
  <2> QED BY <2>3, <2>6, <2>7, Zenon
<1>4. UniqueInv'
  <2> SUFFICES ASSUME NEW i \in 1 .. Len(list) - 1, NEW j \in 1 .. Len(list) - 1,
                      list'[i] = list'[j], list'[i] \in Gens
               PROVE  i = j
    BY <1>2, Zenon DEF UniqueInv
  <2>1. list[i + 1] = list[j + 1] /\ list[i + 1] \in Gens
    BY <1>2
  <2>2. i + 1 \in DOMAIN list /\ j + 1 \in DOMAIN list
    BY <1>2
  <2>3. i + 1 = j + 1
    BY <2>1, <2>2, Zenon DEF UniqueInv
  <2> QED BY <2>3
<1>5. Head(list) \in Gens => Head(list) \notin Queued'
  BY <1>2 DEF UniqueInv, Queued
<1>6. Head(list) \in Futures
  BY <1>1, <1>2
<1> QED BY <1>3, <1>4, <1>5, <1>6

LEMMA SameQueued ==
  ASSUME UniqueInv, list' = list
  PROVE  Queued' = Queued /\ UniqueInv'
BY DEF UniqueInv, Queued
------------------------------------------------------------------------------
\* What pop() hands out leaves the queue and is in the worker's hands.
LEMMA PopKeeps ==
  ASSUME SingleWorker, WakeupInv, TypeInv', NEW w \in Workers, Pop(w)
  PROVE  WakeupInv'
<1> USE EngineAssumption
<1> USE DEF WakeupInv, TypeInv, Busy, HeldTypes, queueVars, workerVars, genVars, outsideVars
<1>1. /\ UniqueInv'
      /\ \/ Queued' = Queued /\ UNCHANGED <<pc, task>>
         \/ \E f \in Futures : /\ Queued = Queued' \cup {f}
                               /\ f \in Gens => f \notin Queued'
                               /\ task' = [task EXCEPT ![w] = f]
                               /\ pc' = [pc EXCEPT ![w] = "threado"]
  <2>1. CASE w \in Q!Inside' \cup ended'
    BY <2>1, PopTypes, SameQueued DEF Pop
  <2>2. CASE w \notin Q!Inside' \cup ended'
    <3>1. list # <<>> /\ list' = Tail(list) /\ task' = [task EXCEPT ![w] = Head(list)]
      BY <2>2, PopTypes DEF Pop
    <3>2. pc' = [pc EXCEPT ![w] = "threado"]
      BY <2>2 DEF Pop, GoTo
    <3> QED BY <3>1, <3>2, TailQueued
  <2> QED BY <2>1, <2>2
<1>2. CASE Queued' = Queued /\ UNCHANGED <<pc, task>>
  <2>1. HeldInv'
    BY <1>2 DEF Pop, HeldInv, OnItsWay, HasAt
  <2>2. QueuedInv'
    BY <1>2 DEF Pop, QueuedInv
  <2>3. StateInv'
    BY <1>2 DEF Pop, StateInv, HasAt
  <2>4. MapInv'
    BY <1>2 DEF Pop, MapInv
  <2>5. FreshInv'
    BY <1>2 DEF Pop, FreshInv
  <2>6. NeedInv'
    BY <1>2 DEF Pop, NeedInv
  <2>7. NoLostWakeup'
    BY <1>2 DEF Pop, NoLostWakeup, OnItsWay, HasAt
  <2> QED BY <1>1, <2>1, <2>2, <2>3, <2>4, <2>5, <2>6, <2>7
<1>3. CASE ~(Queued' = Queued /\ UNCHANGED <<pc, task>>)
  <2>1. PICK f \in Futures : /\ Queued = Queued' \cup {f}
                             /\ f \in Gens => f \notin Queued'
                             /\ task' = [task EXCEPT ![w] = f]
                             /\ pc' = [pc EXCEPT ![w] = "threado"]
    BY <1>1, <1>3
  <2>2. pc[w] = "pop"
    BY DEF Pop
  <2>3. pc'[w] = "threado" /\ task'[w] = f
    BY <2>1 DEF TypeOK
  <2>4. UNCHANGED <<awa, genVars, nstate, notifications, outsideVars, wle, dropped>>
    BY DEF Pop
  <2>5. HeldInv'
    BY <2>1, <2>2, <2>3, <2>4 DEF SingleWorker, HeldInv, QueuedInv, OnItsWay, HasAt
  <2>6. QueuedInv'
    BY <2>1, <2>2, <2>3, <2>4 DEF SingleWorker, QueuedInv
  <2>7. StateInv'
    BY <2>1, <2>2, <2>3, <2>4 DEF SingleWorker, StateInv, HasAt
  <2>8. MapInv'
    BY <2>1, <2>2, <2>3, <2>4 DEF SingleWorker, MapInv
  <2>9. FreshInv'
    BY <2>1, <2>2, <2>3, <2>4 DEF SingleWorker, FreshInv, QueuedInv, Launchable
  <2>10. NeedInv'
    BY <2>1, <2>2, <2>3, <2>4 DEF SingleWorker, NeedInv
  <2>11. NoLostWakeup'
    BY <2>1, <2>2, <2>3, <2>4 DEF SingleWorker, NoLostWakeup, OnItsWay, HasAt
  <2> QED BY <1>1, <2>5, <2>6, <2>7, <2>8, <2>9, <2>10, <2>11
<1> QED BY <1>2, <1>3

\* The tests at the top drop nothing that an awaiter is owed.
LEMMA ThreadoKeeps ==
  ASSUME SingleWorker, WakeupInv, TypeInv', NEW w \in Workers, Threado(w)
  PROVE  WakeupInv'
<1> USE EngineAssumption
<1> USE DEF WakeupInv, TypeInv, Busy, HeldTypes, queueVars, workerVars, genVars, outsideVars
<1>1. Queued' = Queued /\ UniqueInv'
  BY SameQueued DEF Threado, GoTo, StateOf
<1>2. HeldInv'
  BY <1>1 DEF Threado, GoTo, StateOf, TypeOK, SingleWorker, HeldInv, OnItsWay, HasAt,
     FreshInv, QueuedInv, MapInv, StateInv
<1>3. QueuedInv'
  BY <1>1 DEF Threado, GoTo, StateOf, TypeOK, SingleWorker, QueuedInv, HeldInv, FreshInv
<1>4. StateInv'
  BY <1>1 DEF Threado, GoTo, StateOf, TypeOK, SingleWorker, StateInv, HasAt, HeldInv,
     MapInv, FreshInv
<1>5. MapInv'
  BY <1>1 DEF Threado, GoTo, StateOf, TypeOK, SingleWorker, MapInv, HeldInv, FreshInv,
     QueuedInv, NeedInv
<1>6. FreshInv'
  BY <1>1 DEF Threado, GoTo, StateOf, TypeOK, SingleWorker, FreshInv, HeldInv, MapInv,
     QueuedInv
<1>7. NeedInv'
  BY <1>1 DEF Threado, GoTo, StateOf, TypeOK, SingleWorker, NeedInv
<1>8. NoLostWakeup'
  BY <1>1 DEF Threado, GoTo, StateOf, TypeOK, SingleWorker, NoLostWakeup, OnItsWay,
     HasAt, HeldInv, MapInv, StateInv, FreshInv, QueuedInv
<1> QED BY <1>1, <1>2, <1>3, <1>4, <1>5, <1>6, <1>7, <1>8

\* A cancellation takes the awaiter out of the map before it forgets the awaited.
LEMMA NukeKeeps ==
  ASSUME SingleWorker, WakeupInv, TypeInv', NEW w \in Workers, Nuke(w)
  PROVE  WakeupInv'
<1> USE EngineAssumption
<1> USE DEF WakeupInv, TypeInv, Busy, HeldTypes, queueVars, workerVars, genVars, outsideVars
<1>1. Queued' = Queued /\ UniqueInv'
  BY SameQueued DEF Nuke, GoTo, NotifiDrop
<1>2. HeldInv'
  BY <1>1 DEF Nuke, GoTo, NotifiDrop, TypeOK, SingleWorker, HeldInv, OnItsWay, HasAt,
     FreshInv, QueuedInv, MapInv, StateInv
<1>3. QueuedInv'
  BY <1>1 DEF Nuke, GoTo, NotifiDrop, TypeOK, SingleWorker, QueuedInv, HeldInv, FreshInv
<1>4. StateInv'
  <2>1. ASSUME NEW g \in Gens, NEW k \in Futures, notifications[k] = g
        PROVE  g \in dropped' \/ notifications'[k] = g
    BY <2>1 DEF Nuke, NotifiDrop, TypeOK, Futures
  <2>2. dropped \subseteq dropped' /\ UNCHANGED gstate
    BY DEF Nuke
  <2>3. pc[w] = "nuke"
    BY DEF Nuke
  <2> QED BY <1>1, <2>1, <2>2, <2>3 DEF StateInv, HasAt, SingleWorker
<1>5. MapInv'
  BY <1>1 DEF Nuke, GoTo, NotifiDrop, TypeOK, SingleWorker, MapInv, HeldInv, FreshInv,
     QueuedInv, NeedInv
<1>6. FreshInv'
  BY <1>1 DEF Nuke, GoTo, NotifiDrop, TypeOK, SingleWorker, FreshInv, HeldInv, MapInv,
     QueuedInv
<1>7. NeedInv'
  BY <1>1 DEF Nuke, GoTo, NotifiDrop, TypeOK, SingleWorker, NeedInv
<1>8. NoLostWakeup'
  BY <1>1 DEF Nuke, GoTo, NotifiDrop, TypeOK, SingleWorker, NoLostWakeup, OnItsWay,
     HasAt, HeldInv, MapInv, StateInv, FreshInv, QueuedInv
<1> QED BY <1>1, <1>2, <1>3, <1>4, <1>5, <1>6, <1>7, <1>8

\* The awaiter taken out of the map is the next task.
LEMMA ProceedKeeps ==
  ASSUME SingleWorker, WakeupInv, TypeInv', NEW w \in Workers, Proceed(w)
  PROVE  WakeupInv'
<1> USE EngineAssumption
<1> USE DEF WakeupInv, TypeInv, Busy, HeldTypes, queueVars, workerVars, genVars, outsideVars
<1>1. Queued' = Queued /\ UniqueInv'
  BY SameQueued DEF Proceed, GoTo, NotifiDrop
<1>2. HeldInv'
  BY <1>1 DEF Proceed, GoTo, NotifiDrop, TypeOK, SingleWorker, HeldInv, OnItsWay, HasAt,
     FreshInv, QueuedInv, MapInv, StateInv
<1>3. QueuedInv'
  BY <1>1 DEF Proceed, GoTo, NotifiDrop, TypeOK, SingleWorker, QueuedInv, HeldInv,
     FreshInv
<1>4. StateInv'
  BY <1>1 DEF Proceed, GoTo, NotifiDrop, TypeOK, SingleWorker, StateInv, HasAt, HeldInv,
     MapInv, FreshInv
<1>5. MapInv'
  BY <1>1 DEF Proceed, GoTo, NotifiDrop, TypeOK, SingleWorker, MapInv, HeldInv,
     FreshInv, QueuedInv, NeedInv
<1>6. FreshInv'
  BY <1>1 DEF Proceed, GoTo, NotifiDrop, TypeOK, SingleWorker, FreshInv, HeldInv,
     MapInv, QueuedInv
<1>7. NeedInv'
  BY <1>1 DEF Proceed, GoTo, NotifiDrop, TypeOK, SingleWorker, NeedInv
<1>8. NoLostWakeup'
  BY <1>1 DEF Proceed, GoTo, NotifiDrop, TypeOK, SingleWorker, NoLostWakeup, OnItsWay,
     HasAt, HeldInv, MapInv, StateInv, FreshInv, QueuedInv
<1> QED BY <1>1, <1>2, <1>3, <1>4, <1>5, <1>6, <1>7, <1>8

\* The resumed generator is neither queued nor in the map.
LEMMA ResumeKeeps ==
  ASSUME SingleWorker, WakeupInv, TypeInv', NEW w \in Workers, Resume(w)
  PROVE  WakeupInv'
<1> USE EngineAssumption
<1> USE DEF WakeupInv, TypeInv, Busy, HeldTypes, queueVars, workerVars, genVars, outsideVars
<1>1. Queued' = Queued /\ UniqueInv'
  BY SameQueued DEF Resume, GoTo
<1>2. HeldInv'
  BY <1>1 DEF Resume, GoTo, TypeOK, SingleWorker, HeldInv, OnItsWay, HasAt, FreshInv,
     QueuedInv, MapInv, StateInv
<1>3. QueuedInv'
  BY <1>1 DEF Resume, GoTo, TypeOK, SingleWorker, QueuedInv, HeldInv, FreshInv
<1>4. StateInv'
  BY <1>1 DEF Resume, GoTo, TypeOK, SingleWorker, StateInv, HasAt, HeldInv, MapInv,
     FreshInv
<1>5. MapInv'
  BY <1>1 DEF Resume, GoTo, TypeOK, SingleWorker, MapInv, HeldInv, FreshInv, QueuedInv,
     NeedInv
<1>6. FreshInv'
  BY <1>1 DEF Resume, GoTo, TypeOK, SingleWorker, FreshInv, HeldInv, MapInv, QueuedInv
<1>7. NeedInv'
  BY <1>1 DEF Resume, GoTo, TypeOK, SingleWorker, NeedInv
<1>8. NoLostWakeup'
  BY <1>1 DEF Resume, GoTo, TypeOK, SingleWorker, NoLostWakeup, OnItsWay, HasAt,
     HeldInv, MapInv, StateInv, FreshInv, QueuedInv
<1> QED BY <1>1, <1>2, <1>3, <1>4, <1>5, <1>6, <1>7, <1>8

\* A launched generator was nowhere before it is queued.
LEMMA BodyLaunchKeeps ==
  ASSUME SingleWorker, WakeupInv, TypeInv', NEW w \in Workers, NEW h \in Gens, BodyLaunch(w, h)
  PROVE  WakeupInv'
<1> USE EngineAssumption
<1> USE DEF WakeupInv, TypeInv, Busy, HeldTypes, queueVars, workerVars, genVars, outsideVars
<1>1. Queued' = Queued \cup {h} /\ UniqueInv'
  BY PushQueued DEF BodyLaunch, Execute, Launchable, Futures, QueuedInv, FreshInv
<1>2. HeldInv'
  BY <1>1 DEF BodyLaunch, Execute, Launchable, TypeOK, SingleWorker, Q!Push, HeldInv,
     OnItsWay, HasAt, FreshInv, QueuedInv, MapInv, StateInv
<1>3. QueuedInv'
  BY <1>1 DEF BodyLaunch, Execute, Launchable, TypeOK, SingleWorker, Q!Push, QueuedInv,
     HeldInv, FreshInv
<1>4. StateInv'
  BY <1>1 DEF BodyLaunch, Execute, Launchable, TypeOK, SingleWorker, Q!Push, StateInv,
     HasAt, HeldInv, MapInv, FreshInv
<1>5. MapInv'
  BY <1>1 DEF BodyLaunch, Execute, Launchable, TypeOK, SingleWorker, Q!Push, MapInv,
     HeldInv, FreshInv, QueuedInv, NeedInv
<1>6. FreshInv'
  BY <1>1 DEF BodyLaunch, Execute, Launchable, TypeOK, SingleWorker, Q!Push, FreshInv,
     HeldInv, MapInv, QueuedInv
<1>7. NeedInv'
  BY <1>1 DEF BodyLaunch, Execute, Launchable, TypeOK, SingleWorker, Q!Push, NeedInv
<1>8. NoLostWakeup'
  BY <1>1 DEF BodyLaunch, Execute, Launchable, TypeOK, SingleWorker, Q!Push,
     NoLostWakeup, OnItsWay, HasAt, HeldInv, MapInv, StateInv, FreshInv, QueuedInv
<1> QED BY <1>1, <1>2, <1>3, <1>4, <1>5, <1>6, <1>7, <1>8

\* A reused outside future is open again.
LEMMA BodyRearmKeeps ==
  ASSUME SingleWorker, WakeupInv, TypeInv', NEW w \in Workers, NEW n \in Notfs, BodyRearm(w, n)
  PROVE  WakeupInv'
<1> USE EngineAssumption
<1> USE DEF WakeupInv, TypeInv, Busy, HeldTypes, queueVars, workerVars, genVars, outsideVars
<1>1. Queued' = Queued /\ UniqueInv'
  BY SameQueued DEF BodyRearm
<1>2. HeldInv'
  BY <1>1 DEF BodyRearm, TypeOK, SingleWorker, HeldInv, OnItsWay, HasAt, FreshInv,
     QueuedInv, MapInv, StateInv
<1>3. QueuedInv'
  BY <1>1 DEF BodyRearm, TypeOK, SingleWorker, QueuedInv, HeldInv, FreshInv
<1>4. StateInv'
  BY <1>1 DEF BodyRearm, TypeOK, SingleWorker, StateInv, HasAt, HeldInv, MapInv,
     FreshInv
<1>5. MapInv'
  BY <1>1 DEF BodyRearm, TypeOK, SingleWorker, MapInv, HeldInv, FreshInv, QueuedInv,
     NeedInv
<1>6. FreshInv'
  BY <1>1 DEF BodyRearm, TypeOK, SingleWorker, FreshInv, HeldInv, MapInv, QueuedInv
<1>7. NeedInv'
  BY <1>1 DEF BodyRearm, TypeOK, SingleWorker, NeedInv
<1>8. NoLostWakeup'
  BY <1>1 DEF BodyRearm, TypeOK, SingleWorker, NoLostWakeup, OnItsWay, HasAt, HeldInv,
     MapInv, StateInv, FreshInv, QueuedInv
<1> QED BY <1>1, <1>2, <1>3, <1>4, <1>5, <1>6, <1>7, <1>8

\* The body asks for a future that it alone awaits.
LEMMA BodyAwaitKeeps ==
  ASSUME SingleWorker, WakeupInv, TypeInv',
         NEW w \in Workers, NEW f \in Futures, BodyAwait(w, f)
  PROVE  WakeupInv'
<1> USE EngineAssumption
<1> USE DEF WakeupInv, TypeInv, Busy, HeldTypes, queueVars, workerVars, genVars, outsideVars
<1>1. Queued' = Queued /\ UniqueInv'
  BY SameQueued DEF BodyAwait, GoTo
<1>2. HeldInv'
  <2>1. f \in Awaits[task[w]] /\ task[w] \in Gens
    BY DEF BodyAwait, NeedInv
  <2> QED BY <1>1, <2>1 DEF BodyAwait, GoTo, TypeOK, SingleWorker, HeldInv
<1>3. QueuedInv'
  BY <1>1 DEF BodyAwait, GoTo, TypeOK, SingleWorker, QueuedInv, HeldInv, FreshInv
<1>4. StateInv'
  BY <1>1 DEF BodyAwait, GoTo, TypeOK, SingleWorker, StateInv, HasAt, HeldInv, MapInv,
     FreshInv
<1>5. MapInv'
  BY <1>1 DEF BodyAwait, GoTo, TypeOK, SingleWorker, MapInv, HeldInv, FreshInv,
     QueuedInv, NeedInv
<1>6. FreshInv'
  BY <1>1 DEF BodyAwait, GoTo, TypeOK, SingleWorker, FreshInv, HeldInv, MapInv,
     QueuedInv
<1>7. NeedInv'
  BY <1>1 DEF BodyAwait, GoTo, TypeOK, SingleWorker, NeedInv
<1>8. NoLostWakeup'
  BY <1>1 DEF BodyAwait, GoTo, TypeOK, SingleWorker, NoLostWakeup, OnItsWay, HasAt,
     HeldInv, MapInv, StateInv, FreshInv, QueuedInv
<1> QED BY <1>1, <1>2, <1>3, <1>4, <1>5, <1>6, <1>7, <1>8

\* The finished generator is still in the worker's hands.
LEMMA BodyFinishKeeps ==
  ASSUME SingleWorker, WakeupInv, TypeInv', NEW w \in Workers, BodyFinish(w)
  PROVE  WakeupInv'
<1> USE EngineAssumption
<1> USE DEF WakeupInv, TypeInv, Busy, HeldTypes, queueVars, workerVars, genVars, outsideVars
<1>1. Queued' = Queued /\ UniqueInv'
  BY SameQueued DEF BodyFinish, GoTo
<1>2. HeldInv'
  BY <1>1 DEF BodyFinish, GoTo, TypeOK, SingleWorker, HeldInv, OnItsWay, HasAt,
     FreshInv, QueuedInv, MapInv, StateInv
<1>3. QueuedInv'
  BY <1>1 DEF BodyFinish, GoTo, TypeOK, SingleWorker, QueuedInv, HeldInv, FreshInv
<1>4. StateInv'
  BY <1>1 DEF BodyFinish, GoTo, TypeOK, SingleWorker, StateInv, HasAt, HeldInv, MapInv,
     FreshInv
<1>5. MapInv'
  BY <1>1 DEF BodyFinish, GoTo, TypeOK, SingleWorker, MapInv, HeldInv, FreshInv,
     QueuedInv, NeedInv
<1>6. FreshInv'
  BY <1>1 DEF BodyFinish, GoTo, TypeOK, SingleWorker, FreshInv, HeldInv, MapInv,
     QueuedInv
<1>7. NeedInv'
  BY <1>1 DEF BodyFinish, GoTo, TypeOK, SingleWorker, NeedInv
<1>8. NoLostWakeup'
  BY <1>1 DEF BodyFinish, GoTo, TypeOK, SingleWorker, NoLostWakeup, OnItsWay, HasAt,
     HeldInv, MapInv, StateInv, FreshInv, QueuedInv
<1> QED BY <1>1, <1>2, <1>3, <1>4, <1>5, <1>6, <1>7, <1>8

\* So is one that has yielded.
LEMMA BodyYieldKeeps ==
  ASSUME SingleWorker, WakeupInv, TypeInv', NEW w \in Workers, BodyYield(w)
  PROVE  WakeupInv'
<1> USE EngineAssumption
<1> USE DEF WakeupInv, TypeInv, Busy, HeldTypes, queueVars, workerVars, genVars, outsideVars
<1>1. Queued' = Queued /\ UniqueInv'
  BY SameQueued DEF BodyYield, GoTo, Launchable
<1>2. HeldInv'
  BY <1>1 DEF BodyYield, GoTo, Launchable, TypeOK, SingleWorker, HeldInv, OnItsWay,
     HasAt, FreshInv, QueuedInv, MapInv, StateInv
<1>3. QueuedInv'
  BY <1>1 DEF BodyYield, GoTo, Launchable, TypeOK, SingleWorker, QueuedInv, HeldInv,
     FreshInv
<1>4. StateInv'
  BY <1>1 DEF BodyYield, GoTo, Launchable, TypeOK, SingleWorker, StateInv, HasAt,
     HeldInv, MapInv, FreshInv
<1>5. MapInv'
  BY <1>1 DEF BodyYield, GoTo, Launchable, TypeOK, SingleWorker, MapInv, HeldInv,
     FreshInv, QueuedInv, NeedInv
<1>6. FreshInv'
  BY <1>1 DEF BodyYield, GoTo, Launchable, TypeOK, SingleWorker, FreshInv, HeldInv,
     MapInv, QueuedInv
<1>7. NeedInv'
  BY <1>1 DEF BodyYield, GoTo, Launchable, TypeOK, SingleWorker, NeedInv
<1>8. NoLostWakeup'
  BY <1>1 DEF BodyYield, GoTo, Launchable, TypeOK, SingleWorker, NoLostWakeup, OnItsWay,
     HasAt, HeldInv, MapInv, StateInv, FreshInv, QueuedInv
<1> QED BY <1>1, <1>2, <1>3, <1>4, <1>5, <1>6, <1>7, <1>8

\* With one worker, a future that is not over when its state is read has somebody on the
\* way: it is queued, or waits itself, or the outside still has it.
LEMMA ReturnedKeeps ==
  ASSUME SingleWorker, WakeupInv, TypeInv', NEW w \in Workers, Returned(w)
  PROVE  WakeupInv'
<1> USE EngineAssumption
<1> USE DEF WakeupInv, TypeInv, Busy, HeldTypes, queueVars, workerVars, genVars, outsideVars
<1>1. Queued' = Queued /\ UniqueInv'
  BY SameQueued DEF Returned, GoTo, StateOf
<1>2. HeldInv'
  <2>1. /\ task[w] \in Gens /\ awa[w] \in Futures /\ awa[w] # task[w]
        /\ pc[w] = "returned" /\ UNCHANGED <<task, awa>>
    BY DEF Returned, HeldInv
  <2>2. CASE StateOf(awa[w]) \in {"Cancelled", "Completed"}
    BY <1>1, <2>1, <2>2 DEF Returned, GoTo, TypeOK, SingleWorker, HeldInv
  <2>3. CASE StateOf(awa[w]) = "Suspended"
    <3>1. awa[w] \in Gens
      BY <2>1, <2>3 DEF StateOf, TypeOK, Futures
    <3>2. gstate'[awa[w]] = "Suspended" /\ gstate'[task[w]] = "Awaiting" /\ pc'[w] = "descend"
      BY <2>1, <2>3, <3>1 DEF Returned, GoTo, TypeOK, StateOf
    <3> QED BY <1>1, <2>1, <3>1, <3>2 DEF Returned, SingleWorker, HeldInv
  <2>4. CASE StateOf(awa[w]) \in {"Queued", "Awaiting", "Running"}
    <3>1. gstate'[task[w]] = "Awaiting" /\ pc'[w] = "register"
      BY <2>1, <2>4 DEF Returned, GoTo, TypeOK
    <3>2. ASSUME awa[w] \in Notfs PROVE OnItsWay(awa[w])'
      <4>1. nstate[awa[w]] = "Running"
        BY <2>4, <3>2, EngineAssumption DEF StateOf, TypeOK
      <4> QED BY <3>2, <4>1 DEF Returned, OnItsWay, genVars
    <3>3. ASSUME awa[w] \in Gens PROVE OnItsWay(awa[w])'
      <4>1. gstate[awa[w]] \in {"Queued", "Awaiting", "Running"}
        BY <2>4, <3>3 DEF StateOf
      <4>2. \A L : ~HasAt(awa[w], L)
        BY <2>1 DEF HasAt, SingleWorker
      <4>3. \/ gstate[awa[w]] = "Queued" /\ awa[w] \in Queued
            \/ gstate[awa[w]] = "Awaiting" /\ \/ awa[w] \in dropped
                                              \/ \E k \in Futures : notifications[k] = awa[w]
        BY <3>3, <4>1, <4>2 DEF StateInv
      <4>4. gstate'[awa[w]] = gstate[awa[w]]
        BY <2>1, <3>3 DEF Returned, TypeOK
      <4> QED BY <1>1, <2>1, <3>3, <4>3, <4>4 DEF Returned, OnItsWay
    <3> QED BY <1>1, <2>1, <3>1, <3>2, <3>3 DEF Returned, SingleWorker, HeldInv, Futures
  <2> QED BY <2>2, <2>3, <2>4 DEF Returned
<1>3. QueuedInv'
  BY <1>1 DEF Returned, GoTo, StateOf, TypeOK, SingleWorker, QueuedInv, HeldInv,
     FreshInv
<1>4. StateInv'
  BY <1>1 DEF Returned, GoTo, StateOf, TypeOK, SingleWorker, StateInv, HasAt, HeldInv,
     MapInv, FreshInv
<1>5. MapInv'
  BY <1>1 DEF Returned, GoTo, StateOf, TypeOK, SingleWorker, MapInv, HeldInv, FreshInv,
     QueuedInv, NeedInv
<1>6. FreshInv'
  <2>1. /\ pc[w] = "returned" /\ pc'[w] \in {"resume", "descend", "register"}
        /\ UNCHANGED <<task, awa, launched>>
    BY DEF Returned, GoTo, TypeOK
  <2>2. \A g \in Gens \ {task[w]} : gstate'[g] = gstate[g]
    BY DEF Returned, TypeOK
  <2>3. Launchable \subseteq Gens
    BY DEF Launchable
  <2> QED BY <2>1, <2>2, <2>3 DEF FreshInv, SingleWorker
<1>7. NeedInv'
  BY <1>1 DEF Returned, GoTo, StateOf, TypeOK, SingleWorker, NeedInv
<1>8. NoLostWakeup'
  BY <1>1 DEF Returned, GoTo, StateOf, TypeOK, SingleWorker, NoLostWakeup, OnItsWay,
     HasAt, HeldInv, MapInv, StateInv, FreshInv, QueuedInv
<1> QED BY <1>1, <1>2, <1>3, <1>4, <1>5, <1>6, <1>7, <1>8

\* The suspended generator becomes the task as its awaiter enters the map.
LEMMA DescendKeeps ==
  ASSUME SingleWorker, WakeupInv, TypeInv', NEW w \in Workers, Descend(w)
  PROVE  WakeupInv'
<1> USE EngineAssumption
<1> USE DEF WakeupInv, TypeInv, Busy, HeldTypes, queueVars, workerVars, genVars, outsideVars
<1>1. Queued' = Queued /\ UniqueInv'
  BY SameQueued DEF Descend, GoTo, NotifiAdd
<1>2. HeldInv'
  BY <1>1 DEF Descend, GoTo, NotifiAdd, TypeOK, SingleWorker, HeldInv, OnItsWay, HasAt,
     FreshInv, QueuedInv, MapInv, StateInv
<1>3. QueuedInv'
  BY <1>1 DEF Descend, GoTo, NotifiAdd, TypeOK, SingleWorker, QueuedInv, HeldInv,
     FreshInv
<1>4. StateInv'
  <2>1. /\ task[w] \in Gens /\ awa[w] \in Futures
        /\ awa[w] \in Awaits[task[w]] /\ notifications'[awa[w]] = task[w]
        /\ pc[w] = "descend" /\ UNCHANGED gstate
    BY DEF Descend, NotifiAdd, TypeOK, HeldInv, genVars
  <2>2. ASSUME NEW g \in Gens, NEW k \in Futures, notifications[k] = g
        PROVE  notifications'[k] = g
    <3>1. k \in Awaits[g] /\ notifications[k] # None
      BY <2>2 DEF MapInv, Futures
    <3>2. CASE k = awa[w]
      BY <2>1, <2>2, <3>1, <3>2
    <3>3. CASE k # awa[w]
      BY <2>2, <3>3 DEF Descend, NotifiAdd, TypeOK
    <3> QED BY <3>2, <3>3
  <2>3. \E k \in Futures : notifications'[k] = task[w]
    BY <2>1
  <2> QED
    BY <1>1, <2>1, <2>2, <2>3 DEF Descend, StateInv, HasAt, SingleWorker, HeldInv,
       genVars
<1>5. MapInv'
  BY <1>1 DEF Descend, GoTo, NotifiAdd, TypeOK, SingleWorker, MapInv, HeldInv, FreshInv,
     QueuedInv, NeedInv
<1>6. FreshInv'
  BY <1>1 DEF Descend, GoTo, NotifiAdd, TypeOK, SingleWorker, FreshInv, HeldInv, MapInv,
     QueuedInv
<1>7. NeedInv'
  BY <1>1 DEF Descend, GoTo, NotifiAdd, TypeOK, SingleWorker, NeedInv
<1>8. NoLostWakeup'
  BY <1>1 DEF Descend, GoTo, NotifiAdd, TypeOK, SingleWorker, NoLostWakeup, OnItsWay,
     HasAt, HeldInv, MapInv, StateInv, FreshInv, QueuedInv
<1> QED BY <1>1, <1>2, <1>3, <1>4, <1>5, <1>6, <1>7, <1>8

\* The awaiter enters the map while somebody is still on the way.
LEMMA RegisterKeeps ==
  ASSUME SingleWorker, WakeupInv, TypeInv', NEW w \in Workers, Register(w)
  PROVE  WakeupInv'
<1> USE EngineAssumption
<1> USE DEF WakeupInv, TypeInv, Busy, HeldTypes, queueVars, workerVars, genVars, outsideVars
<1>1. Queued' = Queued /\ UniqueInv'
  BY SameQueued DEF Register, GoTo, NotifiAdd
<1>2. HeldInv'
  BY <1>1 DEF Register, GoTo, NotifiAdd, TypeOK, SingleWorker, HeldInv, OnItsWay, HasAt,
     FreshInv, QueuedInv, MapInv, StateInv
<1>3. QueuedInv'
  BY <1>1 DEF Register, GoTo, NotifiAdd, TypeOK, SingleWorker, QueuedInv, HeldInv,
     FreshInv
<1>4. StateInv'
  <2>1. /\ task[w] \in Gens /\ awa[w] \in Futures
        /\ awa[w] \in Awaits[task[w]] /\ notifications'[awa[w]] = task[w]
        /\ pc[w] = "register" /\ UNCHANGED gstate
    BY DEF Register, NotifiAdd, TypeOK, HeldInv, genVars
  <2>2. ASSUME NEW g \in Gens, NEW k \in Futures, notifications[k] = g
        PROVE  notifications'[k] = g
    <3>1. k \in Awaits[g] /\ notifications[k] # None
      BY <2>2 DEF MapInv, Futures
    <3>2. CASE k = awa[w]
      BY <2>1, <2>2, <3>1, <3>2
    <3>3. CASE k # awa[w]
      BY <2>2, <3>3 DEF Register, NotifiAdd, TypeOK
    <3> QED BY <3>2, <3>3
  <2>3. \E k \in Futures : notifications'[k] = task[w]
    BY <2>1
  <2> QED
    BY <1>1, <2>1, <2>2, <2>3 DEF Register, StateInv, HasAt, SingleWorker, HeldInv,
       genVars
<1>5. MapInv'
  BY <1>1 DEF Register, GoTo, NotifiAdd, TypeOK, SingleWorker, MapInv, HeldInv,
     FreshInv, QueuedInv, NeedInv
<1>6. FreshInv'
  BY <1>1 DEF Register, GoTo, NotifiAdd, TypeOK, SingleWorker, FreshInv, HeldInv,
     MapInv, QueuedInv
<1>7. NeedInv'
  BY <1>1 DEF Register, GoTo, NotifiAdd, TypeOK, SingleWorker, NeedInv
<1>8. NoLostWakeup'
  BY <1>1 DEF Register, GoTo, NotifiAdd, TypeOK, SingleWorker, NoLostWakeup, OnItsWay,
     HasAt, HeldInv, MapInv, StateInv, FreshInv, QueuedInv
<1> QED BY <1>1, <1>2, <1>3, <1>4, <1>5, <1>6, <1>7, <1>8

\* A submitted generator was nowhere before it is queued.
LEMMA SubmitKeeps ==
  ASSUME SingleWorker, WakeupInv, TypeInv', NEW g \in Gens, Submit(g)
  PROVE  WakeupInv'
<1> USE EngineAssumption
<1> USE DEF WakeupInv, TypeInv, Busy, HeldTypes, queueVars, workerVars, genVars, outsideVars
<1>1. Queued' = Queued \cup {g} /\ UniqueInv'
  BY PushQueued DEF Submit, Execute, Launchable, Futures, QueuedInv, FreshInv
<1>2. HeldInv'
  BY <1>1 DEF Submit, Execute, Launchable, TypeOK, SingleWorker, Q!Push, HeldInv,
     OnItsWay, HasAt, FreshInv, QueuedInv, MapInv, StateInv
<1>3. QueuedInv'
  BY <1>1 DEF Submit, Execute, Launchable, TypeOK, SingleWorker, Q!Push, QueuedInv,
     HeldInv, FreshInv
<1>4. StateInv'
  BY <1>1 DEF Submit, Execute, Launchable, TypeOK, SingleWorker, Q!Push, StateInv,
     HasAt, HeldInv, MapInv, FreshInv
<1>5. MapInv'
  BY <1>1 DEF Submit, Execute, Launchable, TypeOK, SingleWorker, Q!Push, MapInv,
     HeldInv, FreshInv, QueuedInv, NeedInv
<1>6. FreshInv'
  BY <1>1 DEF Submit, Execute, Launchable, TypeOK, SingleWorker, Q!Push, FreshInv,
     HeldInv, MapInv, QueuedInv
<1>7. NeedInv'
  BY <1>1 DEF Submit, Execute, Launchable, TypeOK, SingleWorker, Q!Push, NeedInv
<1>8. NoLostWakeup'
  BY <1>1 DEF Submit, Execute, Launchable, TypeOK, SingleWorker, Q!Push, NoLostWakeup,
     OnItsWay, HasAt, HeldInv, MapInv, StateInv, FreshInv, QueuedInv
<1> QED BY <1>1, <1>2, <1>3, <1>4, <1>5, <1>6, <1>7, <1>8

\* A settled future is announced later.
LEMMA SettleKeeps ==
  ASSUME SingleWorker, WakeupInv, TypeInv',
         NEW n \in Notfs, NEW s \in {"Completed", "Cancelled"}, Settle(n, s)
  PROVE  WakeupInv'
<1> USE EngineAssumption
<1> USE DEF WakeupInv, TypeInv, Busy, HeldTypes, queueVars, workerVars, genVars, outsideVars
<1>1. Queued' = Queued /\ UniqueInv'
  BY SameQueued DEF Settle
<1>2. HeldInv'
  BY <1>1 DEF Settle, TypeOK, SingleWorker, HeldInv, OnItsWay, HasAt, FreshInv,
     QueuedInv, MapInv, StateInv
<1>3. QueuedInv'
  BY <1>1 DEF Settle, TypeOK, SingleWorker, QueuedInv, HeldInv, FreshInv
<1>4. StateInv'
  BY <1>1 DEF Settle, StateInv, HasAt
<1>5. MapInv'
  BY <1>1 DEF Settle, TypeOK, SingleWorker, MapInv, HeldInv, FreshInv, QueuedInv,
     NeedInv
<1>6. FreshInv'
  BY <1>1 DEF Settle, TypeOK, SingleWorker, FreshInv, HeldInv, MapInv, QueuedInv
<1>7. NeedInv'
  BY <1>1 DEF Settle, TypeOK, SingleWorker, NeedInv
<1>8. NoLostWakeup'
  BY <1>1 DEF Settle, TypeOK, SingleWorker, NoLostWakeup, OnItsWay, HasAt, HeldInv,
     MapInv, StateInv, FreshInv, QueuedInv
<1> QED BY <1>1, <1>2, <1>3, <1>4, <1>5, <1>6, <1>7, <1>8

\* An announced future is queued.
LEMMA NotifyKeeps ==
  ASSUME SingleWorker, WakeupInv, TypeInv', NEW n \in Notfs, Notify(n)
  PROVE  WakeupInv'
<1> USE EngineAssumption
<1> USE DEF WakeupInv, TypeInv, Busy, HeldTypes, queueVars, workerVars, genVars, outsideVars
<1>1. Queued' = Queued \cup {n} /\ UniqueInv'
  BY PushQueued DEF Notify, Futures, QueuedInv, FreshInv
<1>2. HeldInv'
  BY <1>1 DEF Notify, TypeOK, SingleWorker, Q!Push, HeldInv, OnItsWay, HasAt, FreshInv,
     QueuedInv, MapInv, StateInv
<1>3. QueuedInv'
  BY <1>1 DEF Notify, TypeOK, SingleWorker, Q!Push, QueuedInv, HeldInv, FreshInv
<1>4. StateInv'
  BY <1>1 DEF Notify, TypeOK, SingleWorker, Q!Push, StateInv, HasAt, HeldInv, MapInv,
     FreshInv
<1>5. MapInv'
  BY <1>1 DEF Notify, TypeOK, SingleWorker, Q!Push, MapInv, HeldInv, FreshInv,
     QueuedInv, NeedInv
<1>6. FreshInv'
  BY <1>1 DEF Notify, TypeOK, SingleWorker, Q!Push, FreshInv, HeldInv, MapInv, QueuedInv
<1>7. NeedInv'
  BY <1>1 DEF Notify, TypeOK, SingleWorker, Q!Push, NeedInv
<1>8. NoLostWakeup'
  BY <1>1 DEF Notify, TypeOK, SingleWorker, Q!Push, NoLostWakeup, OnItsWay, HasAt,
     HeldInv, MapInv, StateInv, FreshInv, QueuedInv
<1> QED BY <1>1, <1>2, <1>3, <1>4, <1>5, <1>6, <1>7, <1>8

\* Steps that leave the futures, the map, the worker's place and the queue's list alone.
LEMMA QuietKeeps ==
  ASSUME WakeupInv, TypeInv',
         UNCHANGED <<list, workerVars, genVars, nstate, notifications, launched,
                     unannounced, dropped>>
  PROVE  WakeupInv'
<1> USE DEF WakeupInv, workerVars, genVars
<1>1. Queued' = Queued /\ UniqueInv'
  BY SameQueued
<1>2. HeldInv'
  BY <1>1 DEF HeldInv, OnItsWay, HasAt
<1>3. QueuedInv' /\ StateInv'
  BY <1>1 DEF QueuedInv, StateInv, HasAt
<1>4. MapInv' /\ FreshInv' /\ NeedInv'
  BY DEF MapInv, FreshInv, NeedInv
<1>5. NoLostWakeup'
  BY <1>1 DEF NoLostWakeup, OnItsWay, HasAt
<1> QED BY <1>1, <1>2, <1>3, <1>4, <1>5

LEMMA WakeupInit == Init => WakeupInv
<1> SUFFICES ASSUME Init PROVE WakeupInv
  OBVIOUS
<1>1. /\ list = <<>> /\ Queued = {}
      /\ \A g \in Gens : gstate[g] = "Suspended"
      /\ \A w \in Workers : pc[w] = "pop"
      /\ \A f \in Futures : notifications[f] = None
  BY DEF Init, Q!QInit, Queued
<1>2. HeldInv /\ QueuedInv
  BY <1>1 DEF HeldInv, QueuedInv, Busy
<1>3. UniqueInv
  BY <1>1 DEF UniqueInv
<1>4. StateInv /\ MapInv
  BY <1>1 DEF StateInv, MapInv
<1>5. FreshInv
  BY <1>1, EngineAssumption DEF FreshInv, Launchable
<1>6. NeedInv
  BY DEF Init, NeedInv
<1>7. NoLostWakeup
  BY <1>1 DEF NoLostWakeup
<1> QED BY <1>2, <1>3, <1>4, <1>5, <1>6, <1>7, TypeInit DEF WakeupInv

LEMMA WakeupNext == SingleWorker /\ WakeupInv /\ [Next]_vars => WakeupInv'
<1> SUFFICES ASSUME SingleWorker, WakeupInv, [Next]_vars PROVE WakeupInv'
  OBVIOUS
<1>1. TypeInv'
  BY TypeNext DEF WakeupInv
<1>2. ASSUME NEW w \in Workers, Worker(w) PROVE WakeupInv'
  BY <1>1, <1>2, PopKeeps, ThreadoKeeps, NukeKeeps, ProceedKeeps, ResumeKeeps,
     BodyLaunchKeeps, BodyRearmKeeps, BodyAwaitKeeps, BodyFinishKeeps, BodyYieldKeeps,
     ReturnedKeeps, DescendKeeps, RegisterKeeps
  DEF Worker, Body
<1>3. ASSUME NEW w \in Workers, PopSpurious(w) PROVE WakeupInv'
  BY <1>1, <1>3, QuietKeeps DEF PopSpurious, Q!PopSpurious, workerVars, outsideVars
<1>4. CASE Outside
  <2>1. CASE OutsideEnds
    BY <1>1, <2>1, QuietKeeps DEF OutsideEnds, queueVars
  <2> QED BY <1>1, <1>4, <2>1, SubmitKeeps, SettleKeeps, NotifyKeeps DEF Outside
<1>5. CASE Wle
  <2>1. UNCHANGED <<list, workerVars, genVars, nstate, notifications, launched, unannounced,
                    dropped>>
    BY <1>5 DEF Wle, WleCall, WleLock, WleTest, WleWait, WleWake, WleSpurious, WleClose,
                WleJoin, WleGoes, Q!IdleBlock, Q!Close, queueVars, workerVars, outsideVars
  <2> QED BY <1>1, <2>1, QuietKeeps
<1>6. CASE UNCHANGED vars
  BY <1>1, <1>6, QuietKeeps DEF vars, queueVars, outsideVars
<1> QED BY <1>2, <1>3, <1>4, <1>5, <1>6 DEF Next

\* The engine of main.cpp, with its one worker, loses no wake-up: whatever generators it
\* runs and however the outside settles its futures, a future that has an awaiter in the
\* map is not over without somebody being on the way to that awaiter.
THEOREM OneWorkerLosesNoWakeup ==
  ASSUME SingleWorker
  PROVE  SafeSpec => []NoLostWakeup
<1>1. WakeupInv => NoLostWakeup
  BY DEF WakeupInv
<1>2. WakeupInv /\ [Next]_vars => WakeupInv'
  BY WakeupNext
<1> QED BY <1>1, <1>2, WakeupInit, PTL DEF SafeSpec
==============================================================================
