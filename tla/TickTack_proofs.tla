--------------------------- MODULE TickTack_proofs ---------------------------
(***************************************************************************)
(* Proofs about TickTack, for any number of threads, timers and periods    *)
(* and any clock.  A timer is in one place at a time: in ent, in the hands *)
(* of the worker, of a stop() or of shutdown(); whoever has it calls it.   *)
(* From that follows who may call it, and how often.                       *)
(***************************************************************************)
EXTENDS TickTack, TLAPS

About(e) == e \in ent \cup rent \/ e = tik \/ \E c \in Threads : e = hand[c]

\* Every timer about is one that was started.
Known == \A e \in Timer : About(e) => e.id < nid /\ plan[e.id].d = e.d

\* The same timer is in one place only.
Alone ==
  /\ \A e, f \in ent : e.id = f.id => e = f
  /\ \A e, f \in rent : e.id = f.id => e = f
  /\ \A e \in ent, f \in rent : e.id # f.id
  /\ tik # NoTimer => \A e \in ent \cup rent : e.id # tik.id
  /\ \A c \in Threads : hand[c] # NoTimer =>
       /\ \A e \in ent \cup rent : e.id # hand[c].id
       /\ tik # NoTimer => hand[c].id # tik.id
  /\ \A b, c \in Threads : b # c /\ hand[b] # NoTimer /\ hand[c] # NoTimer
                             => hand[b].id # hand[c].id

\* The worker has a timer while it calls it and puts it back, and then only.
AtWorker ==
  /\ tik # NoTimer <=> pc \in {"call", "callback", "again"}
  /\ pc = "again" => tik.d # 0

\* No call before the start.
Fresh == \A id \in Ids : id >= nid => fired[id] = 0 /\ cancelled[id] = 0

\* A timer that is still about has not been cancelled.
Uncancelled ==
  /\ \A id \in Ids : cancelled[id] <= 1
  /\ \A e \in Timer : About(e) => cancelled[e.id] = 0

\* A one-off that is still to be called has not been called.
Uncalled ==
  /\ \A e \in ent \cup rent : e.d = 0 => fired[e.id] = 0
  /\ \A c \in Threads : hand[c] # NoTimer /\ hand[c].d = 0 => fired[hand[c].id] = 0
  /\ pc = "call" /\ tik.d = 0 => fired[tik.id] = 0

TickTackInv ==
  TypeOK /\ Known /\ Alone /\ AtWorker /\ Fresh /\ Uncancelled /\ Uncalled /\ OneOffOnce
------------------------------------------------------------------------------
LEMMA TimerFields ==
  \A e \in Timer : e.t \in Nat /\ e.d \in Nat /\ e.id \in Ids /\ e # NoTimer
BY NoTimerAssumption DEF Timer

LEMMA InitInv == Init => TickTackInv
<1> SUFFICES ASSUME Init PROVE TickTackInv
  OBVIOUS
<1> USE TickTackAssumption, NoTimerAssumption DEF Init, UnId, Ids
<1>1. TypeOK
  <2>1. stahp \in BOOLEAN
    BY Zenon
  <2> QED BY <2>1 DEF TypeOK, Threads
<1>2. \A e \in Timer : ~About(e)
  BY DEF About, Threads
<1> QED BY <1>1, <1>2 DEF TickTackInv, Known, Alone, AtWorker, Fresh, Uncancelled,
                          Uncalled, OneOffOnce

\* A new timer has an id of its own.
LEMMA StartKeeps ==
  ASSUME TickTackInv, NEW c \in Threads, NEW t \in 0 .. MaxTime, NEW d \in Periods,
         Start(c, t, d)
  PROVE  TickTackInv'
<1> USE TickTackAssumption, TimerFields
<1> USE DEF TickTackInv, sharedVars, workerVars, history, Ids
<1>1. PICK e \in Timer : e = [t |-> t, d |-> d, id |-> nid] /\ e.d = d /\ e.id = nid
  <2>1. t \in Nat /\ d \in Nat /\ nid \in Ids
    BY DEF Start
  <2>2. [t |-> t, d |-> d, id |-> nid] \in Timer
    BY <2>1 DEF Timer
  <2> QED BY <2>2
<1>2. ent' = ent \cup {e} /\ nid \in Ids /\ nid' = nid + 1
  BY <1>1 DEF Start
<1>3. UNCHANGED <<stahp, now, workerVars, hand, down, rent, fired, cancelled, stopped>>
  BY DEF Start
<1>4. /\ plan' \in [Ids -> [t : Nat, d : Nat]]
      /\ plan'[nid].d = d
      /\ \A id \in Ids \ {nid} : plan'[id] = plan[id]
  <2>1. [t |-> t, d |-> d] \in [t : Nat, d : Nat]
    OBVIOUS
  <2>2. plan' = [plan EXCEPT ![nid] = [t |-> t, d |-> d]]
    BY DEF Start
  <2> QED BY <1>2, <2>1, <2>2 DEF TypeOK
<1>5. TypeOK'
  <2>1. late' \subseteq Ids /\ nid' \in 1 .. MaxId + 1
    BY <1>2 DEF Start, TypeOK
  <2>2. ent' \subseteq Timer
    BY <1>1, <1>2 DEF TypeOK
  <2>3. plan' \in [Ids -> [t : Nat, d : Nat]]
    BY <1>4
  <2> HIDE DEF Ids
  <2> QED BY <1>3, <2>1, <2>2, <2>3 DEF TypeOK
<1>6. \A o \in Timer : About(o) => o.id # nid
  BY <1>2 DEF Known, TypeOK
<1>7. \A o \in Timer : About(o)' => About(o) \/ o = e
  BY <1>2, <1>3 DEF About
<1>8. Known'
  <2> SUFFICES ASSUME NEW o \in Timer, About(o)' PROVE o.id < nid' /\ plan'[o.id].d = o.d
    BY DEF Known
  <2>1. CASE About(o)
    <3>1. o.id \in Ids \ {nid} /\ o.id < nid /\ plan[o.id].d = o.d
      BY <1>6, <2>1 DEF Known
    <3>2. plan'[o.id] = plan[o.id]
      BY <1>4, <3>1
    <3>3. o.id < nid'
      BY <1>2, <3>1
    <3> QED BY <3>1, <3>2, <3>3
  <2>2. CASE o = e
    BY <1>1, <1>2, <1>4, <2>2
  <2> QED BY <1>7, <2>1, <2>2
<1>9. Alone'
  <2>1. \A o \in ent \cup rent : About(o) /\ o \in Timer
    BY DEF About, TypeOK
  <2>2. tik # NoTimer => About(tik) /\ tik \in Timer
    BY DEF About, TypeOK
  <2>3. \A b \in Threads : hand[b] # NoTimer => About(hand[b]) /\ hand[b] \in Timer
    BY DEF About, TypeOK
  <2> QED BY <1>1, <1>2, <1>3, <1>6, <2>1, <2>2, <2>3 DEF Alone
<1>10. AtWorker'
  BY <1>3 DEF AtWorker
<1>11. Fresh'
  BY <1>2, <1>3 DEF Fresh, TypeOK
<1>12. Uncancelled'
  BY <1>1, <1>2, <1>3, <1>7 DEF Uncancelled, Fresh, TypeOK
<1>13. Uncalled'
  BY <1>1, <1>2, <1>3 DEF Uncalled, Fresh, TypeOK
<1>14. OneOffOnce'
  <2> SUFFICES ASSUME NEW id \in Ids, plan'[id].d = 0 PROVE fired[id] + cancelled[id] <= 1
    BY <1>3 DEF OneOffOnce
  <2>1. CASE id = nid
    <3>1. fired[nid] = 0 /\ cancelled[nid] = 0
      BY <1>2 DEF Fresh
    <3> QED BY <2>1, <3>1
  <2>2. CASE id # nid
    BY <1>4, <2>2 DEF OneOffOnce
  <2> QED BY <2>1, <2>2
<1> QED BY <1>5, <1>8, <1>9, <1>10, <1>11, <1>12, <1>13, <1>14

\* The timer leaves ent for the hands of the caller.
LEMMA StopFindKeeps ==
  ASSUME TickTackInv, NEW c \in Threads, NEW id \in Ids, StopFind(c, id)
  PROVE  TickTackInv'
<1> USE TickTackAssumption, TimerFields
<1> USE DEF TickTackInv, sharedVars, workerVars, history, Ids
<1>1. UNCHANGED <<nid, stahp, now, workerVars, down, rent, plan, fired, cancelled, late>>
  BY DEF StopFind
<1>2. CASE stopped' = stopped \cup {id} /\ UNCHANGED <<ent, hand>>
  BY <1>1, <1>2 DEF TypeOK, Known, About, Alone, AtWorker, Fresh, Uncancelled, Uncalled,
     OneOffOnce
<1>3. CASE \E e \in ent : /\ e.id = id
                          /\ ent' = ent \ {e}
                          /\ hand' = [hand EXCEPT ![c] = e]
                          /\ UNCHANGED stopped
  <2>1. PICK e \in ent : /\ ent' = ent \ {e}
                         /\ hand' = [hand EXCEPT ![c] = e]
                         /\ stopped' = stopped
    BY <1>3
  <2>2. e \in Timer /\ hand[c] = NoTimer
    BY DEF StopFind, MayCall, TypeOK
  <2>3. hand'[c] = e /\ \A b \in Threads \ {c} : hand'[b] = hand[b]
    BY <2>1 DEF TypeOK
  <2>4. TypeOK'
    BY <1>1, <2>1, <2>2 DEF TypeOK
  <2>5. \A o \in Timer : About(o)' => About(o)
    BY <1>1, <2>1, <2>3 DEF About
  <2>6. Known'
    BY <1>1, <2>5 DEF Known
  <2>7. Alone'
    BY <1>1, <2>1, <2>2, <2>3 DEF Alone
  <2>8. AtWorker' /\ Fresh' /\ OneOffOnce'
    BY <1>1 DEF AtWorker, Fresh, OneOffOnce
  <2>9. Uncancelled'
    BY <1>1, <2>5 DEF Uncancelled
  <2>10. Uncalled'
    BY <1>1, <2>1, <2>2, <2>3 DEF Uncalled
  <2> QED BY <2>4, <2>6, <2>7, <2>8, <2>9, <2>10
<1> QED BY <1>2, <1>3 DEF StopFind

\* The caller of stop() calls a timer that nobody else has.
LEMMA StopCallKeeps ==
  ASSUME TickTackInv, NEW c \in Threads, StopCall(c)
  PROVE  TickTackInv'
<1> USE TickTackAssumption, TimerFields
<1> USE DEF TickTackInv, sharedVars, workerVars, history, Ids
<1>1. PICK e \in Timer : e = hand[c]
  BY DEF StopCall, TypeOK
<1>2. UNCHANGED <<sharedVars, workerVars, down, rent, plan, fired, late>>
  BY DEF StopCall
<1>3. /\ cancelled' = [cancelled EXCEPT ![e.id] = @ + 1]
      /\ cancelled'[e.id] = cancelled[e.id] + 1
      /\ \A id \in Ids \ {e.id} : cancelled'[id] = cancelled[id]
  BY <1>1 DEF StopCall, Cancel, TypeOK
<1>4. /\ hand' = [hand EXCEPT ![c] = NoTimer]
      /\ hand'[c] = NoTimer /\ \A b \in Threads \ {c} : hand'[b] = hand[b]
  BY DEF StopCall, TypeOK
<1>5. About(e) /\ cancelled[e.id] = 0 /\ (e.d = 0 => fired[e.id] = 0)
  BY <1>1 DEF About, Uncancelled, Uncalled
<1>6. TypeOK'
  <2>1. cancelled' \in [Ids -> Nat]
    BY <1>3, <1>5 DEF TypeOK
  <2>2. stopped' = stopped \cup {e.id}
    BY <1>1 DEF StopCall
  <2> QED BY <1>1, <1>2, <1>4, <2>1, <2>2 DEF TypeOK
<1>7. \A o \in Timer : About(o)' => About(o) /\ o.id # e.id
  BY <1>1, <1>2, <1>4 DEF About, Alone
<1>8. Known'
  BY <1>2, <1>7 DEF Known
<1>9. Alone'
  BY <1>2, <1>4 DEF Alone
<1>10. AtWorker'
  BY <1>2 DEF AtWorker
<1>11. Fresh'
  BY <1>2, <1>3, <1>5 DEF Fresh, Known, TypeOK
<1>12. Uncancelled'
  BY <1>3, <1>5, <1>7 DEF Uncancelled
<1>13. Uncalled'
  BY <1>2, <1>4 DEF Uncalled
<1>14. OneOffOnce'
  <2> SUFFICES ASSUME NEW id \in Ids, plan'[id].d = 0
               PROVE  fired'[id] + cancelled'[id] <= 1
    BY DEF OneOffOnce
  <2>1. plan[id].d = 0 /\ fired'[id] = fired[id]
    BY <1>2
  <2>2. CASE id = e.id
    <3>1. e.d = 0
      BY <1>5, <2>1, <2>2 DEF Known
    <3>2. fired[id] = 0 /\ cancelled'[id] = 1
      BY <1>3, <1>5, <2>2, <3>1
    <3> QED BY <2>1, <3>2
  <2>3. CASE id # e.id
    <3>1. cancelled'[id] = cancelled[id]
      BY <1>3, <2>3
    <3> QED BY <2>1, <3>1 DEF OneOffOnce
  <2> QED BY <2>2, <2>3
<1> QED BY <1>6, <1>8, <1>9, <1>10, <1>11, <1>12, <1>13, <1>14

\* The timer leaves ent for the hands of the worker.
LEMMA TakeKeeps ==
  ASSUME TickTackInv, Take
  PROVE  TickTackInv'
<1> USE TickTackAssumption, TimerFields
<1> USE DEF TickTackInv, sharedVars, workerVars, history, Ids
<1>1. CASE /\ \A e \in First(ent) : e.t > now
           /\ WorkerStep("take", "rest")
           /\ UNCHANGED <<ent, nid, tik, history>>
  BY <1>1 DEF WorkerStep, TypeOK, Known, About, Alone, AtWorker, Fresh, Uncancelled,
     Uncalled, OneOffOnce
<1>2. CASE \E e \in First(ent) : /\ e.t <= now
                               /\ ent' = ent \ {e}
                               /\ tik' = e
                               /\ WorkerStep("take", "call")
                               /\ UNCHANGED <<nid, history>>
  <2>1. PICK e \in ent : ent' = ent \ {e} /\ tik' = e
    BY <1>2 DEF First
  <2>2. /\ pc = "take" /\ pc' = "call"
        /\ UNCHANGED <<nid, stahp, now, hand, down, rent, history>>
    BY <1>2 DEF WorkerStep
  <2>3. e \in Timer /\ tik = NoTimer
    BY <2>2 DEF TypeOK, AtWorker
  <2>4. TypeOK'
    BY <2>1, <2>2, <2>3 DEF TypeOK
  <2>5. \A o \in Timer : About(o)' => About(o)
    BY <2>1, <2>2 DEF About
  <2>6. Known'
    BY <2>2, <2>5 DEF Known
  <2>7. Alone'
    BY <2>1, <2>2, <2>3 DEF Alone
  <2>8. AtWorker'
    BY <2>1, <2>2, <2>3 DEF AtWorker
  <2>9. Fresh' /\ OneOffOnce'
    BY <2>2 DEF Fresh, OneOffOnce
  <2>10. Uncancelled'
    BY <2>2, <2>5 DEF Uncancelled
  <2>11. Uncalled'
    BY <2>1, <2>2 DEF Uncalled
  <2> QED BY <2>4, <2>6, <2>7, <2>8, <2>9, <2>10, <2>11
<1> QED BY <1>1, <1>2 DEF Take

LEMMA CallKeeps ==
  ASSUME TickTackInv, Call
  PROVE  TickTackInv'
<1> USE TickTackAssumption, TimerFields
<1> USE DEF TickTackInv, sharedVars, workerVars, history, Ids
<1>1. pc = "call" /\ pc' = "callback"
  BY DEF Call, WorkerStep
<1>2. tik \in Timer /\ About(tik)
  BY <1>1 DEF AtWorker, TypeOK, About
<1>3. UNCHANGED <<ent, nid, stahp, now, tik, hand, down, rent, plan, cancelled, stopped,
                  late>>
  BY DEF Call, WorkerStep
<1>4. /\ fired' \in [Ids -> Nat]
      /\ fired'[tik.id] = fired[tik.id] + 1
      /\ \A id \in Ids \ {tik.id} : fired'[id] = fired[id]
  <2>1. fired' = [fired EXCEPT ![tik.id] = @ + 1]
    BY DEF Call
  <2>2. tik.id \in Ids /\ fired[tik.id] + 1 \in Nat
    BY <1>2 DEF TypeOK
  <2> QED BY <2>1, <2>2 DEF TypeOK
<1>5. TypeOK'
  BY <1>1, <1>3, <1>4 DEF TypeOK
<1>6. Known' /\ Alone' /\ AtWorker' /\ Uncancelled'
  BY <1>1, <1>3 DEF Known, About, Alone, AtWorker, Uncancelled
<1>7. Fresh'
  <2>1. \A id \in Ids : id >= nid => id # tik.id
    BY <1>2 DEF Known, TypeOK
  <2> QED BY <1>3, <1>4, <2>1 DEF Fresh
<1>8. Uncalled'
  <2>1. \A e \in ent \cup rent : e.id \in Ids \ {tik.id}
    BY <1>2 DEF Alone, TypeOK
  <2>2. \A c \in Threads : hand[c] # NoTimer => hand[c].id \in Ids \ {tik.id}
    BY <1>2 DEF Alone, TypeOK
  <2> QED BY <1>1, <1>3, <1>4, <2>1, <2>2 DEF Uncalled
<1>9. OneOffOnce'
  <2>1. plan[tik.id].d = 0 => fired[tik.id] = 0 /\ cancelled[tik.id] = 0
    BY <1>1, <1>2 DEF Known, Uncalled, Uncancelled
  <2> QED BY <1>2, <1>3, <1>4, <2>1 DEF OneOffOnce
<1> QED BY <1>5, <1>6, <1>7, <1>8, <1>9

LEMMA ReturnKeeps ==
  ASSUME TickTackInv, Return
  PROVE  TickTackInv'
<1> USE TickTackAssumption, TimerFields
<1> USE DEF TickTackInv, sharedVars, workerVars, history, Ids
<1>1. UNCHANGED <<ent, nid, stahp, now, hand, down, rent, history>>
  BY DEF Return, WorkerStep
<1>2. /\ pc = "callback"
      /\ \/ tik.d # 0 /\ pc' = "again" /\ tik' = tik
         \/ pc' = "next" /\ tik' = NoTimer
  BY DEF Return, WorkerStep
<1>3. TypeOK'
  BY <1>1, <1>2 DEF TypeOK
<1>4. \A o \in Timer : About(o)' => About(o)
  BY <1>1, <1>2 DEF About
<1>5. Known' /\ Uncancelled'
  BY <1>1, <1>4 DEF Known, Uncancelled
<1>6. Alone' /\ AtWorker'
  BY <1>1, <1>2 DEF Alone, AtWorker
<1>7. Fresh' /\ Uncalled' /\ OneOffOnce'
  BY <1>1, <1>2 DEF Fresh, Uncalled, OneOffOnce
<1> QED BY <1>3, <1>5, <1>6, <1>7

\* Only a timer with an interval goes back.
LEMMA AgainKeeps ==
  ASSUME TickTackInv, Again
  PROVE  TickTackInv'
<1> USE TickTackAssumption, TimerFields
<1> USE DEF TickTackInv, sharedVars, workerVars, history, Ids
<1>1. /\ pc = "again" /\ pc' = "next" /\ tik' = NoTimer
      /\ UNCHANGED <<nid, stahp, now, hand, down, rent, history>>
  BY DEF Again, WorkerStep
<1>2. tik \in Timer /\ About(tik) /\ tik.d # 0
  BY <1>1 DEF AtWorker, TypeOK, About
<1>3. PICK e \in Timer : ent' = ent \cup {e} /\ e.id = tik.id /\ e.d = tik.d
  <2>1. ent' = ent \cup {[tik EXCEPT !.t = tik.t + tik.d]}
    BY DEF Again
  <2>2. tik.t + tik.d \in Nat
    BY <1>2
  <2>3. [tik EXCEPT !.t = tik.t + tik.d] \in Timer
    BY <1>2, <2>2 DEF Timer
  <2>4. /\ [tik EXCEPT !.t = tik.t + tik.d].id = tik.id
        /\ [tik EXCEPT !.t = tik.t + tik.d].d = tik.d
    BY <1>2 DEF Timer
  <2> QED BY <2>1, <2>3, <2>4
<1>4. TypeOK'
  BY <1>1, <1>3 DEF TypeOK
<1>5. \A o \in Timer : About(o)' => About(o) \/ o = e
  BY <1>1, <1>3 DEF About
<1>6. Known'
  BY <1>1, <1>2, <1>3, <1>5 DEF Known
<1>7. Alone'
  BY <1>1, <1>2, <1>3 DEF Alone
<1>8. AtWorker'
  BY <1>1 DEF AtWorker
<1>9. Fresh' /\ OneOffOnce'
  BY <1>1 DEF Fresh, OneOffOnce
<1>10. Uncancelled'
  BY <1>1, <1>2, <1>3, <1>5 DEF Uncancelled
<1>11. Uncalled'
  BY <1>1, <1>2, <1>3 DEF Uncalled
<1> QED BY <1>4, <1>6, <1>7, <1>8, <1>9, <1>10, <1>11

LEMMA ShutBeginKeeps ==
  ASSUME TickTackInv, ShutBegin
  PROVE  TickTackInv'
<1> USE TickTackAssumption, TimerFields
<1> USE DEF TickTackInv, sharedVars, workerVars, history, Ids
<1>1. /\ rent' = ent /\ ent' = {} /\ stahp' = TRUE /\ down' = "cancel"
      /\ UNCHANGED <<nid, now, tik, hand, history>>
  BY DEF ShutBegin
<1>2. pc' = pc \/ (pc = "doze" /\ pc' = "while")
  <2>1. pc' = IF pc = "doze" THEN "while" ELSE pc
    BY DEF ShutBegin
  <2> QED BY <2>1, Zenon
<1>3. TypeOK'
  <2>1. stahp' \in BOOLEAN
    BY <1>1, Zenon
  <2> QED BY <1>1, <1>2, <2>1 DEF TypeOK
<1>4. \A o \in Timer : About(o)' => About(o)
  BY <1>1 DEF About
<1>5. Known' /\ Uncancelled'
  BY <1>1, <1>4 DEF Known, Uncancelled
<1>6. Alone' /\ AtWorker'
  BY <1>1, <1>2 DEF Alone, AtWorker
<1>7. Fresh' /\ Uncalled' /\ OneOffOnce'
  BY <1>1, <1>2 DEF Fresh, Uncalled, OneOffOnce
<1> QED BY <1>3, <1>5, <1>6, <1>7

LEMMA ShutCancelKeeps ==
  ASSUME TickTackInv, ShutCancel
  PROVE  TickTackInv'
<1> USE TickTackAssumption, TimerFields
<1> USE DEF TickTackInv, sharedVars, workerVars, history, Ids
<1>1. PICK e \in rent : Cancel(e) /\ rent' = rent \ {e}
  BY DEF ShutCancel, First
<1>2. UNCHANGED <<sharedVars, workerVars, hand, down, plan, fired, stopped, late>>
  BY DEF ShutCancel
<1>3. e \in Timer /\ About(e) /\ cancelled[e.id] = 0 /\ (e.d = 0 => fired[e.id] = 0)
  BY DEF About, Uncancelled, Uncalled, TypeOK
<1>4. /\ cancelled' = [cancelled EXCEPT ![e.id] = @ + 1]
      /\ cancelled'[e.id] = cancelled[e.id] + 1
      /\ \A id \in Ids \ {e.id} : cancelled'[id] = cancelled[id]
  BY <1>1, <1>3 DEF Cancel, TypeOK
<1>5. TypeOK'
  <2>1. cancelled' \in [Ids -> Nat]
    BY <1>3, <1>4 DEF TypeOK
  <2> QED BY <1>1, <1>2, <2>1 DEF TypeOK
<1>6. \A o \in Timer : About(o)' => About(o) /\ o.id # e.id
  BY <1>1, <1>2, <1>3 DEF About, Alone
<1>7. Known'
  BY <1>2, <1>6 DEF Known
<1>8. Alone'
  BY <1>1, <1>2 DEF Alone
<1>9. AtWorker'
  BY <1>2 DEF AtWorker
<1>10. Fresh'
  BY <1>2, <1>3, <1>4 DEF Fresh, Known, TypeOK
<1>11. Uncancelled'
  BY <1>3, <1>4, <1>6 DEF Uncancelled
<1>12. Uncalled'
  BY <1>1, <1>2 DEF Uncalled
<1>13. OneOffOnce'
  BY <1>2, <1>3, <1>4 DEF OneOffOnce, Known, TypeOK
<1> QED BY <1>5, <1>7, <1>8, <1>9, <1>10, <1>11, <1>12, <1>13

\* Steps that touch no timer.
LEMMA QuietKeeps ==
  ASSUME TickTackInv, UNCHANGED <<ent, nid, tik, hand, rent, history>>,
         pc' = pc \/ (pc \notin {"call", "callback", "again"}
                      /\ pc' \in {"while", "next", "take", "rest", "wait", "doze", "exit"}),
         stahp' \in BOOLEAN, now' \in 0 .. MaxTime, down' \in {"off", "cancel", "done"}
  PROVE  TickTackInv'
<1>1. TypeOK'
  BY DEF TickTackInv, TypeOK, history
<1>2. Known' /\ Alone' /\ Fresh' /\ Uncancelled' /\ OneOffOnce'
  BY DEF TickTackInv, Known, About, Alone, Fresh, Uncancelled, OneOffOnce, history
<1>3. AtWorker' /\ Uncalled'
  BY DEF TickTackInv, AtWorker, Uncalled, history
<1> QED BY <1>1, <1>2, <1>3 DEF TickTackInv

LEMMA NextInv == TickTackInv /\ [Next]_vars => TickTackInv'
<1> SUFFICES ASSUME TickTackInv, [Next]_vars PROVE TickTackInv'
  OBVIOUS
<1>1. stahp \in BOOLEAN /\ now \in 0 .. MaxTime /\ down \in {"off", "cancel", "done"}
  BY DEF TickTackInv, TypeOK
<1>2. ASSUME NEW c \in Threads, NEW t \in 0 .. MaxTime, NEW d \in Periods, Start(c, t, d)
      PROVE  TickTackInv'
  BY <1>2, StartKeeps
<1>3. ASSUME NEW c \in Threads, NEW id \in Ids, StopFind(c, id) PROVE TickTackInv'
  BY <1>3, StopFindKeeps
<1>4. ASSUME NEW c \in Threads, StopCall(c) PROVE TickTackInv'
  BY <1>4, StopCallKeeps
<1>5. CASE WorkerNext
  <2>1. CASE While
    BY <1>1, <2>1, QuietKeeps DEF While, WorkerStep
  <2>2. CASE NextTest
    BY <1>1, <2>2, QuietKeeps DEF NextTest, WorkerStep
  <2>3. CASE Rest
    BY <1>1, <2>3, QuietKeeps DEF Rest, WorkerStep
  <2>4. CASE Wait \/ WaitEnds
    BY <1>1, <2>4, QuietKeeps DEF Wait, WaitEnds, WorkerStep
  <2> QED BY <1>5, <2>1, <2>2, <2>3, <2>4, TakeKeeps, CallKeeps, ReturnKeeps, AgainKeeps
          DEF WorkerNext
<1>6. CASE Shutdown
  <2>1. CASE ShutJoin
    BY <1>1, <2>1, QuietKeeps DEF ShutJoin, sharedVars, workerVars
  <2> QED BY <1>6, <2>1, ShutBeginKeeps, ShutCancelKeeps DEF Shutdown
<1>7. CASE Tick
  <2>1. now' \in 0 .. MaxTime
    BY <1>1, <1>7, TickTackAssumption DEF Tick
  <2> QED BY <1>1, <1>7, <2>1, QuietKeeps DEF Tick, workerVars
<1>8. CASE UNCHANGED vars
  BY <1>1, <1>8, QuietKeeps DEF vars, sharedVars, workerVars
<1> QED BY <1>2, <1>3, <1>4, <1>5, <1>6, <1>7, <1>8 DEF Next
------------------------------------------------------------------------------
THEOREM TickTackInvariant == SafeSpec => []TickTackInv
BY InitInv, NextInv, PTL DEF SafeSpec

\* TypeOK: whatever is in ent, rent or in somebody's hands is a timer start() has made,
\* and ids stay below nid.
THEOREM TickTackTypeOK == SafeSpec => []TypeOK
<1>1. TickTackInv => TypeOK
  BY DEF TickTackInv
<1> QED BY <1>1, TickTackInvariant, PTL

\* The callback of a one-off is called at most once, by the worker, by stop() or by
\* shutdown(), however many threads start and stop timers.
THEOREM OneOffCalledOnce == SafeSpec => []OneOffOnce
<1>1. TickTackInv => OneOffOnce
  BY DEF TickTackInv
<1> QED BY <1>1, TickTackInvariant, PTL

\* A call with cancel = true is the last call of the callback.
THEOREM CancellationIsLast == SafeSpec => CancelIsLast
<1> DEFINE Final ==
             \A id \in Ids : cancelled[id] > 0 => UNCHANGED <<fired[id], cancelled[id]>>
<1>1. ASSUME TickTackInv, Next PROVE Final
  <2>1. CASE UNCHANGED <<fired, cancelled>>
    BY <2>1
  <2>2. ASSUME NEW e \in Timer, About(e), Cancel(e), UNCHANGED fired PROVE Final
    BY <1>1, <2>2, TimerFields DEF TickTackInv, Uncancelled, Cancel, TypeOK
  <2>3. ASSUME NEW c \in Threads, StopCall(c) PROVE Final
    <3>1. hand[c] \in Timer /\ About(hand[c])
      BY <1>1, <2>3 DEF StopCall, TickTackInv, TypeOK, About
    <3> QED BY <2>2, <2>3, <3>1 DEF StopCall
  <2>4. CASE ShutCancel
    <3>1. PICK e \in rent : Cancel(e)
      BY <2>4 DEF ShutCancel, First
    <3>2. e \in Timer /\ About(e)
      BY <1>1 DEF TickTackInv, TypeOK, About
    <3> QED BY <2>2, <2>4, <3>1, <3>2 DEF ShutCancel
  <2>5. CASE Call
    <3>1. tik \in Timer /\ About(tik)
      BY <1>1, <2>5 DEF Call, WorkerStep, TickTackInv, TypeOK, AtWorker, About
    <3> QED BY <1>1, <2>5, <3>1, TimerFields DEF Call, TickTackInv, Uncancelled, TypeOK
  <2> QED BY <1>1, <2>1, <2>3, <2>4, <2>5
          DEF Next, Start, StopFind, WorkerNext, While, NextTest, Rest, Take, Return, Again,
              Wait, WaitEnds, Shutdown, ShutBegin, ShutJoin, Tick, history
<1>2. ASSUME TickTackInv, [Next]_vars PROVE [Final]_vars
  BY <1>1, <1>2
<1> QED BY <1>2, TickTackInvariant, PTL DEF SafeSpec, CancelIsLast
------------------------------------------------------------------------------
(***************************************************************************)
(* The times at which a timer is called, and what shutdown() leaves.       *)
(***************************************************************************)
\* The time of the call after n calls, of what start() was called with.
CallTime(p, n) == p.t + n * p.d

\* A timer that waits has the time of its next call, the one the worker has called that of
\* its last, and no call came too early.
InPhase(e, n) == e.t = CallTime(plan[e.id], n)
PhaseInv ==
  /\ \A e \in ent : InPhase(e, fired[e.id])
  /\ pc = "call" => InPhase(tik, fired[tik.id]) /\ tik.t <= now
  /\ pc \in {"callback", "again"} => fired[tik.id] > 0 /\ InPhase(tik, fired[tik.id] - 1)
  /\ \A id \in Ids : fired[id] > 0 => CallTime(plan[id], fired[id] - 1) <= now

\* Somebody has the timer and is going to call it.
Waiting(id) ==
  \/ \E e \in ent \cup rent : e.id = id
  \/ pc = "call" /\ tik.id = id
  \/ \E c \in Threads : hand[c] # NoTimer /\ hand[c].id = id

\* A one-off of which shutdown() knows was called or somebody is going to call it; what it
\* finds is not put back.
Settling(id) == fired[id] + cancelled[id] = 1 \/ Waiting(id)
SettleInv ==
  /\ IF down = "off" THEN rent = {} ELSE stahp
  /\ down # "off" => \A e \in ent : e.d = 0 => e.id \in late
  /\ down = "done" => rent = {} /\ pc = "exit"
  /\ \A id \in Ids : id < nid /\ plan[id].d = 0 /\ id \notin late => Settling(id)
------------------------------------------------------------------------------
LEMMA CallTimes ==
  ASSUME NEW p \in [t : Nat, d : Nat], NEW n \in Nat
  PROVE  /\ CallTime(p, n) \in Nat /\ CallTime(p, 0) = p.t
         /\ CallTime(p, n + 1) = CallTime(p, n) + p.d
<1>1. p.t \in Nat /\ p.d \in Nat
  OBVIOUS
<1>2. n * p.d \in Nat /\ (n + 1) * p.d = n * p.d + p.d /\ 0 * p.d = 0
  BY <1>1
<1> QED BY <1>1, <1>2 DEF CallTime

\* Steps that start, call and put back nothing.
LEMMA PhaseFrame ==
  ASSUME TickTackInv, PhaseInv, ent' \subseteq ent, UNCHANGED <<plan, fired>>,
         now' \in Nat, now <= now',
         \/ pc' = pc /\ tik' = tik
         \/ pc' \notin {"call", "callback", "again"}
         \/ pc' = "call" /\ tik' \in ent /\ tik'.t <= now
         \/ pc = "callback" /\ pc' = "again" /\ tik' = tik
  PROVE  PhaseInv'
<1>1. now \in Nat
  BY TickTackAssumption DEF TickTackInv, TypeOK
<1>2. \A id \in Ids : plan[id] \in [t : Nat, d : Nat] /\ fired[id] \in Nat
  BY DEF TickTackInv, TypeOK
<1>3. ASSUME NEW id \in Ids, fired'[id] > 0 PROVE CallTime(plan'[id], fired'[id] - 1) <= now'
  <2>1. fired[id] - 1 \in Nat
    BY <1>2, <1>3
  <2>2. CallTime(plan[id], fired[id] - 1) \in Nat /\ CallTime(plan[id], fired[id] - 1) <= now
    BY <1>2, <1>3, <2>1, CallTimes DEF PhaseInv
  <2> QED BY <1>1, <2>2
<1>4. \A e \in ent' : InPhase(e, fired[e.id])'
  BY DEF PhaseInv, InPhase
<1>5. pc' = "call" => InPhase(tik, fired[tik.id])' /\ tik'.t <= now'
  <2>1. tik \in Timer \cup {NoTimer} /\ ent \subseteq Timer /\ (pc = "call" => tik # NoTimer)
    BY DEF TickTackInv, TypeOK, AtWorker
  <2>2. pc' = "call" => tik'.t \in Nat /\ tik'.t <= now
    BY <2>1, TimerFields DEF PhaseInv
  <2>3. pc' = "call" => InPhase(tik, fired[tik.id])'
    BY DEF PhaseInv, InPhase
  <2> QED BY <1>1, <2>2, <2>3
<1>6. pc' \in {"callback", "again"} => fired'[tik'.id] > 0 /\ InPhase(tik, fired[tik.id] - 1)'
  BY DEF PhaseInv, InPhase
<1> QED BY <1>3, <1>4, <1>5, <1>6 DEF PhaseInv

LEMMA StartInPhase ==
  ASSUME TickTackInv, PhaseInv, NEW c \in Threads, NEW t \in 0 .. MaxTime, NEW d \in Periods,
         Start(c, t, d)
  PROVE  PhaseInv'
<1>1. /\ nid \in Ids /\ t \in Nat /\ d \in Nat /\ fired[nid] = 0
      /\ plan' = [plan EXCEPT ![nid] = [t |-> t, d |-> d]]
      /\ ent' = ent \cup {[t |-> t, d |-> d, id |-> nid]}
      /\ UNCHANGED <<fired, now, pc, tik>>
  <2>1. nid \in Ids /\ t \in Nat /\ d \in Nat
    BY TickTackAssumption DEF Start
  <2>2. fired[nid] = 0
    BY <2>1, TickTackAssumption DEF TickTackInv, Fresh, Ids
  <2> QED BY <2>1, <2>2 DEF Start, workerVars
<1>2. /\ plan'[nid] = [t |-> t, d |-> d] /\ [t |-> t, d |-> d] \in [t : Nat, d : Nat]
      /\ \A id \in Ids \ {nid} : plan'[id] = plan[id]
  BY <1>1 DEF TickTackInv, TypeOK
<1>3. \A e \in Timer : About(e) => e.id \in Ids \ {nid}
  BY TimerFields, TickTackAssumption DEF TickTackInv, TypeOK, Known, Ids
<1>4. ASSUME NEW e \in ent' PROVE InPhase(e, fired[e.id])'
  <2>1. CASE e \in ent
    BY <1>1, <1>2, <1>3, <2>1 DEF PhaseInv, InPhase, About, TickTackInv, TypeOK
  <2>2. CASE e = [t |-> t, d |-> d, id |-> nid]
    <3>1. e.t = t /\ e.id = nid
      BY <2>2
    <3>2. CallTime(plan'[nid], 0) = t
      <4>1. CallTime([t |-> t, d |-> d], 0) = t
        BY <1>2, CallTimes
      <4> QED BY <1>2, <4>1
    <3> QED BY <1>1, <3>1, <3>2 DEF InPhase
  <2> QED BY <1>1, <2>1, <2>2
<1>5. pc \in {"call", "callback", "again"} => tik.id \in Ids \ {nid}
  BY <1>3 DEF About, TickTackInv, TypeOK, AtWorker
<1>6. \A id \in Ids : fired'[id] > 0 => CallTime(plan'[id], fired'[id] - 1) <= now'
  BY <1>1, <1>2 DEF PhaseInv
<1> QED BY <1>1, <1>2, <1>4, <1>5, <1>6 DEF PhaseInv, InPhase

\* The call: the n + 1st is now, and the timer was due.
LEMMA CallInPhase ==
  ASSUME TickTackInv, PhaseInv, Call
  PROVE  PhaseInv'
<1>1. /\ pc = "call" /\ pc' = "callback" /\ tik \in Timer /\ tik.id \in Ids
      /\ InPhase(tik, fired[tik.id]) /\ tik.t <= now
      /\ UNCHANGED <<ent, tik, plan, now>>
  BY TimerFields DEF Call, WorkerStep, TickTackInv, TypeOK, AtWorker, PhaseInv
<1>2. /\ fired[tik.id] \in Nat /\ fired'[tik.id] = fired[tik.id] + 1
      /\ \A id \in Ids \ {tik.id} : fired'[id] = fired[id]
  BY <1>1 DEF Call, TickTackInv, TypeOK
<1>3. fired'[tik.id] > 0 /\ fired'[tik.id] - 1 = fired[tik.id]
  BY <1>2
<1>4. \A e \in ent : e.id \in Ids \ {tik.id}
  BY <1>1, TimerFields DEF TickTackInv, TypeOK, Alone
<1>5. \A e \in ent' : InPhase(e, fired[e.id])'
  BY <1>1, <1>2, <1>4 DEF PhaseInv, InPhase
<1>6. InPhase(tik, fired[tik.id] - 1)'
  BY <1>1, <1>3 DEF InPhase
<1>7. \A id \in Ids : fired'[id] > 0 => CallTime(plan'[id], fired'[id] - 1) <= now'
  <2>1. CallTime(plan'[tik.id], fired'[tik.id] - 1) <= now'
    BY <1>1, <1>3 DEF InPhase
  <2> QED BY <1>1, <1>2, <2>1 DEF PhaseInv
<1> QED BY <1>1, <1>3, <1>5, <1>6, <1>7 DEF PhaseInv

\* The timer goes back with the time of its next call, counted from that of the last.
LEMMA AgainInPhase ==
  ASSUME TickTackInv, PhaseInv, Again
  PROVE  PhaseInv'
<1>1. /\ pc = "again" /\ pc' = "next" /\ tik \in Timer /\ tik.id \in Ids
      /\ fired[tik.id] \in Nat /\ fired[tik.id] > 0 /\ InPhase(tik, fired[tik.id] - 1)
      /\ plan[tik.id] \in [t : Nat, d : Nat] /\ plan[tik.id].d = tik.d
      /\ UNCHANGED <<plan, fired, now>>
  BY TimerFields DEF Again, WorkerStep, TickTackInv, TypeOK, AtWorker, PhaseInv, Known, About,
                     history
<1>2. PICK e : ent' = ent \cup {e} /\ e.id = tik.id /\ e.t = tik.t + tik.d
  <2>1. ent' = ent \cup {[tik EXCEPT !.t = tik.t + tik.d]}
    BY DEF Again
  <2>2. /\ [tik EXCEPT !.t = tik.t + tik.d].id = tik.id
        /\ [tik EXCEPT !.t = tik.t + tik.d].t = tik.t + tik.d
    BY <1>1 DEF Timer
  <2> QED BY <2>1, <2>2
<1>3. InPhase(e, fired[e.id])
  <2>1. fired[tik.id] - 1 \in Nat /\ (fired[tik.id] - 1) + 1 = fired[tik.id]
    BY <1>1
  <2>2. CallTime(plan[tik.id], fired[tik.id])
        = CallTime(plan[tik.id], fired[tik.id] - 1) + plan[tik.id].d
    BY <1>1, <2>1, CallTimes
  <2> QED BY <1>1, <1>2, <2>2 DEF InPhase
<1>4. \A o \in ent' : InPhase(o, fired[o.id])'
  BY <1>1, <1>2, <1>3 DEF PhaseInv, InPhase
<1> QED BY <1>1, <1>4 DEF PhaseInv

LEMMA StepInPhase == TickTackInv /\ PhaseInv /\ [Next]_vars => PhaseInv'
<1> SUFFICES ASSUME TickTackInv, PhaseInv, [Next]_vars PROVE PhaseInv'
  OBVIOUS
<1>1. now \in Nat /\ now <= now
  BY TickTackAssumption DEF TickTackInv, TypeOK
<1>2. ASSUME NEW c \in Threads, NEW t \in 0 .. MaxTime, NEW d \in Periods, Start(c, t, d)
      PROVE  PhaseInv'
  BY <1>2, StartInPhase
<1>3. ASSUME NEW c \in Threads, NEW id \in Ids, StopFind(c, id) PROVE PhaseInv'
  <2>1. ent' \subseteq ent
    BY <1>3 DEF StopFind
  <2> QED BY <1>1, <1>3, <2>1, PhaseFrame DEF StopFind, workerVars
<1>4. ASSUME NEW c \in Threads, StopCall(c) PROVE PhaseInv'
  BY <1>1, <1>4, PhaseFrame DEF StopCall, sharedVars, workerVars
<1>5. CASE WorkerNext
  <2>1. CASE While \/ NextTest \/ Rest \/ Wait \/ WaitEnds
    BY <1>1, <2>1, PhaseFrame DEF While, NextTest, Rest, Wait, WaitEnds, WorkerStep, history
  <2>2. CASE Take
    BY <1>1, <2>2, PhaseFrame DEF Take, First, WorkerStep, history
  <2>3. CASE Return
    BY <1>1, <2>3, PhaseFrame DEF Return, WorkerStep, history
  <2> QED BY <1>5, <2>1, <2>2, <2>3, CallInPhase, AgainInPhase DEF WorkerNext
<1>6. CASE Shutdown
  <2>1. CASE ShutBegin
    <3>1. pc' = pc \/ pc' = "while"
      <4>1. pc' = IF pc = "doze" THEN "while" ELSE pc
        BY <2>1 DEF ShutBegin
      <4> QED BY <4>1, Zenon
    <3> QED BY <1>1, <2>1, <3>1, PhaseFrame DEF ShutBegin, history
  <2>2. CASE ShutCancel \/ ShutJoin
    BY <1>1, <2>2, PhaseFrame DEF ShutCancel, ShutJoin, sharedVars, workerVars, history
  <2> QED BY <1>6, <2>1, <2>2 DEF Shutdown
<1>7. CASE Tick
  <2>1. now' \in Nat /\ now <= now'
    BY <1>1, <1>7 DEF Tick
  <2> QED BY <1>7, <2>1, PhaseFrame DEF Tick, workerVars, history
<1>8. CASE UNCHANGED vars
  BY <1>1, <1>8, PhaseFrame DEF vars, sharedVars, workerVars, history
<1> QED BY <1>2, <1>3, <1>4, <1>5, <1>6, <1>7, <1>8 DEF Next

\* The n-th call of a timer comes no earlier than n - 1 intervals after its time, however
\* late the worker was with the calls before it, and a timer that waits has the time that
\* start() planned for its next call (ticktack.cpp 45-55).
THEOREM CallsKeepPhase == SafeSpec => []KeepsPhase
<1>1. Init => PhaseInv
  BY DEF Init, PhaseInv
<1>2. TickTackInv /\ PhaseInv => KeepsPhase
  <2> SUFFICES ASSUME TickTackInv, PhaseInv PROVE KeepsPhase
    OBVIOUS
  <2>1. ASSUME NEW id \in Ids, fired[id] > 0
        PROVE  now >= plan[id].t + (fired[id] - 1) * plan[id].d
    <3>1. CallTime(plan[id], fired[id] - 1) <= now /\ now \in Nat
      BY <2>1, TickTackAssumption DEF PhaseInv, TickTackInv, TypeOK
    <3>2. CallTime(plan[id], fired[id] - 1) \in Nat
      <4>1. plan[id] \in [t : Nat, d : Nat] /\ fired[id] - 1 \in Nat
        BY <2>1 DEF TickTackInv, TypeOK
      <4> QED BY <4>1, CallTimes
    <3>3. now >= CallTime(plan[id], fired[id] - 1)
      BY <3>1, <3>2
    <3> QED BY <3>3, Zenon DEF CallTime
  <2>2. ASSUME NEW e \in ent PROVE e.t = plan[e.id].t + fired[e.id] * e.d
    <3>1. e.t = CallTime(plan[e.id], fired[e.id]) /\ plan[e.id].d = e.d
      BY DEF PhaseInv, InPhase, TickTackInv, TypeOK, Known, About
    <3> QED BY <3>1, Zenon DEF CallTime
  <2> QED BY <2>1, <2>2 DEF KeepsPhase
<1>3. SafeSpec => []PhaseInv
  BY <1>1, StepInPhase, TickTackInvariant, InitInv, NextInv, PTL DEF SafeSpec
<1> QED BY <1>2, <1>3, TickTackInvariant, PTL
------------------------------------------------------------------------------
\* What keeps SettleInv: timers with no interval are not put back, and who waits to be
\* called stays, or is called.
LEMMA SettleFrame ==
  ASSUME SettleInv, UNCHANGED <<nid, plan, late>>, stahp => stahp', pc = "exit" => pc' = "exit",
         \A e \in ent' : e \in ent \/ e.d # 0,
         \/ down' = down /\ rent' \subseteq rent
         \/ down = "off" /\ down' = "cancel" /\ stahp' /\ ent' = {}
         \/ down = "cancel" /\ down' = "done" /\ rent' = {} /\ pc' = "exit",
         \A id \in Ids : id < nid /\ plan[id].d = 0 /\ Settling(id) => Settling(id)'
  PROVE  SettleInv'
<1>1. IF down' = "off" THEN rent' = {} ELSE stahp'
  <2>1. CASE down' = "off"
    BY <2>1 DEF SettleInv
  <2>2. CASE down' # "off"
    BY <2>2 DEF SettleInv
  <2> QED BY <2>1, <2>2
<1>2. down' # "off" => \A e \in ent' : e.d = 0 => e.id \in late'
  BY DEF SettleInv
<1>3. down' = "done" => rent' = {} /\ pc' = "exit"
  BY DEF SettleInv
<1> QED BY <1>1, <1>2, <1>3 DEF SettleInv

\* Whoever has a one-off calls it for the first time.
LEMMA Called ==
  ASSUME TickTackInv, NEW e \in Timer, About(e), pc = "callback" => e # tik
  PROVE  /\ e.id \in Ids /\ cancelled[e.id] = 0 /\ fired[e.id] \in Nat
         /\ plan[e.id].d = 0 => fired[e.id] = 0
<1>1. e.id \in Ids /\ plan[e.id].d = e.d /\ cancelled[e.id] = 0 /\ fired[e.id] \in Nat
  BY TimerFields DEF TickTackInv, Known, Uncancelled, TypeOK
<1>2. e = tik => pc \in {"call", "again"} /\ (pc = "again" => e.d # 0)
  BY TimerFields DEF TickTackInv, AtWorker
<1> QED BY <1>1, <1>2, TimerFields DEF TickTackInv, About, Uncalled

LEMMA StartSettles ==
  ASSUME TickTackInv, SettleInv, NEW c \in Threads, NEW t, NEW d, Start(c, t, d)
  PROVE  SettleInv'
<1> DEFINE e == [t |-> t, d |-> d, id |-> nid]
<1>1. /\ nid \in Ids /\ nid' = nid + 1 /\ ent' = ent \cup {e} /\ e.id = nid
      /\ plan' = [plan EXCEPT ![nid] = [t |-> t, d |-> d]]
      /\ late' = IF stahp THEN late \cup {nid} ELSE late
      /\ UNCHANGED <<stahp, pc, tik, hand, down, rent, fired, cancelled>>
  BY DEF Start, workerVars
<1>2. late \subseteq late' /\ (stahp => nid \in late')
  BY <1>1
<1>3. down' # "off" => \A o \in ent' : o.d = 0 => o.id \in late'
  BY <1>1, <1>2 DEF SettleInv
<1>4. ASSUME NEW id \in Ids, id < nid', plan'[id].d = 0, id \notin late' PROVE Settling(id)'
  <2>1. CASE id = nid
    BY <1>1, <2>1 DEF Settling, Waiting
  <2>2. CASE id # nid
    <3>1. id < nid /\ plan'[id] = plan[id]
      BY <1>1, <1>4, <2>2 DEF TickTackInv, TypeOK, Ids
    <3>2. Settling(id)
      BY <1>2, <1>4, <3>1 DEF SettleInv
    <3> QED BY <1>1, <3>2 DEF Settling, Waiting
  <2> QED BY <2>1, <2>2
<1> QED BY <1>1, <1>3, <1>4 DEF SettleInv

LEMMA StopFindSettles ==
  ASSUME TickTackInv, SettleInv, NEW c \in Threads, NEW i \in Ids, StopFind(c, i)
  PROVE  SettleInv'
<1>1. UNCHANGED <<nid, stahp, now, workerVars, down, rent, plan, fired, cancelled, late>>
  BY DEF StopFind
<1>2. ASSUME NEW id \in Ids, Waiting(id) PROVE Waiting(id)'
  <2>1. CASE UNCHANGED <<ent, hand>>
    BY <1>1, <1>2, <2>1 DEF Waiting, workerVars
  <2>2. CASE \E e \in ent : ent' = ent \ {e} /\ hand' = [hand EXCEPT ![c] = e]
    <3>1. PICK e \in ent : ent' = ent \ {e} /\ hand' = [hand EXCEPT ![c] = e]
      BY <2>2
    <3>2. /\ hand[c] = NoTimer /\ hand'[c] = e /\ e # NoTimer
          /\ \A b \in Threads \ {c} : hand'[b] = hand[b]
      BY <3>1, TimerFields DEF StopFind, MayCall, TickTackInv, TypeOK
    <3> QED BY <1>1, <1>2, <3>1, <3>2 DEF Waiting, workerVars
  <2> QED BY <2>1, <2>2 DEF StopFind
<1>3. ent' \subseteq ent
  BY DEF StopFind
<1> QED BY <1>1, <1>2, <1>3, SettleFrame DEF Settling, workerVars

LEMMA StopCallSettles ==
  ASSUME TickTackInv, SettleInv, NEW c \in Threads, StopCall(c)
  PROVE  SettleInv'
<1>1. /\ hand[c] \in Timer /\ hand[c] # NoTimer /\ About(hand[c])
      /\ cancelled' = [cancelled EXCEPT ![hand[c].id] = @ + 1]
      /\ hand' = [hand EXCEPT ![c] = NoTimer]
      /\ UNCHANGED <<sharedVars, workerVars, down, rent, plan, fired, late>>
  BY DEF StopCall, Cancel, TickTackInv, TypeOK, About
<1>2. pc = "callback" => hand[c] # tik
  BY <1>1 DEF TickTackInv, Alone, AtWorker
<1>3. /\ hand[c].id \in Ids /\ cancelled[hand[c].id] = 0
      /\ plan[hand[c].id].d = 0 => fired[hand[c].id] = 0
  BY <1>1, <1>2, Called
<1>4. /\ cancelled'[hand[c].id] = 1 /\ \A id \in Ids \ {hand[c].id} : cancelled'[id] = cancelled[id]
      /\ hand'[c] = NoTimer /\ \A b \in Threads \ {c} : hand'[b] = hand[b]
  BY <1>1, <1>3 DEF TickTackInv, TypeOK
<1>5. ASSUME NEW id \in Ids, plan[id].d = 0, Settling(id) PROVE Settling(id)'
  <2>1. CASE id = hand[c].id
    BY <1>1, <1>3, <1>4, <1>5, <2>1 DEF Settling
  <2>2. CASE id # hand[c].id
    BY <1>1, <1>4, <1>5, <2>2 DEF Settling, Waiting, sharedVars, workerVars
  <2> QED BY <2>1, <2>2
<1> QED BY <1>1, <1>5, SettleFrame DEF sharedVars, workerVars

LEMMA CallSettles ==
  ASSUME TickTackInv, SettleInv, Call
  PROVE  SettleInv'
<1>1. /\ pc = "call" /\ pc' = "callback" /\ tik \in Timer /\ About(tik)
      /\ fired' = [fired EXCEPT ![tik.id] = @ + 1]
      /\ UNCHANGED <<ent, nid, stahp, tik, hand, down, rent, plan, cancelled, late>>
  BY DEF Call, WorkerStep, TickTackInv, TypeOK, AtWorker, About
<1>2. /\ tik.id \in Ids /\ cancelled[tik.id] = 0
      /\ plan[tik.id].d = 0 => fired[tik.id] = 0
  BY <1>1, Called
<1>3. /\ plan[tik.id].d = 0 => fired'[tik.id] = 1
      /\ \A id \in Ids \ {tik.id} : fired'[id] = fired[id]
  BY <1>1, <1>2 DEF TickTackInv, TypeOK
<1>4. ASSUME NEW id \in Ids, plan[id].d = 0, Settling(id) PROVE Settling(id)'
  <2>1. CASE id = tik.id
    BY <1>1, <1>2, <1>3, <1>4, <2>1 DEF Settling
  <2>2. CASE id # tik.id
    BY <1>1, <1>3, <1>4, <2>2 DEF Settling, Waiting
  <2> QED BY <2>1, <2>2
<1> QED BY <1>1, <1>4, SettleFrame

LEMMA ShutCancelSettles ==
  ASSUME TickTackInv, SettleInv, ShutCancel
  PROVE  SettleInv'
<1>1. PICK e \in rent : Cancel(e) /\ rent' = rent \ {e}
  BY DEF ShutCancel, First
<1>2. UNCHANGED <<sharedVars, workerVars, hand, down, plan, fired, late>>
  BY DEF ShutCancel
<1>3. e \in Timer /\ About(e) /\ (pc = "callback" => e # tik)
  BY DEF About, TickTackInv, TypeOK, Alone, AtWorker
<1>4. /\ e.id \in Ids /\ cancelled[e.id] = 0
      /\ plan[e.id].d = 0 => fired[e.id] = 0
  BY <1>3, Called
<1>5. cancelled'[e.id] = 1 /\ \A id \in Ids \ {e.id} : cancelled'[id] = cancelled[id]
  BY <1>1, <1>4 DEF Cancel, TickTackInv, TypeOK
<1>6. ASSUME NEW id \in Ids, plan[id].d = 0, Settling(id) PROVE Settling(id)'
  <2>1. CASE id = e.id
    BY <1>2, <1>4, <1>5, <1>6, <2>1 DEF Settling
  <2>2. CASE id # e.id
    BY <1>1, <1>2, <1>5, <1>6, <2>2 DEF Settling, Waiting, sharedVars, workerVars
  <2> QED BY <2>1, <2>2
<1> QED BY <1>1, <1>2, <1>6, SettleFrame DEF sharedVars, workerVars

LEMMA WorkerSettles ==
  ASSUME TickTackInv, SettleInv, WorkerNext
  PROVE  SettleInv'
<1>1. CASE While \/ NextTest \/ Rest \/ Wait \/ WaitEnds
  <2>1. /\ pc \notin {"call", "exit"}
        /\ UNCHANGED <<ent, nid, stahp, tik, hand, down, rent, plan, fired, cancelled, late>>
    BY <1>1 DEF While, NextTest, Rest, Wait, WaitEnds, WorkerStep, history
  <2>2. \A id \in Ids : Settling(id) => Settling(id)'
    BY <2>1 DEF Settling, Waiting
  <2> QED BY <2>1, <2>2, SettleFrame
<1>2. CASE Take
  <2>1. /\ pc = "take" /\ ent' \subseteq ent
        /\ \A e \in ent : e \in ent' \/ (pc' = "call" /\ tik' = e)
        /\ UNCHANGED <<nid, stahp, hand, down, rent, plan, fired, cancelled, late>>
    BY <1>2 DEF Take, First, WorkerStep, history
  <2>2. \A id \in Ids : Settling(id) => Settling(id)'
    BY <2>1 DEF Settling, Waiting
  <2> QED BY <2>1, <2>2, SettleFrame
<1>3. CASE Return
  <2>1. /\ pc = "callback"
        /\ UNCHANGED <<ent, nid, stahp, hand, down, rent, plan, fired, cancelled, late>>
    BY <1>3 DEF Return, WorkerStep, history
  <2>2. \A id \in Ids : Settling(id) => Settling(id)'
    BY <2>1 DEF Settling, Waiting
  <2> QED BY <2>1, <2>2, SettleFrame
<1>4. CASE Again
  <2>1. /\ pc = "again" /\ tik \in Timer /\ tik.d # 0
        /\ UNCHANGED <<nid, stahp, hand, down, rent, plan, fired, cancelled, late>>
    BY <1>4 DEF Again, WorkerStep, history, TickTackInv, TypeOK, AtWorker
  <2>2. PICK e : ent' = ent \cup {e} /\ e.d # 0
    <3>1. ent' = ent \cup {[tik EXCEPT !.t = tik.t + tik.d]}
      BY <1>4 DEF Again
    <3>2. [tik EXCEPT !.t = tik.t + tik.d].d # 0
      BY <2>1 DEF Timer
    <3> QED BY <3>1, <3>2
  <2>3. \A id \in Ids : Settling(id) => Settling(id)'
    BY <2>1, <2>2 DEF Settling, Waiting
  <2> QED BY <2>1, <2>2, <2>3, SettleFrame
<1> QED BY <1>1, <1>2, <1>3, <1>4, CallSettles DEF WorkerNext

LEMMA StepSettles == TickTackInv /\ SettleInv /\ [Next]_vars => SettleInv'
<1> SUFFICES ASSUME TickTackInv, SettleInv, [Next]_vars PROVE SettleInv'
  OBVIOUS
<1>1. ASSUME UNCHANGED <<ent, nid, stahp, pc, tik, hand, rent, plan, fired, cancelled, late>>
      PROVE  \A id \in Ids : Settling(id) => Settling(id)'
  BY <1>1 DEF Settling, Waiting
<1>2. CASE ShutBegin
  <2>1. /\ down = "off" /\ down' = "cancel" /\ stahp' /\ ent' = {} /\ rent' = ent /\ rent = {}
        /\ UNCHANGED <<nid, tik, hand, plan, fired, cancelled, late>>
    BY <1>2 DEF ShutBegin, history, SettleInv
  <2>2. pc' = pc \/ (pc = "doze" /\ pc' = "while")
    <3>1. pc' = IF pc = "doze" THEN "while" ELSE pc
      BY <1>2 DEF ShutBegin
    <3> QED BY <3>1, Zenon
  <2>3. \A id \in Ids : Settling(id) => Settling(id)'
    BY <2>1, <2>2 DEF Settling, Waiting
  <2> QED BY <2>1, <2>2, <2>3, SettleFrame
<1>3. CASE ShutJoin
  BY <1>1, <1>3, SettleFrame DEF ShutJoin, sharedVars, workerVars, history
<1>4. CASE Tick \/ UNCHANGED vars
  BY <1>1, <1>4, SettleFrame DEF Tick, vars, sharedVars, workerVars, history
<1> QED BY <1>2, <1>3, <1>4, StartSettles, StopFindSettles, StopCallSettles, WorkerSettles,
           ShutCancelSettles DEF Next, Shutdown

\* When shutdown() returns the worker has ended, and every one-off that was started before
\* it began has been called, or a stop() that has taken it is about to: for any number of
\* threads, timers and callbacks (ticktack.cpp 11-21).
THEOREM ShutdownLeavesNobody == SafeSpec => []ShutdownSettles
<1>1. Init => SettleInv
  BY TickTackAssumption DEF Init, SettleInv, UnId, Ids
<1>2. TickTackInv /\ SettleInv => ShutdownSettles
  <2> SUFFICES ASSUME TickTackInv, SettleInv, down = "done" PROVE ShutdownSettles
    BY DEF ShutdownSettles
  <2>1. pc = "exit" /\ rent = {} /\ tik = NoTimer
    BY DEF SettleInv, TickTackInv, AtWorker
  <2>2. ASSUME NEW id \in 1 .. nid - 1, plan[id].d = 0, id \notin late
        PROVE  fired[id] + cancelled[id] = 1 \/ \E e \in Held : e.id = id
    <3>1. id \in Ids /\ id < nid
      BY TickTackAssumption DEF TickTackInv, TypeOK, Ids
    <3>2. Settling(id)
      BY <2>2, <3>1 DEF SettleInv
    <3>3. ASSUME NEW e \in ent, e.id = id PROVE FALSE
      <4>1. e.d = plan[id].d
        BY <3>3 DEF TickTackInv, TypeOK, Known, About
      <4> QED BY <2>2, <3>3, <4>1 DEF SettleInv
    <3>4. ASSUME NEW c \in Threads, hand[c] # NoTimer, hand[c].id = id
          PROVE  \E e \in Held : e.id = id
      BY <3>4 DEF Held
    <3> QED BY <2>1, <3>2, <3>3, <3>4 DEF Settling, Waiting
  <2> QED BY <2>1, <2>2 DEF ShutdownSettles
<1>3. SafeSpec => []SettleInv
  BY <1>1, StepSettles, InitInv, NextInv, PTL DEF SafeSpec
<1> QED BY <1>2, <1>3, TickTackInvariant, PTL
==============================================================================
