------------------------------- MODULE TickTack ------------------------------
(***************************************************************************)
(* yasync/ticktack.cpp: timers.  A thread of its own takes the earliest    *)
(* timer that is due out of the ordered set `ent`, calls it outside the    *)
(* lock and, if it has an interval, puts it back.  Any thread, a callback  *)
(* included, may start and stop timers; main shuts the timers down, which  *)
(* calls what is left with cancel = true and joins the worker.             *)
(*                                                                         *)
(* One action is one critical section or one step between two of them; the *)
(* reads of the atomic `stahp` are steps of their own.  Time is a counter  *)
(* and passes at any point.                                                *)
(***************************************************************************)
EXTENDS Integers, FiniteSets

CONSTANTS Callers,  \* threads that call start() and stop()
          Worker,   \* the thread of threadwork(); calls them inside a callback
          Periods,  \* intervals in use; 0 is a one-off
          MaxId,    \* bound of the model: timers started
          MaxTime,  \* bound of the model: the clock
          NoTimer

ASSUME TickTackAssumption ==
  /\ Worker \notin Callers
  /\ Periods \subseteq Nat
  /\ MaxId \in Nat /\ MaxTime \in Nat

UnId == 0
Ids == 1 .. MaxId
Timer == [t : Nat, d : Nat, id : Ids]
Threads == Callers \cup {Worker}

ASSUME NoTimerAssumption == NoTimer \notin Timer

VARIABLES ent,       \* ent: the timers waiting for their time
          nid,       \* nid: the next id
          stahp,     \* stahp
          now,       \* Clock::now()
          pc, tik,   \* where the worker is, and the timer it has taken out
          hand,      \* hand[c]: the timer the stop() of thread c has taken out
          down,      \* where main is in shutdown()
          rent,      \* rent: the timers shutdown() has taken out
          \* history
          plan,      \* plan[id]: the time and interval start() was called with
          fired,     \* fired[id]: calls with cancel = false
          cancelled, \* cancelled[id]: calls with cancel = true
          stopped,   \* ids a stop() of which has returned
          late       \* ids started after shutdown() had emptied ent

sharedVars == <<ent, nid, stahp, now>>
workerVars == <<pc, tik>>
history == <<plan, fired, cancelled, stopped, late>>
vars == <<sharedVars, workerVars, hand, down, rent, history>>

Init ==
  /\ ent = {} /\ nid = UnId + 1
  /\ stahp = FALSE
  /\ now = 0
  /\ pc = "while" /\ tik = NoTimer
  /\ hand = [c \in Threads |-> NoTimer]
  /\ down = "off" /\ rent = {}
  /\ plan = [id \in Ids |-> [t |-> 0, d |-> 0]]
  /\ fired = [id \in Ids |-> 0]
  /\ cancelled = [id \in Ids |-> 0]
  /\ stopped = {} /\ late = {}

\* El::operator<
Before(a, b) == a.t < b.t \/ (a.t = b.t /\ a.id < b.id)
First(S) == {e \in S : \A o \in S \ {e} : Before(e, o)}

Cancel(e) == cancelled' = [cancelled EXCEPT ![e.id] = @ + 1]
------------------------------------------------------------------------------
\* A thread calls start() or stop() when it is not in stop(); the worker in a callback.
MayCall(c) == hand[c] = NoTimer /\ (c = Worker => pc = "callback")

Start(c, t, d) ==
  /\ MayCall(c)
  /\ nid \in Ids
  /\ ent' = ent \cup {[t |-> t, d |-> d, id |-> nid]}
  /\ nid' = nid + 1
  /\ plan' = [plan EXCEPT ![nid] = [t |-> t, d |-> d]]
  /\ late' = IF stahp THEN late \cup {nid} ELSE late
  /\ UNCHANGED <<stahp, now, workerVars, hand, down, rent, fired, cancelled, stopped>>

\* stop(): the timer is looked up and extracted under the lock ...
StopFind(c, id) ==
  /\ MayCall(c)
  /\ id < nid
  /\ \/ \E e \in ent : /\ e.id = id
                       /\ ent' = ent \ {e}
                       /\ hand' = [hand EXCEPT ![c] = e]
                       /\ UNCHANGED stopped
     \/ /\ \A e \in ent : e.id # id
        /\ stopped' = stopped \cup {id}
        /\ UNCHANGED <<ent, hand>>
  /\ UNCHANGED <<nid, stahp, now, workerVars, down, rent, plan, fired, cancelled, late>>

\* ... and called after it.
StopCall(c) ==
  /\ hand[c] # NoTimer
  /\ Cancel(hand[c])
  /\ hand' = [hand EXCEPT ![c] = NoTimer]
  /\ stopped' = stopped \cup {hand[c].id}
  /\ UNCHANGED <<sharedVars, workerVars, down, rent, plan, fired, late>>
------------------------------------------------------------------------------
WorkerStep(from, to) ==
  /\ pc = from
  /\ pc' = to
  /\ UNCHANGED <<stahp, now, hand, down, rent>>

\* `while(!stahp)`, `if(stahp) return nullopt` in next(), and `if(!stahp)`.
While == WorkerStep("while", IF stahp THEN "exit" ELSE "next")
         /\ UNCHANGED <<ent, nid, tik, history>>
NextTest == WorkerStep("next", IF stahp THEN "rest" ELSE "take")
            /\ UNCHANGED <<ent, nid, tik, history>>
Rest == WorkerStep("rest", IF stahp THEN "while" ELSE "wait")
        /\ UNCHANGED <<ent, nid, tik, history>>

\* Mutant: the set is searched from its far end.
TakeLast ==
  \/ \E e \in ent : /\ \A o \in ent \ {e} : Before(o, e)
                    /\ e.t <= now
                    /\ ent' = ent \ {e}
                    /\ tik' = e
                    /\ WorkerStep("take", "call")
                    /\ UNCHANGED <<nid, history>>
  \/ /\ \A e \in ent : (\A o \in ent \ {e} : Before(o, e)) => e.t > now
     /\ WorkerStep("take", "rest")
     /\ UNCHANGED <<ent, nid, tik, history>>

\* next() under the lock: the first timer, if it is due.
Take ==
  \/ \E e \in First(ent) : /\ e.t <= now
                           /\ ent' = ent \ {e}
                           /\ tik' = e
                           /\ WorkerStep("take", "call")
                           /\ UNCHANGED <<nid, history>>
  \/ /\ \A e \in First(ent) : e.t > now
     /\ WorkerStep("take", "rest")
     /\ UNCHANGED <<ent, nid, tik, history>>

\* tik.f(tik.id, false)
Call ==
  /\ WorkerStep("call", "callback")
  /\ fired' = [fired EXCEPT ![tik.id] = @ + 1]
  /\ UNCHANGED <<ent, nid, tik, plan, cancelled, stopped, late>>

\* Mutant: `if(tik.d != Duration::zero())` is missing.
ReturnAgain ==
  /\ hand[Worker] = NoTimer
  /\ WorkerStep("callback", "again")
  /\ UNCHANGED <<ent, nid, tik, history>>

Return ==
  /\ pc = "callback" /\ hand[Worker] = NoTimer
  /\ \/ tik.d # 0 /\ WorkerStep("callback", "again") /\ UNCHANGED tik
     \/ tik.d = 0 /\ WorkerStep("callback", "next") /\ tik' = NoTimer
  /\ UNCHANGED <<ent, nid, history>>

\* Mutant: the interval is counted from the end of the callback.
AgainFromNow ==
  /\ WorkerStep("again", "next")
  /\ ent' = ent \cup {[tik EXCEPT !.t = now + tik.d]}
  /\ tik' = NoTimer
  /\ UNCHANGED <<nid, history>>

\* Mutant: the interval is taken off.
AgainEarlier ==
  /\ WorkerStep("again", "next")
  /\ ent' = ent \cup {[tik EXCEPT !.t = @ - tik.d]}
  /\ tik' = NoTimer
  /\ UNCHANGED <<nid, history>>

\* The timer goes back, whatever has happened in between.
Again ==
  /\ WorkerStep("again", "next")
  /\ ent' = ent \cup {[tik EXCEPT !.t = @ + tik.d]}
  /\ tik' = NoTimer
  /\ UNCHANGED <<nid, history>>

\* cvStahp.wait_for begins ...
Wait == WorkerStep("wait", "doze") /\ UNCHANGED <<ent, nid, tik, history>>

\* Mutant: cvStahp.wait.
WaitsForNotice == FALSE /\ WorkerStep("doze", "while") /\ UNCHANGED <<ent, nid, tik, history>>

\* ... and ends after 5 ms.
WaitEnds == WorkerStep("doze", "while") /\ UNCHANGED <<ent, nid, tik, history>>

WorkerNext == \/ While \/ NextTest \/ Rest \/ Take \/ Call \/ Return \/ Again
              \/ Wait \/ WaitEnds
------------------------------------------------------------------------------
\* Mutant: ent is copied, not swapped out.
ShutBeginCopies ==
  /\ down = "off" /\ down' = "cancel"
  /\ stahp' = TRUE
  /\ rent' = ent
  /\ pc' = IF pc = "doze" THEN "while" ELSE pc
  /\ UNCHANGED <<ent, nid, now, tik, hand, history>>

\* Mutant: ent is cleared, and nobody is told.
ShutBeginClears ==
  /\ down = "off" /\ down' = "cancel"
  /\ stahp' = TRUE
  /\ ent' = {}
  /\ pc' = IF pc = "doze" THEN "while" ELSE pc
  /\ UNCHANGED <<nid, now, tik, hand, rent, history>>

\* shutdown() under the lock; notify_one ends the wait of the worker.
ShutBegin ==
  /\ down = "off" /\ down' = "cancel"
  /\ stahp' = TRUE
  /\ rent' = ent /\ ent' = {}
  /\ pc' = IF pc = "doze" THEN "while" ELSE pc
  /\ UNCHANGED <<nid, now, tik, hand, history>>

ShutCancel ==
  /\ down = "cancel"
  /\ \E e \in First(rent) : Cancel(e) /\ rent' = rent \ {e}
  /\ UNCHANGED <<sharedVars, workerVars, hand, down, plan, fired, stopped, late>>

\* worker.join()
ShutJoin ==
  /\ down = "cancel" /\ rent = {}
  /\ pc = "exit"
  /\ down' = "done"
  /\ UNCHANGED <<sharedVars, workerVars, hand, rent, history>>

Shutdown == ShutBegin \/ ShutCancel \/ ShutJoin

Tick ==
  /\ now < MaxTime
  /\ now' = now + 1
  /\ UNCHANGED <<ent, nid, stahp, workerVars, hand, down, rent, history>>
------------------------------------------------------------------------------
Next ==
  \/ \E c \in Threads : \/ \E t \in 0 .. MaxTime, d \in Periods : Start(c, t, d)
                        \/ \E id \in Ids : StopFind(c, id)
                        \/ StopCall(c)
  \/ WorkerNext
  \/ Shutdown
  \/ Tick

SafeSpec == Init /\ [][Next]_vars

\* Time passes, the worker runs, callbacks return, and a shutdown that has begun goes on.
Fairness ==
  /\ WF_vars(Tick)
  /\ WF_vars(WorkerNext)
  /\ WF_vars(ShutCancel \/ ShutJoin)
  /\ \A c \in Threads : WF_vars(StopCall(c))

Spec == SafeSpec /\ Fairness
------------------------------------------------------------------------------
Held == {hand[c] : c \in Threads} \ {NoTimer}
Taken == {tik} \ {NoTimer}

TypeOK ==
  /\ ent \subseteq Timer /\ rent \subseteq Timer
  /\ nid \in 1 .. MaxId + 1
  /\ stahp \in BOOLEAN
  /\ now \in 0 .. MaxTime
  /\ pc \in {"while", "next", "take", "call", "callback", "again", "rest", "wait", "doze",
             "exit"}
  /\ tik \in Timer \cup {NoTimer}
  /\ hand \in [Threads -> Timer \cup {NoTimer}]
  /\ down \in {"off", "cancel", "done"}
  /\ plan \in [Ids -> [t : Nat, d : Nat]]
  /\ fired \in [Ids -> Nat] /\ cancelled \in [Ids -> Nat]
  /\ stopped \subseteq Ids /\ late \subseteq Ids

\* A one-off is called once, whoever of the worker, stop() and shutdown() comes first:
\* the callback of a timeout either cancels or is told it was cancelled, never both.
OneOffOnce == \A id \in Ids : plan[id].d = 0 => fired[id] + cancelled[id] <= 1

\* After a call with cancel = true a timer, interval or not, is never called again: the
\* callback may drop what it needs.
CancelIsLast ==
  [][\A id \in Ids : cancelled[id] > 0 => UNCHANGED <<fired[id], cancelled[id]>>]_vars

\* When shutdown() returns the worker is gone and every one-off that was started before
\* has been called, or a stop() is about to; nothing waits for a call that never comes.
ShutdownSettles ==
  down = "done" =>
    /\ pc = "exit"
    /\ \A id \in 1 .. nid - 1 : (plan[id].d = 0 /\ id \notin late) =>
          fired[id] + cancelled[id] = 1 \/ \E e \in Held : e.id = id

\* The n-th call of a timer comes no earlier than n - 1 intervals after its time, and
\* delays of the worker do not add up: the next time is counted from the planned one.
KeepsPhase ==
  /\ \A id \in Ids : fired[id] > 0 => now >= plan[id].t + (fired[id] - 1) * plan[id].d
  /\ \A e \in ent : e.t = plan[e.id].t + fired[e.id] * e.d

\* Every timer started before the shutdown is called, one way or the other.
StartedIsCalled ==
  \A id \in Ids : id < nid /\ id \notin late ~> fired[id] + cancelled[id] > 0

\* shutdown() returns, even if its notification comes while the worker is between its
\* test of stahp and its wait.
ShutdownEnds == down = "cancel" ~> down = "done"

\* ticktack.hpp:73: "Stops the timer".
StopStops == \A e \in ent : e.id \notin stopped
==============================================================================
