------------------------------- MODULE Listener -------------------------------
(***************************************************************************)
(* yasync/iosock.hpp, AListeningSocket, and what main does with listeners: *)
(* it makes them, hands their futures to the aggregate `dun`, and waits    *)
(* for it.  The Ctrl-C catcher has the worker tell every listener to shut  *)
(* down.  A listener is told of connections and of its shutdown through    *)
(* one future, `engif`, which the epoll thread and shutdown() complete.    *)
(*                                                                         *)
(* The engine has one worker; main tells the listeners itself only when it *)
(* could not make them all.                                                *)
(***************************************************************************)
EXTENDS Naturals

CONSTANTS Listeners,
          MaxConnections \* bound of the model: how many clients connect

VARIABLES backlog,  \* connections the kernel holds for each listener
          interest, \* the listener's descriptor is armed in epoll
          epc, epl, \* the epoll thread, and the listener it has an event for
          engif, ev, notes, \* engif of each listener and its notifications in the queue
          body,     \* body[l]: "new", "ready", "accept", "check", "await" or "done"
          open,     \* the listeners whose socket is open
          bal,      \* of `dun`
          lists, okay, mpc, \* main: its listeners, whether all went well, where it is
          signals, timeToStahp, \* Ctrl-C: pending, and the future its catcher completes
          tell,     \* the listeners that are still to be told to shut down
          \* history
          connected, accepted, told

kernelVars == <<backlog, connected>>
epollVars == <<epc, epl>>
engifVars == <<engif, ev, notes>>
mainVars == <<bal, lists, okay, mpc>>
stopVars == <<signals, timeToStahp, tell, told>>
vars == <<kernelVars, interest, epollVars, engifVars, body, open, mainVars, stopVars, accepted>>

NoListener == "none"
NoEvent == "none"

Init ==
  /\ backlog = [l \in Listeners |-> 0] /\ connected = 0
  /\ interest = {}
  /\ epc = "wait" /\ epl = NoListener
  /\ engif = [l \in Listeners |-> "running"] /\ ev = [l \in Listeners |-> NoEvent]
  /\ notes = [l \in Listeners |-> 0]
  /\ body = [l \in Listeners |-> "new"]
  /\ open = {}
  /\ bal = 0 /\ lists = {} /\ okay = TRUE /\ mpc = "listen"
  /\ signals = 0 /\ timeToStahp = "running" /\ tell = {} /\ told = {}
  /\ accepted = [l \in Listeners |-> 0]

At(l, place) == body' = [body EXCEPT ![l] = place]
\* The worker is in no body and not in main's lambda; what main tells it tells by itself.
Free == (okay => tell = {}) /\ \A l \in Listeners : body[l] \notin {"accept", "check"}
------------------------------------------------------------------------------
\* listen(): binds, registers with epoll, launches the body; dun counts it.  Or it fails.
Listen(l) ==
  /\ mpc = "listen" /\ okay /\ body[l] = "new"
  /\ \/ /\ open' = open \cup {l} /\ interest' = interest \cup {l}
        /\ At(l, "ready")
        /\ lists' = lists \cup {l} /\ bal' = bal + 1
        /\ UNCHANGED okay
     \/ okay' = FALSE /\ UNCHANGED <<open, interest, body, lists, bal>>
  /\ UNCHANGED <<kernelVars, epollVars, engifVars, mpc, stopVars, accepted>>

\* All are made, or one has failed and the others are told to shut down.
Listening ==
  /\ mpc = "listen"
  /\ ~okay \/ lists = Listeners
  /\ mpc' = "blawait"
  /\ tell' = IF okay THEN tell ELSE lists
  /\ UNCHANGED <<kernelVars, interest, epollVars, engifVars, body, open, bal, lists, okay,
                 signals, timeToStahp, told, accepted>>

\* blawait(dun) returns.
Done ==
  /\ mpc = "blawait" /\ tell = {} /\ bal = 0 /\ Free
  /\ mpc' = "closing"
  /\ UNCHANGED <<kernelVars, interest, epollVars, engifVars, body, open, bal, lists, okay,
                 stopVars, accepted>>
------------------------------------------------------------------------------
\* stahp(): done, and the socket is closed; who waits for the body counts dun down.
Stops(l) ==
  /\ At(l, "done")
  /\ open' = open \ {l} /\ interest' = interest \ {l}
  /\ bal' = bal - 1

\* epoll is armed again and engif is returned.
Rearms(l) == interest' = interest \cup {l} /\ At(l, "check")

\* The body is resumed and looks at engif; an error is reported and changes nothing.
Resume(l) ==
  /\ body[l] = "ready" /\ Free
  /\ IF engif[l] = "completed"
     THEN /\ engif' = [engif EXCEPT ![l] = "running"] /\ ev' = [ev EXCEPT ![l] = NoEvent]
          /\ CASE ev[l] = "accept" -> At(l, "accept") /\ UNCHANGED <<interest, open, bal>>
               [] ev[l] = "close" -> Stops(l)
     ELSE Rearms(l) /\ UNCHANGED <<engif, ev, open, bal>>
  /\ UNCHANGED <<kernelVars, epollVars, notes, lists, okay, mpc, stopVars, accepted>>

\* ::accept() until there is nothing more; a connection may have been aborted.
Accept(l) ==
  /\ body[l] = "accept" /\ backlog[l] > 0
  /\ backlog' = [backlog EXCEPT ![l] = @ - 1]
  /\ \/ accepted' = [accepted EXCEPT ![l] = @ + 1]
     \/ UNCHANGED accepted
  /\ UNCHANGED <<connected, interest, epollVars, engifVars, body, open, mainVars, stopVars>>
AcceptNone(l) ==
  /\ body[l] = "accept" /\ backlog[l] = 0
  /\ Rearms(l)
  /\ UNCHANGED <<kernelVars, epollVars, engifVars, open, mainVars, stopVars, accepted>>

\* The engine looks at engif and resumes the body or has it wait.
Check(l) ==
  /\ body[l] = "check"
  /\ At(l, IF engif[l] = "completed" THEN "ready" ELSE "await")
  /\ UNCHANGED <<kernelVars, interest, epollVars, engifVars, open, mainVars, stopVars, accepted>>

\* A notification of engif: whoever waits for it is resumed, if it is complete.
Note(l) ==
  /\ notes[l] > 0 /\ Free
  /\ notes' = [notes EXCEPT ![l] = @ - 1]
  /\ At(l, IF body[l] = "await" /\ engif[l] = "completed" THEN "ready" ELSE body[l])
  /\ UNCHANGED <<kernelVars, interest, epollVars, engif, ev, open, mainVars, stopVars, accepted>>

\* main's lambda on timeToStahp.
ShuttingDown ==
  /\ mpc = "blawait" /\ okay /\ Free
  /\ timeToStahp = "completed" /\ timeToStahp' = "taken"
  /\ tell' = lists
  /\ UNCHANGED <<kernelVars, interest, epollVars, engifVars, body, open, mainVars, signals,
                 told, accepted>>

\* shutdown() of a listener: notify(Close).
Shutdown(l) ==
  /\ l \in tell /\ tell' = tell \ {l}
  /\ told' = told \cup {l}
  /\ engif' = [engif EXCEPT ![l] = "completed"] /\ ev' = [ev EXCEPT ![l] = "close"]
  /\ notes' = [notes EXCEPT ![l] = @ + 1]
  /\ UNCHANGED <<kernelVars, interest, epollVars, body, open, mainVars, signals, timeToStahp,
                 accepted>>
------------------------------------------------------------------------------
\* The epoll thread: an event, once for each arming; engif->completed(); engine->notify().
EpollWait(l) ==
  /\ epc = "wait" /\ l \in interest /\ backlog[l] > 0
  /\ interest' = interest \ {l}
  /\ epc' = "set" /\ epl' = l
  /\ UNCHANGED <<kernelVars, engifVars, body, open, mainVars, stopVars, accepted>>
EpollSet ==
  /\ epc = "set" /\ epc' = "notify"
  /\ engif' = [engif EXCEPT ![epl] = "completed"] /\ ev' = [ev EXCEPT ![epl] = "accept"]
  /\ UNCHANGED <<kernelVars, interest, epl, notes, body, open, mainVars, stopVars, accepted>>
EpollNotify ==
  /\ epc = "notify" /\ epc' = "wait" /\ epl' = NoListener
  /\ notes' = [notes EXCEPT ![epl] = @ + 1]
  /\ UNCHANGED <<kernelVars, interest, engif, ev, body, open, mainVars, stopVars, accepted>>

\* The catcher thread has waited for a SIGINT.
Catch ==
  /\ signals > 0 /\ signals' = signals - 1
  /\ timeToStahp' = IF timeToStahp = "running" THEN "completed" ELSE timeToStahp
  /\ UNCHANGED <<kernelVars, interest, epollVars, engifVars, body, open, mainVars, tell, told,
                 accepted>>

\* The user and the clients.
Interrupt ==
  /\ signals = 0 /\ signals' = 1
  /\ UNCHANGED <<kernelVars, interest, epollVars, engifVars, body, open, mainVars,
                 timeToStahp, tell, told, accepted>>
Connect(l) ==
  /\ l \in open /\ connected < MaxConnections
  /\ connected' = connected + 1
  /\ backlog' = [backlog EXCEPT ![l] = @ + 1]
  /\ UNCHANGED <<interest, epollVars, engifVars, body, open, mainVars, stopVars, accepted>>
------------------------------------------------------------------------------
Worker == \/ \E l \in Listeners : \/ Resume(l) \/ Accept(l) \/ AcceptNone(l)
                                  \/ Check(l) \/ Note(l) \/ Shutdown(l)
          \/ ShuttingDown
Epoll == (\E l \in Listeners : EpollWait(l)) \/ EpollSet \/ EpollNotify
MainGoes == (\E l \in Listeners : Listen(l)) \/ Listening \/ Done
Outside == Interrupt \/ \E l \in Listeners : Connect(l)

Next == Worker \/ Epoll \/ MainGoes \/ Catch \/ Outside

Spec == /\ Init /\ [][Next]_vars
        /\ WF_vars(Worker) /\ WF_vars(Epoll) /\ WF_vars(MainGoes) /\ WF_vars(Catch)

\* A listener that is told to shut down closes its socket and completes its future
\* (iosock.hpp 174, 277-283).
ShutdownStops == \A l \in Listeners : l \in told ~> l \notin open
==============================================================================
