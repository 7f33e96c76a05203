----------------------------- MODULE AwaitGraph ------------------------------
(***************************************************************************)
(* What the engine promises to the code written on top of it, with no      *)
(* workers, no queue and no map: each generator is a sequential process    *)
(* that is started at most once, runs, waits for one future at a time, and *)
(* goes on only when that future has something for it.  Outside futures    *)
(* are settled by the outside.  A cancelled outside future may take the    *)
(* generators that wait for it, directly or not, away for good.            *)
(***************************************************************************)
CONSTANTS Processes, \* the generators
          Signals,   \* the outside futures
          Nobody     \* no future

VARIABLES stage,  \* "idle", "ready", "running", "waiting", "finished" or "gone"
          on,     \* on[p]: the future p waits for
          ready,  \* the processes with a value nobody has taken
          signal  \* "open", "set" or "cancelled"

agVars == <<stage, on, ready, signal>>

AGInit ==
  /\ stage = [p \in Processes |-> "idle"]
  /\ on = [p \in Processes |-> Nobody]
  /\ ready = {}
  /\ signal = [s \in Signals |-> "open"]

\* f has something for whoever waits for it.
Settled(f) == IF f \in Processes THEN f \in ready ELSE signal[f] # "open"

Start(p) ==
  /\ stage[p] = "idle"
  /\ stage' = [stage EXCEPT ![p] = "ready"]
  /\ UNCHANGED <<on, ready, signal>>

\* The first run, the next run after a value that was taken, or the end of a wait.
Continue(p) ==
  /\ \/ stage[p] \in {"idle", "ready"} /\ on[p] = Nobody /\ p \notin ready
     \/ stage[p] = "waiting" /\ Settled(on[p])
  /\ stage' = [stage EXCEPT ![p] = "running"]
  /\ ready' = ready \ {on[p]}
  /\ on' = [on EXCEPT ![p] = Nobody]
  /\ UNCHANGED signal

WaitFor(p, f) ==
  /\ stage[p] = "running"
  /\ stage' = [stage EXCEPT ![p] = "waiting"]
  /\ on' = [on EXCEPT ![p] = f]
  /\ UNCHANGED <<ready, signal>>

\* A value: the last one, or one of several.
Produce(p) ==
  /\ stage[p] = "running"
  /\ \E next \in {"finished", "idle"} : stage' = [stage EXCEPT ![p] = next]
  /\ ready' = ready \cup {p}
  /\ UNCHANGED <<on, signal>>

Lose(p) ==
  /\ stage[p] = "waiting"
  /\ \/ on[p] \in Signals /\ signal[on[p]] = "cancelled"
     \/ on[p] \in Processes /\ stage[on[p]] = "gone"
  /\ stage' = [stage EXCEPT ![p] = "gone"]
  /\ UNCHANGED <<on, ready, signal>>

Signal(s) ==
  /\ \E x \in {"open", "set", "cancelled"} : signal' = [signal EXCEPT ![s] = x]
  /\ UNCHANGED <<stage, on, ready>>

AGNext ==
  \/ \E p \in Processes : Start(p) \/ Continue(p) \/ Produce(p) \/ Lose(p)
  \/ \E p \in Processes, f \in Processes \cup Signals : WaitFor(p, f)
  \/ \E s \in Signals : Signal(s)

AGSpec == AGInit /\ [][AGNext]_agVars
==============================================================================
