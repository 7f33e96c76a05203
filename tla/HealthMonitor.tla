---------------------------- MODULE HealthMonitor -----------------------------
(***************************************************************************)
(* fiz/helth.cpp: the health of each endpoint is an atomic that its checks *)
(* store and balancers read.  A check establishes a connection, writes a   *)
(* request and reads the response; a timer declares the endpoint missing   *)
(* after 500ms, another cancels the exchange.  The monitor has a TickTack  *)
(* of its own, whose one thread calls the callbacks; the rest is done by   *)
(* the worker of the engine.  A check takes less than the interval.        *)
(***************************************************************************)
EXTENDS Naturals

CONSTANTS Size,     \* number of endpoints
          MaxChecks \* bound of the model: checks in all

ASSUME HealthAssumption == Size \in Nat \ {0} /\ MaxChecks \in Nat

Endpoints == 0 .. Size - 1

VARIABLES sah,      \* the health of each endpoint: "missing", "alive" or "dead"
          check,    \* of each endpoint: "idle", "estconn" or "exchange"
          tM, tD,   \* the endpoints whose timers are set
          called,   \* the callback the timer thread is in, as <<timer, endpoint>>
          mstahp,   \* the monitor's timers are shut down
          \* history
          checks,   \* how many checks have begun
          verdict,  \* what the last check, or failed connection, said
          overtaken \* the endpoints whose timer was called already when the check ended

monitorVars == <<sah, check, tM, tD, called, mstahp, checks, verdict, overtaken>>

NoCall == <<"none", 0>>
\* No check is going on; every health starts as missing, and some endpoints were checked.
HealthInit ==
  /\ sah \in [Endpoints -> {"missing", "alive"}] /\ verdict = sah
  /\ check = [e \in Endpoints |-> "idle"]
  /\ tM = {} /\ tD = {} /\ called = NoCall /\ mstahp = FALSE
  /\ checks = 0 /\ overtaken = {}

Says(e, health) ==
  /\ sah' = [sah EXCEPT ![e] = health]
  /\ verdict' = [verdict EXCEPT ![e] = health]

\* Mutant: the timer that declares an endpoint missing is not stopped.
ShrLeaves(e, health) ==
  /\ tD' = tD \ {e} /\ UNCHANGED tM
  /\ Says(e, health)
  /\ check' = [check EXCEPT ![e] = "idle"]
  /\ overtaken' = IF called \in {<<"M", e>>, <<"D", e>>} THEN overtaken \cup {e}
                  ELSE overtaken \ {e}

\* shr(): the timers are stopped and the health is stored; the check is over.
Shr(e, health) ==
  /\ tM' = tM \ {e} /\ tD' = tD \ {e}
  /\ Says(e, health)
  /\ check' = [check EXCEPT ![e] = "idle"]
  /\ overtaken' = IF called \in {<<"M", e>>, <<"D", e>>} THEN overtaken \cup {e}
                  ELSE overtaken \ {e}

\* The connection of a check is established, and the exchange is timed, or it is not.
Conok(e) ==
  /\ check[e] = "estconn"
  /\ \/ /\ tM' = IF sah[e] = "alive" THEN tM \cup {e} ELSE tM
        /\ tD' = tD \cup {e}
        /\ check' = [check EXCEPT ![e] = "exchange"]
        /\ UNCHANGED <<sah, verdict, overtaken>>
     \/ Shr(e, "dead")
  /\ UNCHANGED <<called, mstahp, checks>>

\* The response is OK, is something else, or does not come.
Checked(e) ==
  /\ check[e] = "exchange"
  /\ \E health \in {"alive", "dead"} : Shr(e, health)
  /\ UNCHANGED <<called, mstahp, checks>>

\* The timer thread: the interval has passed.
Tick(e) ==
  /\ ~mstahp /\ called = NoCall
  /\ check[e] = "idle" /\ checks < MaxChecks
  /\ checks' = checks + 1
  /\ check' = [check EXCEPT ![e] = "estconn"]
  /\ UNCHANGED <<sah, tM, tD, called, mstahp, verdict, overtaken>>

\* One of the timers of a check has come ...
Call(e) ==
  /\ ~mstahp /\ called = NoCall
  /\ \/ e \in tM /\ tM' = tM \ {e} /\ called' = <<"M", e>> /\ UNCHANGED tD
     \/ e \in tD /\ tD' = tD \ {e} /\ called' = <<"D", e>> /\ UNCHANGED tM
  /\ UNCHANGED <<sah, check, mstahp, checks, verdict, overtaken>>

\* ... and its callback stores, or cancels the exchange, which may be too late for that.
Declare(e) ==
  /\ called \in {<<"M", e>>, <<"D", e>>} /\ called' = NoCall
  /\ sah' = [sah EXCEPT ![e] = CASE called[1] = "M" -> "missing"
                                 [] called[1] = "D" /\ check[e] = "exchange" -> @
                                 [] OTHER -> "dead"]
  /\ UNCHANGED <<check, tM, tD, mstahp, checks, verdict, overtaken>>

\* shutdown(): no callback of a cancelled timer does anything.
ShutMonitor ==
  /\ ~mstahp /\ mstahp' = TRUE
  /\ tM' = {} /\ tD' = {}
  /\ UNCHANGED <<sah, check, called, checks, verdict, overtaken>>
==============================================================================
