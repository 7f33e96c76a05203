------------------------------ MODULE Establish -------------------------------
(***************************************************************************)
(* fiz/estconn.cpp and ConnectingSocket of yasync/iosock: a connection to  *)
(* an endpoint is established in up to Shora + 1 attempts.  An attempt is  *)
(* a non-blocking connect() whose outcome the epoll thread reports through *)
(* `redy`, and which a timer cancels; between attempts a timer sleeps.     *)
(* The timers are those of main's TickTack, whose one thread calls their   *)
(* callbacks: an attempt after the first is made on that thread.           *)
(***************************************************************************)
EXTENDS Naturals

CONSTANT Shora \* attempts after the first

ASSUME EstablishAssumption == Shora \in Nat

VARIABLES timers, due, \* the timers that are set, and the one whose callback is called
          stahp,       \* of the TickTack: it is shut down
          econ,        \* "off", "socket", "pending", "sleeping", "ok" or "failed"
          t,           \* the attempt
          redy,        \* "running", "ok" or "err"
          armed        \* the socket is armed in epoll

timerVars == <<timers, due, stahp>>
establishVars == <<econ, t, redy, armed>>

NoTimer == "none"
EstablishInit ==
  /\ timers = {} /\ due = NoTimer /\ stahp = FALSE
  /\ econ = "off" /\ t = 0 /\ redy = "running" /\ armed = FALSE

\* The thread that runs netConnectTo.
OnTimer == due = "retry"

\* netConnectTo() makes a socket and adds it to epoll.
OpenSocket ==
  /\ econ' = "socket" /\ redy' = "running" /\ armed' = TRUE

\* The factory is called.
Establish == t' = 0 /\ OpenSocket /\ UNCHANGED timerVars

\* Mutant: one attempt too many.
TriedTooOften(ok) ==
  /\ armed' = FALSE /\ redy' = "running"
  /\ IF ok \/ t > Shora
     THEN econ' = (IF ok THEN "ok" ELSE "failed") /\ timers' = timers \ {"connect"}
     ELSE econ' = "sleeping" /\ timers' = (timers \ {"connect"}) \cup {"retry"}
  /\ UNCHANGED <<t, stahp>>

\* An attempt has an outcome: it is the last one, or a timer sleeps before the next.
Tried(ok) ==
  /\ armed' = FALSE /\ redy' = "running"
  /\ IF ok \/ t >= Shora
     THEN econ' = (IF ok THEN "ok" ELSE "failed") /\ timers' = timers \ {"connect"}
     ELSE econ' = "sleeping" /\ timers' = (timers \ {"connect"}) \cup {"retry"}
  /\ UNCHANGED <<t, stahp>>

\* connect(): it is done, or in progress, and the attempt is timed; or no address is left.
Connect ==
  /\ econ = "socket" /\ econ' = "pending"
  /\ \/ redy' \in {redy, "ok"} /\ timers' = timers \cup {"connect"} /\ UNCHANGED armed
     \/ redy' = "err" /\ armed' = FALSE /\ UNCHANGED timers
  /\ due' = IF OnTimer THEN NoTimer ELSE due
  /\ UNCHANGED <<t, stahp>>

\* The worker goes on with redy and stops the attempt's timer; a callback that is called
\* already will cancel what is gone.
Connected ==
  /\ econ = "pending" /\ redy # "running"
  /\ Tried(redy = "ok")
  /\ due' = IF due = "connect" THEN "stale" ELSE due

\* The epoll thread: a socket that is not connecting yet hangs up; one that is has made it,
\* or not.
Report ==
  /\ armed /\ armed' = FALSE
  /\ redy' \in IF econ = "socket" THEN {"err"} ELSE {"ok", "err"}
  /\ UNCHANGED <<timerVars, econ, t>>

\* The callbacks: cancel(), which may find nobody; the next attempt.
CancelConnect ==
  /\ due \in {"connect", "stale"} /\ due' = NoTimer
  /\ redy' = IF due = "connect" THEN "err" ELSE redy
  /\ UNCHANGED <<timers, stahp, econ, t, armed>>
Retry ==
  /\ OnTimer /\ econ = "sleeping"
  /\ t' = t + 1
  /\ OpenSocket
  /\ UNCHANGED timerVars

\* The timer thread takes a timer whose time has come.
Fire ==
  /\ ~stahp /\ due = NoTimer
  /\ \E timer \in timers : timers' = timers \ {timer} /\ due' = timer
  /\ UNCHANGED <<stahp, establishVars>>

\* Mutant: the callbacks are not told.
ShutTimersQuietly ==
  /\ ~stahp /\ stahp' = TRUE
  /\ timers' = {} /\ UNCHANGED <<due, establishVars>>

\* shutdown(): the callbacks of what is set are told of a cancellation.
ShutTimers ==
  /\ ~stahp /\ stahp' = TRUE
  /\ timers' = {} /\ UNCHANGED due
  /\ econ' = IF "retry" \in timers THEN "failed" ELSE econ
  /\ UNCHANGED <<t, redy, armed>>

\* Whoever waits for the connection takes it, or its failure.
Established == econ' = "off" /\ t' = 0 /\ UNCHANGED <<timerVars, redy, armed>>

\* Nothing is going to wake an attempt that sleeps on timers that are shut down.
Stranded == stahp /\ "retry" \in timers
==============================================================================
