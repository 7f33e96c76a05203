------------------------------- MODULE Proxying -------------------------------
(***************************************************************************)
(* One request on its way through TimeItOut (virt/timout.cpp), the         *)
(* proxying server (virt/prox.cpp), a balancer (virt/loadbal.hpp,          *)
(* loadbalhelth.hpp) with helthBalConnUpd of exe/main.cpp, and the         *)
(* establishment of a connection to the endpoint that was picked, while    *)
(* the health monitor checks the endpoints and main shuts everything down. *)
(*                                                                         *)
(* The engine has one worker; other threads are the timers', the monitor's *)
(* timers', the epoll thread and main.                                     *)
(***************************************************************************)
EXTENDS Establish, HealthMonitor, Sequences

CONSTANTS Upstreams, \* of the configuration: how they balance, and whether answers are timed
          Retries

ASSUME ProxyingAssumption ==
  /\ Upstreams \subseteq {"RoundRobin", "FailOver", "FailRobin"} \X BOOLEAN
  /\ Retries \in Nat

VARIABLES method, timed, \* of the upstream that the request is for
          next,     \* the balancer's counter, modulo Size
          stage,    \* where the request is
          tr,       \* the try
          k, candi, \* endpoints the balancer has looked at, and the one it has picked
          resp,     \* a response on its way to hwar
          hwar,     \* TimeItOut's future: "none" or the response it is completed with
          mpc,      \* main
          \* history
          found,    \* the endpoints the last pick has found dead
          tries,    \* how often the request was sent to an endpoint, or could not be
          answers   \* the responses the client's side was called back with

requestVars == <<next, stage, tr, k, candi, resp, hwar, found, tries, answers>>
vars == <<timerVars, establishVars, monitorVars, method, timed, requestVars, mpc>>

Healthy == method # "RoundRobin"

Init ==
  /\ EstablishInit /\ HealthInit
  /\ \E u \in Upstreams : method = u[1] /\ timed = u[2]
  /\ next \in IF method = "FailOver" THEN {0} ELSE Endpoints
  /\ stage = "new" /\ tr = 0 /\ k = 0 /\ candi = 0
  /\ resp = "none" /\ hwar = "none" /\ mpc = "up"
  /\ found = {} /\ tries = 0 /\ answers = <<>>

\* The worker is not in the middle of the balancer's loop, of connect() or of an answer.
Free == /\ stage \notin {"pick", "answer"}
        /\ econ = "socket" => OnTimer

\* What changes besides the request, if anything does.
Elsewhere == UNCHANGED <<monitorVars, method, timed, mpc>>
NoTimers == UNCHANGED <<timerVars, establishVars>>
------------------------------------------------------------------------------
\* take() of TimeItOut and of the proxying server.
Take ==
  /\ stage = "new" /\ Free
  /\ stage' = "sprr"
  /\ timers' = IF timed THEN timers \cup {"request"} ELSE timers
  /\ UNCHANGED <<due, stahp, establishVars, next, tr, k, candi, resp, hwar, found, tries, answers>>
  /\ Elsewhere

\* The response of the virtual server, for TimeItOut when there is one.
Respond(a) ==
  IF timed
  THEN IF hwar = "none"
       THEN stage' = "answer" /\ resp' = a /\ UNCHANGED answers
       ELSE stage' = "done" /\ UNCHANGED <<resp, answers>>
  ELSE stage' = "done" /\ answers' = Append(answers, a) /\ UNCHANGED resp

\* Mutant: nobody is called back when no try is left.
SprrSilent ==
  /\ stage = "sprr" /\ Free
  /\ stage' = IF tr > Retries THEN "done" ELSE "pick"
  /\ NoTimers /\ UNCHANGED <<next, tr, k, candi, resp, hwar, found, tries, answers>>
  /\ Elsewhere

\* sprr(): another try, or none.
Sprr ==
  /\ stage = "sprr" /\ Free
  /\ IF tr > Retries THEN Respond("502")
     ELSE stage' = "pick" /\ UNCHANGED <<resp, answers>>
  /\ NoTimers /\ UNCHANGED <<next, tr, k, candi, found, hwar, tries>> /\ Elsewhere

\* operator() of the balancer looks at one endpoint.
Look(i) ==
  IF method # "RoundRobin" /\ sah[i] = "dead"
  THEN /\ k' = k + 1 /\ found' = found \cup {i}
       /\ NoTimers /\ UNCHANGED <<stage, candi>>
  ELSE /\ stage' = "connect" /\ candi' = i
       /\ k' = 0 /\ found' = {}
       /\ Establish
Pick ==
  /\ stage = "pick" /\ k < Size
  /\ Look(IF method = "FailOver" THEN k ELSE next)
  /\ next' = IF method = "FailOver" THEN next ELSE (next + 1) % Size
  /\ UNCHANGED <<tr, resp, hwar, tries, answers>> /\ Elsewhere
\* CONFAERREVERY1ISDED.
PickNone ==
  /\ stage = "pick" /\ k = Size
  /\ Respond("503")
  /\ NoTimers /\ UNCHANGED <<next, tr, k, candi, hwar, found, tries>> /\ Elsewhere

\* The connection is there, or is not: the endpoint is dead and the next is picked, or,
\* with no health, it was a try.
Conne ==
  /\ stage = "connect" /\ Free
  /\ \/ econ = "ok" /\ stage' = "exchange" /\ UNCHANGED <<tr, tries, monitorVars>>
     \/ /\ econ = "failed" /\ Healthy
        /\ Says(candi, "dead")
        /\ stage' = "pick"
        /\ UNCHANGED <<tr, tries, check, tM, tD, called, mstahp, checks, overtaken>>
     \/ /\ econ = "failed" /\ ~Healthy
        /\ stage' = "sprr" /\ tr' = tr + 1 /\ tries' = tries + 1
        /\ UNCHANGED monitorVars
  /\ candi' = 0 /\ Established
  /\ UNCHANGED <<next, k, found, resp, hwar, answers, method, timed, mpc>>

\* The request is written and the response is read, or one of both fails.
Exchange ==
  /\ stage = "exchange" /\ Free
  /\ tries' = tries + 1
  /\ \/ Respond("ok") /\ UNCHANGED tr
     \/ stage' = "sprr" /\ tr' = tr + 1 /\ UNCHANGED <<resp, answers>>
  /\ NoTimers /\ UNCHANGED <<next, k, candi, hwar, found>> /\ Elsewhere

\* TimeItOut: the timer is stopped and hwar is set, ...
Set ==
  /\ stage = "answer"
  /\ timers' = timers \ {"request"}
  /\ hwar' = resp /\ resp' = "none"
  /\ stage' = "done"
  /\ UNCHANGED <<due, stahp, establishVars, next, tr, k, candi, found, tries, answers>>
  /\ Elsewhere
\* ... and whoever waits for hwar calls back, once.
Answer ==
  /\ timed /\ hwar # "none" /\ answers = <<>> /\ Free
  /\ answers' = Append(answers, hwar)
  /\ NoTimers /\ UNCHANGED <<next, stage, tr, k, candi, resp, hwar, found, tries>> /\ Elsewhere

\* Other requests pick from the same balancer, and find endpoints dead.
OtherRequest ==
  /\ Healthy /\ Free
  /\ next' \in IF method = "FailOver" THEN {next} ELSE Endpoints
  /\ \E e \in Endpoints : Says(e, "dead")
  /\ NoTimers
  /\ UNCHANGED <<stage, tr, k, candi, resp, hwar, found, tries, answers, check, tM, tD, called,
                 mstahp, checks, overtaken, method, timed, mpc>>
------------------------------------------------------------------------------
\* The timer of TimeItOut: its callback looks at hwar, and sets it.
RequestKeeps == UNCHANGED <<establishVars, next, stage, tr, k, candi, resp, found, tries, answers>>
TimeOut ==
  /\ due = "request"
  /\ due' = IF hwar = "none" THEN "setting" ELSE NoTimer
  /\ UNCHANGED <<timers, stahp, hwar>> /\ RequestKeeps /\ Elsewhere
\* Mutant: the callback does not go through hwar.
TimeOutCallsBack ==
  /\ due = "setting" /\ due' = NoTimer
  /\ answers' = Append(answers, "504")
  /\ UNCHANGED <<timers, stahp, establishVars, next, stage, tr, k, candi, resp, hwar, found,
                 tries>>
  /\ Elsewhere
TimeOutSets ==
  /\ due = "setting" /\ due' = NoTimer
  /\ hwar' = "504"
  /\ UNCHANGED <<timers, stahp>> /\ RequestKeeps /\ Elsewhere

\* main: conca.shutdown() first; then the monitor's timers, main's timers, each joined.
ShutDown ==
  /\ \/ mpc = "up" /\ mpc' = "lbhmon" /\ ShutMonitor /\ NoTimers
     \/ mpc = "lbhmon" /\ called = NoCall /\ mpc' = "ticktack" /\ ShutTimers
        /\ UNCHANGED monitorVars
     \/ mpc = "ticktack" /\ due = NoTimer /\ mpc' = "wioe" /\ NoTimers /\ UNCHANGED monitorVars
  /\ UNCHANGED <<method, timed, requestVars>>

NoRequest == UNCHANGED <<method, timed, requestVars, mpc>>
Checks == \E e \in Endpoints : Free /\ (Conok(e) \/ Checked(e)) /\ NoTimers /\ NoRequest
Worker == \/ Sprr \/ Pick \/ PickNone \/ Conne \/ Exchange \/ Set \/ Answer
          \/ ((~OnTimer /\ Connect) \/ (Free /\ Connected)) /\ UNCHANGED monitorVars /\ NoRequest
          \/ Checks
TimerThread == \/ TimeOut \/ TimeOutSets
               \/ (Fire \/ CancelConnect \/ Retry \/ (OnTimer /\ Connect))
                  /\ UNCHANGED monitorVars /\ NoRequest
MonitorTimers == \E e \in Endpoints : (Call(e) \/ Declare(e)) /\ NoTimers /\ NoRequest
Begin == \E e \in Endpoints : Healthy /\ Tick(e) /\ NoTimers /\ NoRequest
Epoll == Report /\ UNCHANGED <<timerVars, monitorVars>> /\ NoRequest

Next == Take \/ Worker \/ TimerThread \/ MonitorTimers \/ Begin \/ Epoll
        \/ OtherRequest \/ ShutDown

\* The threads go on, an exchange with an endpoint ends, and so does the kernel's attempt
\* to connect.
Fairness ==
  /\ WF_vars(Worker) /\ WF_vars(TimerThread) /\ WF_vars(MonitorTimers) /\ WF_vars(Epoll)
  /\ WF_vars(mpc # "up" /\ ShutDown)

Spec == Init /\ [][Next]_vars /\ Fairness
------------------------------------------------------------------------------
\* The variables keep their types and their bounds: no more tries, and no more attempts at
\* one of them, than there may be; the callback of one timer at a time.
TypeOK ==
  /\ timers \subseteq {"request", "connect", "retry"}
  /\ due \in timers \cup {NoTimer, "stale", "request", "setting", "connect", "retry"}
  /\ econ \in {"off", "socket", "pending", "sleeping", "ok", "failed"} /\ t \in 0 .. Shora
  /\ redy \in {"running", "ok", "err"} /\ {armed, stahp, mstahp, timed} \subseteq BOOLEAN
  /\ sah \in [Endpoints -> {"missing", "alive", "dead"}]
  /\ check \in [Endpoints -> {"idle", "estconn", "exchange"}]
  /\ tM \cup tD \cup overtaken \subseteq Endpoints /\ checks \in 0 .. MaxChecks
  /\ next \in Endpoints /\ k \in 0 .. Size /\ tr \in 0 .. Retries + 1
  /\ stage \in {"new", "sprr", "pick", "connect", "exchange", "answer", "done"}
  /\ mpc \in {"up", "lbhmon", "ticktack", "wioe"}

\* The client's side is called back at most once, though the virtual server and the timer
\* both look at hwar and then set it; a 502 follows the tries that are allowed and no
\* fewer; a 503 a look at every endpoint, all of them dead (timout.cpp 16-33, prox.cpp
\* 52-84, loadbalhelth.hpp 59-77).
AnsweredRightly ==
  /\ Len(answers) <= 1
  /\ answers = <<"502">> => tries = Retries + 1
  /\ answers = <<"503">> => found = Endpoints
  /\ tries <= Retries + 1

\* Between checks an endpoint is what its last check, or a connection that failed since,
\* said it is, unless a timer of that check was called already when the check ended
\* (helth.cpp 39-79).
ChecksDecide ==
  \A e \in Endpoints : check[e] = "idle" /\ e \notin overtaken => sah[e] = verdict[e]

\* A request is answered, whatever endpoints, timers and the shutdown do, unless an attempt
\* to connect goes to sleep on timers that are shut down (estconn.cpp 12-37).
Answered == stage = "sprr" ~> answers # <<>> \/ Stranded

\* And so does everything that keeps the resources of a request come to an end once main
\* waits for the resources, with the same exception.
Settles == mpc = "wioe" ~> Stranded \/ (stage \in {"new", "done"} /\ econ = "off")
==============================================================================
