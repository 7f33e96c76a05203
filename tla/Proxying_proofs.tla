--------------------------- MODULE Proxying_proofs ---------------------------
(***************************************************************************)
(* Proofs about Proxying, for any number of endpoints, tries, attempts and *)
(* checks.  The invariant has a part for the establishment of connections  *)
(* with its timers, one for the health monitor, and one for the request;   *)
(* each action disturbs one or two of them.                                *)
(***************************************************************************)
EXTENDS Proxying, TLAPS

Responses == {"ok", "502", "503", "504"}
Healths == {"missing", "alive", "dead"}

\* An attempt that sleeps is not the last.
EstablishInv ==
  /\ timers \subseteq {"request", "connect", "retry"}
  /\ due \in {NoTimer, "stale", "request", "setting", "connect", "retry"}
  /\ econ \in {"off", "socket", "pending", "sleeping", "ok", "failed"}
  /\ t \in 0 .. Shora
  /\ redy \in {"running", "ok", "err"}
  /\ econ = "sleeping" => t < Shora

MonitorTypes ==
  /\ sah \in [Endpoints -> Healths] /\ verdict \in [Endpoints -> Healths]
  /\ check \in [Endpoints -> {"idle", "estconn", "exchange"}]
  /\ tM \subseteq Endpoints /\ tD \subseteq Endpoints /\ overtaken \subseteq Endpoints
  /\ called \in {NoCall} \cup ({"M", "D"} \X Endpoints)
  /\ checks \in 0 .. MaxChecks

\* The timers of an endpoint belong to an exchange, and a callback that outlives its check
\* is one that the check was told of.
EndpointInv(e) ==
  /\ check[e] # "exchange" => e \notin tM /\ e \notin tD
  /\ check[e] = "idle" /\ called \in {<<"M", e>>, <<"D", e>>} => e \in overtaken
  /\ check[e] = "idle" /\ e \notin overtaken => sah[e] = verdict[e]
MonitorInv == MonitorTypes /\ \A e \in Endpoints : EndpointInv(e)

RequestTypes ==
  /\ method \in {"RoundRobin", "FailOver", "FailRobin"}
  /\ next \in Endpoints /\ candi \in Endpoints /\ k \in 0 .. Size /\ tr \in 0 .. Retries + 1
  /\ stage \in {"new", "sprr", "pick", "connect", "exchange", "answer", "done"}
  /\ resp \in Responses \cup {"none"} /\ hwar \in Responses \cup {"none"}
  /\ answers \in Seq(Responses)
  /\ found \subseteq Endpoints /\ tries \in Nat

\* The request has not been answered by the proxying server.
Sending == stage \in {"new", "sprr", "pick", "connect", "exchange"}

\* Every try that has failed was counted.
TriesInv ==
  /\ tries <= Retries + 1
  /\ Sending => tries = tr
  /\ stage \in {"pick", "connect", "exchange"} => tr <= Retries

\* The endpoints the current pick has looked at.
LookedAt ==
  IF method = "FailOver" THEN 0 .. k - 1
  ELSE IF k <= next THEN next - k .. next - 1
  ELSE (0 .. next - 1) \cup (next + Size - k .. Size - 1)

\* All that it has looked at were dead.
FoundInv ==
  /\ stage \in {"new", "sprr", "connect", "exchange"} => k = 0 /\ found = {}
  /\ stage = "pick" => found = LookedAt

\* A response has its reason, wherever it is on its way.
Because(a) ==
  /\ a = "502" => tries = Retries + 1
  /\ a = "503" => found = Endpoints
AnswerInv ==
  /\ stage # "answer" => resp = "none"
  /\ stage = "answer" => timed
  /\ hwar \notin {"none", "504"} => stage = "done"
  /\ stage # "done" /\ ~timed => answers = <<>>
  /\ Len(answers) <= 1
  /\ Because(resp) /\ Because(hwar)
  /\ answers # <<>> => Because(answers[1]) /\ (stage # "done" => answers = <<"504">>)

RequestInv == RequestTypes /\ TriesInv /\ FoundInv /\ AnswerInv
Inv == /\ EstablishInv /\ MonitorInv /\ RequestInv
       /\ mpc \in {"up", "lbhmon", "ticktack", "wioe"}

Switches == armed \in BOOLEAN /\ stahp \in BOOLEAN /\ mstahp \in BOOLEAN /\ timed \in BOOLEAN
------------------------------------------------------------------------------
\* What leaves the variables of a part alone keeps that part.
requestPart == <<method, timed, requestVars>>
LEMMA EstablishFrame ==
  ASSUME EstablishInv, UNCHANGED <<timerVars, establishVars>>
  PROVE  EstablishInv'
BY DEF EstablishInv, timerVars, establishVars
LEMMA MonitorFrame ==
  ASSUME MonitorInv, UNCHANGED monitorVars
  PROVE  MonitorInv'
BY DEF MonitorInv, MonitorTypes, EndpointInv, monitorVars
LEMMA RequestFrame ==
  ASSUME RequestInv, UNCHANGED requestPart
  PROVE  RequestInv'
BY DEF RequestInv, RequestTypes, TriesInv, FoundInv, LookedAt, AnswerInv, Because,
       Sending, requestPart, requestVars

LEMMA SizeFacts == Size \in Nat /\ Size > 0 /\ MaxChecks \in Nat /\ Retries \in Nat /\ Shora \in Nat
BY HealthAssumption, ProxyingAssumption, EstablishAssumption

LEMMA NextEndpoint ==
  \A n \in Endpoints : (n + 1) % Size = IF n = Size - 1 THEN 0 ELSE n + 1
BY SizeFacts DEF Endpoints

LEMMA InitInv == Init => Inv
<1> SUFFICES ASSUME Init PROVE Inv
  OBVIOUS
<1>1. EstablishInv
  <2>1. timers = {} /\ due = NoTimer /\ econ = "off" /\ t = 0 /\ redy = "running"
    BY Zenon DEF Init, EstablishInit
  <2> QED BY <2>1, SizeFacts DEF EstablishInv
<1>2. MonitorInv
  <2>1. /\ sah \in [Endpoints -> {"missing", "alive"}] /\ verdict = sah
        /\ check = [e \in Endpoints |-> "idle"]
        /\ tM = {} /\ tD = {} /\ called = NoCall /\ checks = 0 /\ overtaken = {}
    BY Zenon DEF Init, HealthInit
  <2>2. MonitorTypes
    BY <2>1, SizeFacts DEF MonitorTypes, Healths
  <2>3. ASSUME NEW e \in Endpoints PROVE EndpointInv(e)
    BY <2>1 DEF EndpointInv, NoCall
  <2> QED BY <2>2, <2>3 DEF MonitorInv
<1>3. /\ method = "FailOver" => next \in {0}
      /\ method # "FailOver" => next \in Endpoints
      /\ stage = "new" /\ tr = 0 /\ k = 0 /\ candi = 0 /\ resp = "none" /\ hwar = "none" /\ mpc = "up"
      /\ found = {} /\ tries = 0 /\ answers = <<>>
  BY Zenon DEF Init
<1>4. RequestInv
  <2>1. method \in {"RoundRobin", "FailOver", "FailRobin"}
    BY ProxyingAssumption DEF Init
  <2>2. next \in Endpoints /\ 0 \in Endpoints /\ 0 \in 0 .. Size /\ 0 \in 0 .. Retries + 1
    BY <1>3, SizeFacts DEF Endpoints
  <2>3. answers \in Seq(Responses)
    BY <1>3
  <2>4. RequestTypes
    BY <1>3, <2>1, <2>2, <2>3 DEF RequestTypes
  <2>5. TriesInv /\ FoundInv
    BY <1>3, SizeFacts DEF TriesInv, FoundInv, Sending
  <2>6. Len(answers) <= 1
    BY <1>3
  <2>7. AnswerInv
    BY <1>3, <2>6 DEF AnswerInv, Because
  <2> QED BY <2>4, <2>5, <2>7 DEF RequestInv
<1> QED BY <1>1, <1>2, <1>3, <1>4 DEF Inv
------------------------------------------------------------------------------
\* The establishment of a connection.
LEMMA TriedKeeps ==
  ASSUME EstablishInv, NEW ok \in BOOLEAN, Tried(ok), due' = due \/ due' = "stale"
  PROVE  EstablishInv'
<1>1. CASE ok
  BY <1>1, SizeFacts DEF EstablishInv, Tried
<1>2. CASE ~ok
  <2>1. /\ t' = t /\ redy' = "running"
        /\ \/ t >= Shora /\ econ' = "failed" /\ timers' = timers \ {"connect"}
           \/ ~(t >= Shora) /\ econ' = "sleeping"
              /\ timers' = (timers \ {"connect"}) \cup {"retry"}
    BY <1>2, Zenon DEF Tried
  <2>2. CASE t >= Shora /\ econ' = "failed" /\ timers' = timers \ {"connect"}
    BY <2>1, <2>2, SizeFacts DEF EstablishInv
  <2>3. CASE ~(t >= Shora) /\ econ' = "sleeping" /\ timers' = (timers \ {"connect"}) \cup {"retry"}
    <3>1. t' \in 0 .. Shora /\ t' < Shora
      BY <2>1, <2>3, SizeFacts DEF EstablishInv
    <3>2. timers' \subseteq {"request", "connect", "retry"}
      BY <2>3 DEF EstablishInv
    <3>3. due' \in {NoTimer, "stale", "request", "setting", "connect", "retry"}
      BY DEF EstablishInv
    <3> QED BY <2>1, <2>3, <3>1, <3>2, <3>3 DEF EstablishInv
  <2> QED BY <2>1, <2>2, <2>3
<1> QED BY <1>1, <1>2

LEMMA EstablishKeeps ==
  ASSUME EstablishInv,
         \/ Connect \/ Connected \/ Report \/ CancelConnect \/ Retry \/ Fire \/ ShutTimers
  PROVE  EstablishInv'
<1>1. CASE Connect
  BY <1>1 DEF Connect, EstablishInv
<1>2. CASE Connected
  BY <1>2, TriedKeeps DEF Connected
<1>3. CASE Report
  BY <1>3 DEF Report, EstablishInv, timerVars
<1>4. CASE CancelConnect
  BY <1>4 DEF CancelConnect, EstablishInv
<1>5. CASE Retry
  BY <1>5, SizeFacts DEF Retry, OpenSocket, EstablishInv, timerVars
<1>6. CASE Fire
  BY <1>6 DEF Fire, EstablishInv, establishVars
<1>7. CASE ShutTimers
  BY <1>7 DEF ShutTimers, EstablishInv
<1> QED BY <1>1, <1>2, <1>3, <1>4, <1>5, <1>6, <1>7

\* The health monitor, and whoever finds an endpoint dead.
LEMMA SaysKeeps ==
  ASSUME MonitorInv, NEW e \in Endpoints, Says(e, "dead"),
         UNCHANGED <<check, tM, tD, called, mstahp, checks, overtaken>>
  PROVE  MonitorInv'
BY DEF MonitorInv, MonitorTypes, EndpointInv, Says, Healths

LEMMA ShrKeeps ==
  ASSUME MonitorInv, NEW e \in Endpoints, NEW health \in Healths, Shr(e, health),
         UNCHANGED <<called, mstahp, checks>>
  PROVE  MonitorInv'
<1>1. MonitorTypes'
  BY DEF MonitorInv, MonitorTypes, Shr, Says, Healths
<1>2. ASSUME NEW f \in Endpoints PROVE EndpointInv(f)'
  <2>1. CASE f = e
    BY <2>1 DEF MonitorInv, MonitorTypes, EndpointInv, Shr, Says
  <2>2. CASE f # e
    BY <2>2 DEF MonitorInv, MonitorTypes, EndpointInv, Shr, Says
  <2> QED BY <2>1, <2>2
<1> QED BY <1>1, <1>2 DEF MonitorInv

LEMMA MonitorKeeps ==
  ASSUME MonitorInv,
         \/ \E e \in Endpoints : Conok(e) \/ Checked(e) \/ Tick(e) \/ Call(e) \/ Declare(e)
         \/ ShutMonitor
  PROVE  MonitorInv'
<1>1. ASSUME NEW e \in Endpoints, Conok(e) PROVE MonitorInv'
  <2>1. CASE Shr(e, "dead")
    BY <1>1, <2>1, ShrKeeps DEF Conok, Healths
  <2>2. CASE ~Shr(e, "dead")
    BY <1>1, <2>2 DEF Conok, MonitorInv, MonitorTypes, EndpointInv
  <2> QED BY <2>1, <2>2
<1>2. ASSUME NEW e \in Endpoints, Checked(e) PROVE MonitorInv'
  BY <1>2, ShrKeeps DEF Checked, Healths
<1>3. ASSUME NEW e \in Endpoints, Tick(e) PROVE MonitorInv'
  BY <1>3, SizeFacts DEF Tick, MonitorInv, MonitorTypes, EndpointInv
<1>4. ASSUME NEW e \in Endpoints, Call(e) PROVE MonitorInv'
  <2>1. MonitorTypes'
    BY <1>4 DEF Call, MonitorInv, MonitorTypes
  <2>2. ASSUME NEW f \in Endpoints PROVE EndpointInv(f)'
    BY <1>4 DEF Call, MonitorInv, MonitorTypes, EndpointInv
  <2> QED BY <2>1, <2>2 DEF MonitorInv
<1>5. ASSUME NEW e \in Endpoints, Declare(e) PROVE MonitorInv'
  <2>1. MonitorTypes'
    BY <1>5 DEF Declare, MonitorInv, MonitorTypes, Healths
  <2>2. ASSUME NEW f \in Endpoints PROVE EndpointInv(f)'
    BY <1>5 DEF Declare, MonitorInv, MonitorTypes, EndpointInv, NoCall
  <2> QED BY <2>1, <2>2 DEF MonitorInv
<1>6. CASE ShutMonitor
  BY <1>6 DEF ShutMonitor, MonitorInv, MonitorTypes, EndpointInv
<1> QED BY <1>1, <1>2, <1>3, <1>4, <1>5, <1>6
------------------------------------------------------------------------------
\* The request.
LEMMA Responds ==
  ASSUME RequestInv, Sending, NEW a \in {"ok", "502", "503"}, Respond(a),
         UNCHANGED <<method, timed, next, tr, k, candi, hwar, found>>,
         tries' \in Nat, tries' <= Retries + 1,
         a = "502" => tries' = Retries + 1,
         a = "503" => found = Endpoints
  PROVE  RequestInv'
<1>1. RequestTypes'
  BY DEF RequestInv, RequestTypes, Respond, Responses
<1>2. stage' \in {"answer", "done"}
  BY DEF Respond
<1>3. TriesInv' /\ FoundInv'
  BY <1>2 DEF TriesInv, FoundInv, Sending
<1>4. AnswerInv'
  <2>1. CASE timed
    BY <2>1, <1>2 DEF RequestInv, RequestTypes, AnswerInv, Because, Respond, Sending
  <2>2. CASE ~timed
    BY <2>2, <1>2 DEF RequestInv, RequestTypes, AnswerInv, Because, Respond, Sending
  <2> QED BY <2>1, <2>2
<1> QED BY <1>1, <1>3, <1>4 DEF RequestInv

\* While nothing has answered, a new stage leaves the answers as they are.
LEMMA GoesOn ==
  ASSUME RequestInv, Sending, Sending',
         UNCHANGED <<method, timed, resp, hwar, answers>>
  PROVE  AnswerInv'
BY DEF RequestInv, RequestTypes, AnswerInv, Because, Sending

LEMMA TakeKeeps ==
  ASSUME Inv, Take
  PROVE  EstablishInv' /\ RequestInv'
<1>1. EstablishInv'
  BY DEF Inv, EstablishInv, Take, establishVars
<1>2. RequestTypes' /\ TriesInv' /\ FoundInv'
  BY DEF Inv, RequestInv, RequestTypes, TriesInv, FoundInv, Sending, Take, Elsewhere
<1>3. AnswerInv'
  BY GoesOn DEF Inv, Take, Elsewhere, Sending
<1> QED BY <1>1, <1>2, <1>3 DEF RequestInv

LEMMA SprrKeeps ==
  ASSUME Inv, Sprr
  PROVE  RequestInv'
<1>1. CASE tr > Retries
  <2>1. /\ stage = "sprr" /\ Sending /\ Respond("502")
        /\ UNCHANGED <<method, timed, next, tr, k, candi, hwar, found, tries>>
    BY <1>1 DEF Sprr, Elsewhere, Sending
  <2>2. tries = Retries + 1
    BY <1>1, <2>1, SizeFacts DEF Inv, RequestInv, RequestTypes, TriesInv
  <2> QED BY <2>1, <2>2, Responds, SizeFacts DEF Inv
<1>2. CASE ~(tr > Retries)
  <2>1. stage = "sprr" /\ stage' = "pick"
        /\ UNCHANGED <<method, timed, next, tr, k, candi, resp, hwar, found, tries, answers>>
    BY <1>2 DEF Sprr, Elsewhere
  <2>2. RequestTypes' /\ TriesInv'
    BY <1>2, <2>1, SizeFacts DEF Inv, RequestInv, RequestTypes, TriesInv, Sending
  <2>3. FoundInv'
    <3>1. stage' = "pick" /\ k' = 0 /\ found' = {} /\ next' \in Endpoints
      BY <2>1 DEF Inv, RequestInv, RequestTypes, FoundInv
    <3>2. ASSUME NEW x PROVE x \notin LookedAt'
      BY <3>1, SizeFacts DEF LookedAt, Endpoints
    <3> QED BY <3>1, <3>2 DEF FoundInv
  <2>4. AnswerInv'
    BY <2>1, GoesOn DEF Inv, Sending
  <2> QED BY <2>2, <2>3, <2>4 DEF RequestInv
<1> QED BY <1>1, <1>2

\* The balancer goes on to an endpoint it has not looked at.
LEMMA LooksOn ==
  ASSUME NEW n \in Endpoints, NEW j \in 0 .. Size - 1, NEW x
  PROVE  LET m == (n + 1) % Size
             Old == IF j <= n THEN n - j .. n - 1
                    ELSE (0 .. n - 1) \cup (n + Size - j .. Size - 1)
             New == IF j + 1 <= m THEN m - (j + 1) .. m - 1
                    ELSE (0 .. m - 1) \cup (m + Size - (j + 1) .. Size - 1)
         IN  x \in New <=> x \in Old \/ x = n
<1>1. CASE n = Size - 1
  BY <1>1, NextEndpoint, SizeFacts DEF Endpoints
<1>2. CASE n # Size - 1
  <2>1. (n + 1) % Size = n + 1
    BY <1>2, NextEndpoint, SizeFacts DEF Endpoints
  <2>2. CASE j <= n
    BY <2>1, <2>2, <1>2, SizeFacts DEF Endpoints
  <2>3. CASE ~(j <= n)
    BY <2>1, <2>3, <1>2, SizeFacts DEF Endpoints
  <2> QED BY <2>2, <2>3
<1> QED BY <1>1, <1>2

LEMMA PickKeeps ==
  ASSUME Inv, Pick
  PROVE  EstablishInv' /\ RequestInv'
<1> DEFINE i == IF method = "FailOver" THEN k ELSE next
<1>1. /\ stage = "pick" /\ k < Size /\ Look(i)
      /\ next' = IF method = "FailOver" THEN next ELSE (next + 1) % Size
      /\ UNCHANGED <<method, timed, tr, resp, hwar, tries, answers>>
  BY DEF Pick, Elsewhere
<1>2. k \in 0 .. Size - 1 /\ i \in Endpoints /\ next' \in Endpoints
  BY <1>1, NextEndpoint, SizeFacts DEF Inv, RequestInv, RequestTypes, Endpoints
<1>3. CASE k' = k + 1 /\ found' = found \cup {i} /\ NoTimers /\ UNCHANGED <<stage, candi>>
  <2>1. RequestTypes' /\ TriesInv'
    BY <1>1, <1>2, <1>3, SizeFacts DEF Inv, RequestInv, RequestTypes, TriesInv, Sending, Endpoints
  <2>2. ASSUME NEW x PROVE x \in LookedAt' <=> x \in LookedAt \cup {i}
    <3>1. CASE method = "FailOver"
      BY <1>1, <1>2, <1>3, <3>1, SizeFacts DEF LookedAt
    <3>2. CASE method # "FailOver"
      BY <1>1, <1>2, <1>3, <3>2, LooksOn DEF LookedAt, Inv, RequestInv, RequestTypes
    <3> QED BY <3>1, <3>2
  <2>3. FoundInv'
    BY <1>1, <1>3, <2>2 DEF Inv, RequestInv, FoundInv
  <2>4. AnswerInv'
    BY <1>1, <1>3, GoesOn DEF Inv, Sending
  <2>5. EstablishInv'
    BY <1>3, EstablishFrame DEF Inv, NoTimers
  <2> QED BY <2>1, <2>3, <2>4, <2>5 DEF RequestInv
<1>4. CASE stage' = "connect" /\ candi' = i /\ k' = 0 /\ found' = {} /\ Establish
  <2>1. RequestTypes' /\ TriesInv' /\ FoundInv'
    BY <1>1, <1>2, <1>4, SizeFacts
       DEF Inv, RequestInv, RequestTypes, TriesInv, FoundInv, Sending
  <2>2. AnswerInv'
    BY <1>1, <1>4, GoesOn DEF Inv, Sending
  <2>3. EstablishInv'
    BY <1>4, SizeFacts DEF Inv, EstablishInv, Establish, OpenSocket, timerVars
  <2> QED BY <2>1, <2>2, <2>3 DEF RequestInv
<1> QED BY <1>1, <1>3, <1>4 DEF Look

LEMMA PickNoneKeeps ==
  ASSUME Inv, PickNone
  PROVE  RequestInv'
<1>1. found = Endpoints
  <2>1. found = LookedAt /\ k = Size /\ next \in Endpoints
    BY DEF Inv, RequestInv, RequestTypes, FoundInv, PickNone
  <2>2. ASSUME NEW x PROVE x \in LookedAt <=> x \in Endpoints
    BY <2>1, SizeFacts DEF LookedAt, Endpoints
  <2> QED BY <2>1, <2>2 DEF Endpoints
<1> QED BY <1>1, Responds, SizeFacts
        DEF Inv, PickNone, Sending, Elsewhere, RequestInv, RequestTypes, TriesInv

LEMMA ConneKeeps ==
  ASSUME Inv, Conne
  PROVE  EstablishInv' /\ MonitorInv' /\ RequestInv'
<1>1. /\ stage = "connect" /\ Sending /\ k = 0 /\ found = {}
      /\ candi' = 0 /\ UNCHANGED <<method, timed, next, k, found, resp, hwar, answers>>
  BY DEF Conne, Inv, RequestInv, FoundInv, Sending
<1>2. EstablishInv'
  BY SizeFacts DEF Conne, Established, Inv, EstablishInv, timerVars
<1>3. /\ stage' \in {"sprr", "pick", "exchange"}
      /\ \/ stage' # "sprr" /\ UNCHANGED <<tr, tries>>
         \/ stage' = "sprr" /\ tr' = tr + 1 /\ tries' = tries + 1
  BY DEF Conne
<1>4. RequestTypes' /\ TriesInv'
  BY <1>1, <1>3, SizeFacts DEF Inv, RequestInv, RequestTypes, TriesInv, Sending, Endpoints
<1>5. FoundInv'
  BY <1>1, <1>3, SizeFacts DEF Inv, RequestInv, RequestTypes, FoundInv, LookedAt, Endpoints
<1>6. AnswerInv'
  BY <1>1, <1>3, GoesOn DEF Inv, Sending
<1>7. MonitorInv'
  <2>1. CASE UNCHANGED monitorVars
    BY <2>1, MonitorFrame DEF Inv
  <2>2. CASE Says(candi, "dead") /\ UNCHANGED <<check, tM, tD, called, mstahp, checks, overtaken>>
    BY <2>2, <1>1, SaysKeeps DEF Inv, RequestInv, RequestTypes
  <2> QED BY <2>1, <2>2 DEF Conne
<1> QED BY <1>2, <1>4, <1>5, <1>6, <1>7 DEF RequestInv

LEMMA ExchangeKeeps ==
  ASSUME Inv, Exchange
  PROVE  RequestInv'
<1>1. /\ stage = "exchange" /\ Sending /\ tries = tr /\ tr <= Retries /\ tries' = tries + 1
      /\ tries \in Nat /\ tr \in Nat /\ k = 0 /\ found = {}
      /\ UNCHANGED <<method, timed, next, k, candi, hwar, found>>
  BY SizeFacts DEF Exchange, Elsewhere, Inv, RequestInv, RequestTypes, TriesInv, FoundInv, Sending
<1>2. CASE Respond("ok") /\ UNCHANGED tr
  BY <1>1, <1>2, Responds, SizeFacts DEF Inv
<1>3. CASE stage' = "sprr" /\ tr' = tr + 1 /\ UNCHANGED <<resp, answers>>
  <2>1. RequestTypes' /\ TriesInv'
    BY <1>1, <1>3, SizeFacts DEF Inv, RequestInv, RequestTypes, TriesInv, Sending
  <2>2. FoundInv'
    BY <1>1, <1>3 DEF FoundInv
  <2>3. AnswerInv'
    BY <1>1, <1>3, GoesOn DEF Inv, Sending
  <2> QED BY <2>1, <2>2, <2>3 DEF RequestInv
<1> QED BY <1>2, <1>3 DEF Exchange

\* hwar, which the virtual server and the timer set.
LEMMA HwarKeeps ==
  ASSUME Inv, Set \/ Answer \/ TimeOut \/ TimeOutSets
  PROVE  EstablishInv' /\ RequestInv'
<1>1. CASE Set
  <2>1. EstablishInv'
    BY <1>1 DEF Set, Inv, EstablishInv, establishVars
  <2>2. RequestTypes' /\ TriesInv' /\ FoundInv'
    BY <1>1 DEF Set, Elsewhere, Inv, RequestInv, RequestTypes, TriesInv, FoundInv, Sending
  <2>3. AnswerInv'
    BY <1>1 DEF Set, Elsewhere, Inv, RequestInv, RequestTypes, AnswerInv, Because
  <2> QED BY <2>1, <2>2, <2>3 DEF RequestInv
<1>2. CASE Answer
  <2>1. EstablishInv'
    BY <1>2, EstablishFrame DEF Answer, NoTimers, Inv
  <2>2. /\ timed /\ hwar \in Responses /\ answers = <<>> /\ answers' = <<hwar>>
        /\ UNCHANGED <<method, timed, next, stage, tr, k, candi, resp, hwar, found, tries>>
    BY <1>2 DEF Answer, Elsewhere, Inv, RequestInv, RequestTypes
  <2>3. answers' \in Seq(Responses) /\ Len(answers') = 1 /\ answers'[1] = hwar
    BY <2>2
  <2>4. RequestTypes' /\ TriesInv' /\ FoundInv'
    BY <2>2, <2>3 DEF Inv, RequestInv, RequestTypes, TriesInv, FoundInv, LookedAt, Sending
  <2>5. AnswerInv'
    BY <2>2, <2>3 DEF Inv, RequestInv, RequestTypes, AnswerInv, Because, Responses
  <2> QED BY <2>1, <2>4, <2>5 DEF RequestInv
<1>3. CASE TimeOut
  <2>1. EstablishInv'
    BY <1>3 DEF TimeOut, RequestKeeps, Inv, EstablishInv, establishVars
  <2>2. RequestInv'
    BY <1>3, RequestFrame
       DEF TimeOut, RequestKeeps, Elsewhere, Inv, requestPart, requestVars
  <2> QED BY <2>1, <2>2
<1>4. CASE TimeOutSets
  <2>1. EstablishInv'
    BY <1>4 DEF TimeOutSets, RequestKeeps, Inv, EstablishInv, establishVars
  <2>2. RequestTypes' /\ TriesInv' /\ FoundInv'
    BY <1>4 DEF TimeOutSets, RequestKeeps, Elsewhere, Inv, RequestInv, RequestTypes,
                TriesInv, FoundInv, LookedAt, Sending, Responses
  <2>3. AnswerInv'
    BY <1>4 DEF TimeOutSets, RequestKeeps, Elsewhere, Inv, RequestInv, AnswerInv, Because
  <2> QED BY <2>1, <2>2, <2>3 DEF RequestInv
<1> QED BY <1>1, <1>2, <1>3, <1>4

LEMMA OtherKeeps ==
  ASSUME Inv, OtherRequest
  PROVE  Inv'
<1>1. EstablishInv'
  BY EstablishFrame DEF Inv, OtherRequest, NoTimers
<1>2. MonitorInv'
  BY SaysKeeps DEF Inv, OtherRequest
<1>3. RequestInv'
  <2>1. /\ stage # "pick" /\ next' \in Endpoints
        /\ UNCHANGED <<method, timed, stage, tr, k, candi, resp, hwar, found, tries, answers>>
    BY DEF OtherRequest, Free, Inv, RequestInv, RequestTypes
  <2>2. RequestTypes' /\ TriesInv' /\ FoundInv'
    BY <2>1 DEF Inv, RequestInv, RequestTypes, TriesInv, FoundInv, Sending
  <2>3. AnswerInv'
    BY <2>1 DEF Inv, RequestInv, AnswerInv, Because
  <2> QED BY <2>2, <2>3 DEF RequestInv
<1> QED BY <1>1, <1>2, <1>3 DEF Inv, OtherRequest

LEMMA ShutDownKeeps ==
  ASSUME Inv, ShutDown
  PROVE  Inv'
<1>1. RequestInv'
  BY RequestFrame DEF Inv, ShutDown, requestPart
<1>2. mpc' \in {"up", "lbhmon", "ticktack", "wioe"}
  BY DEF ShutDown
<1>3. CASE ShutMonitor /\ NoTimers
  BY <1>1, <1>2, <1>3, MonitorKeeps, EstablishFrame DEF Inv, NoTimers
<1>4. CASE ShutTimers /\ UNCHANGED monitorVars
  BY <1>1, <1>2, <1>4, EstablishKeeps, MonitorFrame DEF Inv
<1>5. CASE NoTimers /\ UNCHANGED monitorVars
  BY <1>1, <1>2, <1>5, EstablishFrame, MonitorFrame DEF Inv, NoTimers
<1> QED BY <1>3, <1>4, <1>5 DEF ShutDown

\* Each action disturbs one or two parts of the invariant.
LEMMA StepInv == Inv /\ [Next]_vars => Inv'
<1> SUFFICES ASSUME Inv, [Next]_vars PROVE Inv'
  OBVIOUS
<1>1. ASSUME EstablishInv', MonitorInv', RequestInv', UNCHANGED mpc
      PROVE  Inv'
  BY <1>1 DEF Inv
<1>2. ASSUME UNCHANGED monitorVars PROVE MonitorInv'
  BY <1>2, MonitorFrame DEF Inv
<1>3. ASSUME NoTimers PROVE EstablishInv'
  BY <1>3, EstablishFrame DEF Inv, NoTimers
<1>4. ASSUME NoRequest PROVE RequestInv' /\ UNCHANGED mpc
  BY <1>4, RequestFrame DEF Inv, NoRequest, requestPart
<1>5. ASSUME Elsewhere PROVE MonitorInv' /\ UNCHANGED mpc
  BY <1>2, <1>5 DEF Elsewhere
<1>6. CASE Take
  BY <1>1, <1>5, <1>6, TakeKeeps DEF Take
<1>7. CASE Sprr
  BY <1>1, <1>3, <1>5, <1>7, SprrKeeps DEF Sprr
<1>8. CASE Pick
  BY <1>1, <1>5, <1>8, PickKeeps DEF Pick
<1>9. CASE PickNone
  BY <1>1, <1>3, <1>5, <1>9, PickNoneKeeps DEF PickNone
<1>10. CASE Conne
  BY <1>1, <1>10, ConneKeeps DEF Conne
<1>11. CASE Exchange
  BY <1>1, <1>3, <1>5, <1>11, ExchangeKeeps DEF Exchange
<1>12. CASE Set \/ Answer \/ TimeOut \/ TimeOutSets
  <2>1. Elsewhere
    BY <1>12 DEF Set, Answer, TimeOut, TimeOutSets
  <2> QED BY <1>1, <1>5, <1>12, <2>1, HwarKeeps
<1>13. CASE /\ Connect \/ Connected \/ Report \/ CancelConnect \/ Retry \/ Fire
            /\ UNCHANGED monitorVars /\ NoRequest
  BY <1>1, <1>2, <1>4, <1>13, EstablishKeeps DEF Inv
<1>14. CASE /\ \E e \in Endpoints : Conok(e) \/ Checked(e) \/ Tick(e) \/ Call(e) \/ Declare(e)
            /\ NoTimers /\ NoRequest
  BY <1>1, <1>3, <1>4, <1>14, MonitorKeeps DEF Inv
<1>15. CASE OtherRequest
  BY <1>15, OtherKeeps
<1>16. CASE ShutDown
  BY <1>16, ShutDownKeeps
<1>17. CASE UNCHANGED vars
  BY <1>17, EstablishFrame, MonitorFrame, RequestFrame DEF Inv, vars, requestPart
<1>18. CASE Worker
  BY <1>7, <1>8, <1>9, <1>10, <1>11, <1>12, <1>13, <1>14, <1>18 DEF Worker, Checks
<1>19. CASE TimerThread
  BY <1>12, <1>13, <1>19 DEF TimerThread
<1>20. CASE MonitorTimers \/ Begin
  BY <1>14, <1>20 DEF MonitorTimers, Begin
<1>21. CASE Epoll
  BY <1>13, <1>21 DEF Epoll
<1> QED BY <1>6, <1>15, <1>16, <1>17, <1>18, <1>19, <1>20, <1>21 DEF Next

LEMMA Invariance == Spec => []Inv
BY InitInv, StepInv, PTL DEF Spec
------------------------------------------------------------------------------
\* The variables that hold a truth value.
LEMMA StepSwitches == Switches /\ [Next]_vars => Switches'
<1> SUFFICES ASSUME Switches, [Next]_vars PROVE Switches'
  OBVIOUS
<1>1. ASSUME NoTimers PROVE armed' \in BOOLEAN /\ stahp' \in BOOLEAN
  BY <1>1, Zenon DEF NoTimers, timerVars, establishVars, Switches
<1>2. ASSUME UNCHANGED monitorVars PROVE mstahp' \in BOOLEAN
  BY <1>2, Zenon DEF monitorVars, Switches
<1>3. ASSUME UNCHANGED timed PROVE timed' \in BOOLEAN
  BY <1>3, Zenon DEF Switches
<1>4. ASSUME UNCHANGED <<stahp, establishVars>> PROVE armed' \in BOOLEAN /\ stahp' \in BOOLEAN
  BY <1>4, Zenon DEF establishVars, Switches
<1>5. CASE Take \/ Set \/ TimeOut \/ TimeOutSets
  BY <1>2, <1>3, <1>4, <1>5, Zenon
     DEF Take, Set, TimeOut, TimeOutSets, RequestKeeps, Elsewhere, establishVars, Switches
<1>6. CASE Sprr \/ PickNone \/ Exchange \/ Answer
  BY <1>1, <1>2, <1>3, <1>6, Zenon DEF Sprr, PickNone, Exchange, Answer, Elsewhere, Switches
<1>7. CASE Pick
  <2>1. armed' \in BOOLEAN /\ stahp' \in BOOLEAN
    BY <1>1, <1>7, Zenon DEF Pick, Look, Establish, OpenSocket, timerVars, Switches
  <2> QED BY <1>2, <1>3, <1>7, <2>1, Zenon DEF Pick, Elsewhere, Switches
<1>8. CASE Conne
  BY <1>8, Zenon DEF Conne, Established, timerVars, monitorVars, Switches
<1>9. CASE OtherRequest
  BY <1>1, <1>9, Zenon DEF OtherRequest, Switches
<1>10. CASE /\ Connect \/ Connected \/ Report \/ CancelConnect \/ Retry \/ Fire
            /\ UNCHANGED monitorVars /\ NoRequest
  <2>1. armed' \in BOOLEAN /\ stahp' \in BOOLEAN
    BY <1>10, Zenon
       DEF Connect, Connected, Tried, Report, CancelConnect, Retry, OpenSocket, Fire,
           timerVars, establishVars, Switches
  <2> QED BY <1>2, <1>3, <1>10, <2>1, Zenon DEF NoRequest, Switches
<1>11. CASE /\ \E e \in Endpoints : Conok(e) \/ Checked(e) \/ Tick(e) \/ Call(e) \/ Declare(e)
            /\ NoTimers /\ NoRequest
  <2>1. mstahp' \in BOOLEAN
    BY <1>11, Zenon DEF Conok, Checked, Tick, Call, Declare, Switches
  <2> QED BY <1>1, <1>3, <1>11, <2>1, Zenon DEF NoRequest, Switches
<1>12. CASE ShutDown
  <2>1. (armed' \in BOOLEAN /\ stahp' \in BOOLEAN) /\ mstahp' \in BOOLEAN
    BY <1>1, <1>2, <1>12, Zenon DEF ShutDown, ShutMonitor, ShutTimers, Switches
  <2> QED BY <1>3, <1>12, <2>1, Zenon DEF ShutDown, Switches
<1>13. CASE UNCHANGED vars
  BY <1>13, Zenon DEF vars, timerVars, establishVars, monitorVars, Switches
<1>14. CASE Worker
  BY <1>5, <1>6, <1>7, <1>8, <1>10, <1>11, <1>14, Zenon DEF Worker, Checks
<1>15. CASE TimerThread \/ MonitorTimers \/ Begin \/ Epoll
  BY <1>5, <1>10, <1>11, <1>15, Zenon DEF TimerThread, MonitorTimers, Begin, Epoll
<1> QED BY <1>5, <1>9, <1>12, <1>13, <1>14, <1>15, Zenon DEF Next

LEMMA InitSwitches == Init => Switches
<1> SUFFICES ASSUME Init PROVE Switches
  OBVIOUS
<1>1. PICK u \in Upstreams : method = u[1] /\ timed = u[2]
  BY Zenon DEF Init
<1>2. u[2] \in BOOLEAN
  BY ProxyingAssumption
<1> QED BY <1>1, <1>2, Zenon DEF Init, EstablishInit, HealthInit, Switches

\* Every variable keeps its type and its bound, for any number of endpoints, of tries of a
\* request and of attempts to connect (prox.cpp 52-84, estconn.cpp 12-37).
THEOREM TypeCorrectness == Spec => []TypeOK
<1>1. Inv /\ Switches => TypeOK
  <2> SUFFICES ASSUME Inv, Switches PROVE TypeOK
    OBVIOUS
  <2>1. {armed, stahp, mstahp, timed} \subseteq BOOLEAN
    BY Zenon DEF Switches
  <2>2. due \in timers \cup {NoTimer, "stale", "request", "setting", "connect", "retry"}
    BY DEF Inv, EstablishInv
  <2>3. tM \cup tD \cup overtaken \subseteq Endpoints
    BY DEF Inv, MonitorInv, MonitorTypes
  <2> QED BY <2>1, <2>2, <2>3
          DEF TypeOK, Inv, EstablishInv, MonitorInv, MonitorTypes, Healths, RequestInv, RequestTypes
<1>2. Spec => []Switches
  BY InitSwitches, StepSwitches, PTL DEF Spec
<1> QED BY <1>1, <1>2, Invariance, PTL

\* The client's side is called back at most once, with a 502 after the tries that are
\* allowed and a 503 after every endpoint was found dead, whatever the timer of TimeItOut
\* does (timout.cpp 16-33, prox.cpp 52-84, loadbalhelth.hpp 59-77).
THEOREM AnswersAreRight == Spec => []AnsweredRightly
<1>1. Inv => AnsweredRightly
  <2> SUFFICES ASSUME Inv PROVE AnsweredRightly
    OBVIOUS
  <2>1. tries <= Retries + 1 /\ Len(answers) <= 1
    BY DEF Inv, RequestInv, TriesInv, AnswerInv
  <2>2. ASSUME answers # <<>> PROVE Because(answers[1])
    BY <2>2 DEF Inv, RequestInv, AnswerInv
  <2>3. ASSUME NEW a \in Responses, answers = <<a>> PROVE answers # <<>> /\ answers[1] = a
    BY <2>3
  <2> QED BY <2>1, <2>2, <2>3 DEF AnsweredRightly, Because, Responses
<1> QED BY <1>1, Invariance, PTL

\* Between the checks of an endpoint its health is what the last check, or the last
\* connection that failed, said: a callback that outlives its check is one the check could
\* not stop (helth.cpp 39-79).
THEOREM ChecksAreFinal == Spec => []ChecksDecide
<1>1. Inv => ChecksDecide
  BY DEF Inv, MonitorInv, EndpointInv, ChecksDecide
<1> QED BY <1>1, Invariance, PTL
==============================================================================
