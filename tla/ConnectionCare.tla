---------------------------- MODULE ConnectionCare ----------------------------
(***************************************************************************)
(* main/fiz/preqh.cpp and the reading and writing of main/http/rr.cpp, for *)
(* one accepted connection: it waits idle for the first byte of a request, *)
(* reads title, headers and body, has a virtual server answer, writes the  *)
(* response and begins again, or lets the connection go.  Two timers, one  *)
(* for the idle wait and one for the request, call cancel() of the         *)
(* connection, and so does the shutdown for a connection that is idle.     *)
(*                                                                         *)
(* The wire carries units: a title, CRLF, the header lines, a unit of body.*)
(***************************************************************************)
EXTENDS FileResource, ReadBuffer, SequencesExt

CONSTANTS Wire,       \* all the client sends, requests one after the other
          Cuts,       \* bound of the model: where the client may stop sending for a while
          EndOf,      \* where its requests end, but for what comes after those that are taken
          CRLF,
          Malformed,  \* headers that readHeaders() refuses: a line without name and colon, a
                      \* blank in a name, a Content-Length that is empty, negative, no number
          Length,     \* Content-Length of headers
          Close,      \* headers with Connection: close
          Throughput  \* a least byte rate is configured

ASSUME CareAssumption == Throughput \in BOOLEAN

\* The wire is whole requests, each of them a title, headers and a body of the length that
\* they say (for headers that are refused: of any length, as it is not read), up to where
\* EndOf says; what is left has no end of headers in it.  Lengths fit into 64 bits.
Unit == Range(Wire)
ASSUME WireAssumption ==
  /\ Wire \in Seq(Unit) /\ Cuts \subseteq 0 .. Len(Wire)
  /\ EndOf \in Seq(0 .. Len(Wire))
  /\ \A i \in 1 .. Len(EndOf) :
       LET begin == IF i = 1 THEN 0 ELSE EndOf[i - 1]
       IN /\ begin + 5 <= EndOf[i]
          /\ Wire[begin + 1] # CRLF /\ Wire[begin + 2] = CRLF
          /\ Wire[begin + 3] # CRLF /\ Wire[begin + 4] = CRLF /\ Wire[begin + 5] = CRLF
          /\ Length[Wire[begin + 3]] = EndOf[i] - begin - 5
  /\ \A j \in 1 .. Len(Wire) - 1 :
       j > (IF EndOf = <<>> THEN 0 ELSE Last(EndOf)) => ~(Wire[j] = CRLF /\ Wire[j + 1] = CRLF)

VARIABLES at,       \* where the care of the connection is
          asked, readbuff, \* the operation under way on the resource, and its buffer
          line, \* the title, and the headers, that have been read
          answer, kal, \* what the read has come to, and whether the connection stays
          idle,     \* the connection is in the idle set
          timer,    \* the timer that is set, idle or transaction
          due,      \* its callback is called
          sdown, ridle, mpc, \* the shutdown: flag, the idle set it has taken, where main is
          sent, got, \* how much of the wire was sent, and what the client has received
          \* history
          handled,  \* the requests that the virtual server was given
          answers,  \* the responses that were written
          late      \* the connection became idle after the shutdown had taken the idle set

clientVars == <<sent, got>>
shutVars == <<sdown, ridle, mpc>>
careVars == <<at, asked, readbuff, line, answer, kal>>
timerVars == <<timer, due>>
history == <<handled, answers, late>>
vars == <<fileVars, careVars, idle, timerVars, shutVars, clientVars, history>>

None == [kind |-> "none"]
Init ==
  /\ FileInit
  /\ at = "care" /\ asked = None /\ readbuff = <<>> /\ line = <<>>
  /\ answer = "none" /\ kal = FALSE
  /\ idle = FALSE /\ timer = FALSE /\ due = FALSE
  /\ sdown = FALSE /\ ridle = FALSE /\ mpc = "up"
  /\ sent = 0 /\ got = <<>>
  /\ handled = <<>> /\ answers = <<>> /\ late = FALSE

OnWorker == bpc = "idle" /\ alive
Started == UNCHANGED <<kernelVars, interest, epollVars, engineVars, ticketVars, wrong,
                       dangling, pending, cut>>
Rest == UNCHANGED fileVars

\* An operation of IAIOResource begins: _read of what the buffer lacks, or nothing to read.
Asks(q, buff, place) ==
  /\ at' = place /\ asked' = q /\ readbuff' = buff
  /\ IF Buffered(q, buff) THEN Rest
     ELSE Started /\ Submit([kind |-> "read", n |-> Request(q, buff)], <<>>)

\* It has ended, or its pattern is still to come and _read is called again.
NoRead == Buffered(asked, readbuff)
Failed == ~NoRead /\ ~res.ok
Bytes == IF NoRead \/ Failed THEN <<>> ELSE res.data
Read == Outcome(asked, readbuff, Bytes)
Ended == Failed \/ Satisfied(asked, readbuff, Bytes)
Left == IF Failed THEN readbuff ELSE Read.left
ReadsOn ==
  /\ ~Ended
  /\ readbuff' = readbuff \o Bytes
  /\ Started /\ Submit([kind |-> "read", n |-> 1], <<>>)
  /\ UNCHANGED <<at, asked, line, answer>>

\* RR::read has come to a request, to an error with a status, or to another error.
Concludes(verdict) ==
  /\ at' = "read" /\ answer' = verdict
  /\ readbuff' = Left
  /\ Rest /\ UNCHANGED <<asked, line>>
OnError == IF Failed /\ res.why = "cancelled" THEN "408" ELSE "drop"

\* The response goes through a Writer that is dropped at once: one write of it all.
Response(a) == <<a, "end">>
Replies(a) ==
  /\ at' = "write" /\ answer' = "none" /\ answers' = Append(answers, a)
  /\ asked' = None
  /\ Started /\ Submit([kind |-> "write", n |-> 2], Response(a))
Drops ==
  /\ at' = "done" /\ asked' = None
  /\ Rest /\ UNCHANGED <<answer, answers>>

TimersRun == mpc # "wioe"
------------------------------------------------------------------------------
\* takeCare(): the idle set, the idle timer and peek(1).
Idle ==
  /\ at = "care" /\ OnWorker
  /\ idle' = TRUE
  /\ late' = (late \/ mpc \in {"cancel", "ticktack", "wioe"})
  /\ timer' = TimersRun
  /\ Asks(Peek(1), readbuff, "peek")
  /\ UNCHANGED <<line, answer, kal, due, shutVars, clientVars, handled, answers>>

\* The peek has ended: the connection leaves the idle set and the idle timer is stopped.
\* A byte: the transaction timer is set and the title is read.  A cancellation is
\* answered; the end of the data, or an error, is the end.
Begin ==
  /\ at = "peek" /\ OnWorker
  /\ idle' = FALSE
  /\ \/ /\ ~Failed /\ Read.result # <<>>
        /\ timer' = TimersRun
        /\ Asks(ToPattern(<<CRLF>>), Left, "title")
        /\ UNCHANGED <<answer, answers>>
     \/ /\ Failed /\ res.why = "cancelled"
        /\ timer' = FALSE
        /\ Replies(<<"408">>) /\ UNCHANGED readbuff
     \/ /\ IF Failed THEN res.why # "cancelled" ELSE Read.result = <<>>
        /\ timer' = FALSE
        /\ Drops /\ UNCHANGED readbuff
  /\ kal' = FALSE
  /\ UNCHANGED <<line, due, shutVars, clientVars, handled, late>>

At(place) == at = place /\ OnWorker
ReadKeeps == UNCHANGED <<kal, idle, timerVars, shutVars, clientVars, history>>

\* The read has ended with the pattern, or without.
Found == Ended /\ ~Failed /\ Read.ok
Missed == Ended /\ (Failed \/ ~Read.ok)

\* RRaw::readTitle() takes any title.
ReadTitle ==
  /\ At("title")
  /\ \/ ReadsOn
     \/ Missed /\ Concludes(OnError)
     \/ /\ Found
        /\ Asks(ToPattern(<<CRLF, CRLF>>), Left, "headers")
        /\ line' = <<Head(Read.result)>>
        /\ UNCHANGED answer
  /\ ReadKeeps

\* readHeaders() refuses what it has read, the last of its tests being for a Content-Length
\* that is no number.
Refused == Head(Read.result) \in Malformed

\* Mutant: the error of readHeaders() is not looked at.
ReadAnyHeaders ==
  /\ At("headers")
  /\ \/ ReadsOn
     \/ Missed /\ Concludes(OnError)
     \/ /\ Found
        /\ line' = Append(line, Head(Read.result))
        /\ IF Length[Last(line')] > 0
           THEN Asks(Upto(Length[Last(line')]), Left, "body") /\ UNCHANGED answer
           ELSE at' = "read" /\ answer' = "none" /\ readbuff' = Left /\ Rest /\ UNCHANGED asked
  /\ ReadKeeps

\* Headers that are not refused say how long the body is.
ReadHeaders ==
  /\ At("headers")
  /\ \/ ReadsOn
     \/ Missed /\ Concludes(OnError)
     \/ Found /\ Refused /\ Concludes("400")
     \/ /\ Found /\ ~Refused
        /\ line' = Append(line, Head(Read.result))
        /\ IF Length[Last(line')] > 0
           THEN Asks(Upto(Length[Last(line')]), Left, "body") /\ UNCHANGED answer
           ELSE at' = "read" /\ answer' = "none" /\ readbuff' = Left /\ Rest /\ UNCHANGED asked
  /\ ReadKeeps

\* Whatever has come is the body.
ReadBody ==
  /\ At("body")
  /\ Concludes(IF Failed THEN OnError ELSE "none")
  /\ ReadKeeps

\* The transaction timer is stopped; the request goes to the virtual server, unless it was
\* too slow, or the error is answered.
Take ==
  /\ At("read")
  /\ timer' = FALSE
  /\ \/ /\ answer = "none"
        /\ handled' = Append(handled, line)
        /\ at' = "serve"
        /\ Rest /\ UNCHANGED <<asked, answer, answers>>
     \/ /\ answer = "none" /\ Throughput
        /\ Replies(<<"408">>) /\ UNCHANGED handled
     \/ /\ answer \in {"408", "400"}
        /\ Replies(<<answer>>) /\ UNCHANGED handled
     \/ /\ answer = "drop"
        /\ Drops /\ UNCHANGED handled
  /\ UNCHANGED <<readbuff, line, kal, idle, due, shutVars, clientVars, late>>

\* The virtual server calls back; a server error closes the connection.
Respond ==
  /\ At("serve")
  /\ \E good \in BOOLEAN : kal' = (Last(line) \notin Close /\ good)
  /\ Replies(line)
  /\ UNCHANGED <<readbuff, line, idle, timerVars, shutVars, clientVars, handled, late>>

\* Mutant: a write that has failed does not end the connection.
WrittenOrNot ==
  /\ At("write")
  /\ IF kal /\ ~sdown THEN at' = "care" /\ Rest /\ UNCHANGED <<asked, answer, answers>>
     ELSE Drops
  /\ UNCHANGED <<readbuff, line, kal, idle, timerVars, shutVars, clientVars, handled, late>>

\* eod: the connection is cared for again, if it may stay and there is no shutdown.
Written ==
  /\ At("write")
  /\ IF res.ok /\ kal /\ ~sdown THEN at' = "care" /\ Rest /\ UNCHANGED <<asked, answer, answers>>
     ELSE Drops
  /\ UNCHANGED <<readbuff, line, kal, idle, timerVars, shutVars, clientVars, handled, late>>

\* Nobody refers to the connection any more.
LetGo ==
  /\ at = "done" /\ ~due /\ ~ridle
  /\ Release
  /\ UNCHANGED <<careVars, idle, timerVars, shutVars, clientVars, history>>

Care == \/ Idle \/ Begin \/ ReadTitle \/ ReadHeaders \/ ReadBody
        \/ Take \/ Respond \/ Written \/ LetGo
------------------------------------------------------------------------------
\* The timer thread takes the timer that is set ...
Fire ==
  /\ timer /\ ~due /\ TimersRun
  /\ timer' = FALSE /\ due' = TRUE
  /\ UNCHANGED <<fileVars, careVars, idle, shutVars, clientVars, history>>

\* ... and its callback cancels.
FireCancels ==
  /\ due /\ due' = FALSE
  /\ Cancel
  /\ UNCHANGED <<careVars, idle, timer, shutVars, clientVars, history>>

\* shutdown() of the care: the flag, then the idle set under its lock, ...
ShutFlag ==
  /\ mpc = "up" /\ mpc' = "swap"
  /\ sdown' = TRUE
  /\ UNCHANGED <<fileVars, careVars, idle, timerVars, ridle, clientVars, history>>
\* Mutant: the idle set is dropped and nobody is cancelled.
ShutSwapOnly ==
  /\ mpc = "swap" /\ mpc' = "ticktack"
  /\ idle' = FALSE
  /\ UNCHANGED <<fileVars, careVars, timerVars, sdown, ridle, clientVars, history>>
ShutSwap ==
  /\ mpc = "swap" /\ mpc' = IF idle THEN "cancel" ELSE "ticktack"
  /\ ridle' = idle /\ idle' = FALSE
  /\ UNCHANGED <<fileVars, careVars, timerVars, sdown, clientVars, history>>
\* ... whose connections are cancelled and let go.
ShutCancel ==
  /\ mpc = "cancel" /\ mpc' = "ticktack"
  /\ ridle' = FALSE
  /\ Cancel
  /\ UNCHANGED <<careVars, idle, timerVars, sdown, clientVars, history>>
\* ticktack.shutdown() drops the timers and joins the thread; then wioe(), which goes on
\* when it is woken.
ShutTimers ==
  /\ mpc = "ticktack" /\ ~due
  /\ mpc' = "wioe" /\ timer' = FALSE
  /\ Wioe
  /\ UNCHANGED <<careVars, idle, due, sdown, ridle, clientVars, history>>
ShutWioe ==
  /\ mpc = "wioe"
  /\ Wioe
  /\ UNCHANGED <<careVars, idle, timerVars, shutVars, clientVars, history>>
Main == ShutSwap \/ ShutCancel \/ ShutTimers \/ ShutWioe
------------------------------------------------------------------------------
\* The client sends its requests in pieces, receives, and ends: in order, or with a reset
\* when there is something it has not received.
ClientSends ==
  /\ \E k \in Cuts : /\ sent < k
                    /\ PeerSends(SubSeq(Wire, sent + 1, k))
                    /\ sent' = k
  /\ UNCHANGED got
ClientReceives == PeerReceives /\ got' = got \o outq /\ UNCHANGED sent
ClientEnds == PeerEnds /\ UNCHANGED clientVars
ClientResets == outq # <<>> /\ PeerResets /\ UNCHANGED clientVars
Elsewhere == PeerKeeps /\ UNCHANGED <<careVars, idle, timerVars, shutVars, history>>
Client == alive /\ (ClientSends \/ ClientReceives \/ ClientEnds \/ ClientResets) /\ Elsewhere

CareKeeps == UNCHANGED <<careVars, idle, timerVars, shutVars, clientVars, history>>
Next ==
  \/ (Body \/ Epoll) /\ CareKeeps
  \/ Care
  \/ Fire \/ FireCancels
  \/ ShutFlag \/ Main
  \/ Client

SafeSpec == Init /\ [][Next]_vars

\* The worker, the epoll thread, the timers and main go on; virtual servers call back; a
\* client receives and in the end goes away.
Fairness ==
  /\ WF_vars(Body /\ CareKeeps) /\ WF_vars(Epoll /\ CareKeeps) /\ WF_vars(Care)
  /\ WF_vars(FireCancels) /\ WF_vars(Main)
  /\ WF_vars(alive /\ ClientReceives /\ Elsewhere)
  /\ WF_vars(alive /\ (ClientEnds \/ ClientResets) /\ Elsewhere)

Spec == SafeSpec /\ Fairness
------------------------------------------------------------------------------
\* The variables keep their types; of the one resource there is one ticket (io.cpp 395-402).
TypeOK ==
  /\ peer \in {"open", "closed", "reset"}
  /\ interest \in {"new", "off", "in", "out", "never"}
  /\ epc \in {"wait", "set", "notify", "exit"} /\ event \in Events \cup {NoEvent}
  /\ engif \in {"running", "completed"} /\ ev \in Events \cup {NoEvent} /\ notes \in Nat
  /\ bpc \in {"idle", "enter", "io", "check", "await"}
  /\ wpc \in {"up", "asleep", "wioe", "stop", "down"} /\ tickets \in {0, 1}
  /\ pending \in {"no", "yes", "overwritten"} /\ dangling \subseteq {"completed", "notify"}
  /\ at \in {"care", "peek", "title", "headers", "body", "read", "serve",
             "write", "done"}
  /\ mpc \in {"up", "swap", "cancel", "ticktack", "wioe"}
  /\ \A b \in {alive, wrong, kal, idle, timer, due, sdown, ridle, late} : b \in BOOLEAN

\* What the client has sent and no operation has returned yet, in the order it was sent.
Reads == at \in {"peek", "title", "headers", "body"}
Held == readbuff \o (IF op.kind = "read" THEN data ELSE IF Reads THEN Bytes ELSE <<>>) \o inq

Sound == ~(Reads /\ bpc = "idle" /\ Failed)

\* How much of the wire the requests that were handled are.
Taken == IF handled = <<>> THEN 0 ELSE Least(EndOf[Len(handled)], sent)

\* Whatever way the bytes came in pieces, none is lost, doubled or out of order between the
\* kernel, the body of _read and readbuff, over all requests of the connection: a request
\* has its own title and headers, which were not refused, and the next one begins at its first
\* byte (io.cpp 294-331, rr.cpp 29-53).
BytesAreKept ==
  (at \notin {"read", "write", "done"} /\ Sound /\ peer # "reset") =>
    /\ IsSuffix(Held, SubSeq(Wire, 1, sent))
    /\ at \in {"care", "peek"} => sent = Taken + Len(Held)
    /\ \A i \in DOMAIN handled :
         LET begin == IF i = 1 THEN 1 ELSE EndOf[i - 1] + 1
         IN handled[i] = <<Wire[begin], Wire[begin + 2]>> /\ Wire[begin + 2] \notin Malformed

Flat(as) == FlattenSeq([i \in DOMAIN as |-> Response(as[i])])
\* The client gets the responses to its requests, each once, whole and in the order of the
\* requests, and an error only as the last: 400 in the place of the response to a request
\* whose headers are malformed, and to no other (preqh.cpp 86-122, rr.cpp 37-38).
ResponsesInOrder ==
  LET done == IF at = "serve" THEN Front(handled) ELSE handled
      begin == IF done = <<>> THEN 0 ELSE EndOf[Len(done)]
  IN /\ IsPrefix(done, answers)
     /\ Len(answers) > Len(done) =>
          /\ answers \in {Append(done, <<"408">>), Append(done, <<"400">>)}
          /\ at \in {"write", "done"}
          /\ Last(answers) = <<"400">> /\ peer # "reset" =>
               Len(done) < Len(EndOf) /\ Wire[begin + 3] \in Malformed
     /\ peer # "reset" => IsPrefix(got \o outq, Flat(answers))

\* As long as no operation was cut short by a cancellation, every wait of an operation ends
\* with the event that it asked of epoll: `running()` and `completed()` of the one engif, by
\* body and epoll thread, never hand an operation what an earlier one waited for.  After a
\* cancellation they may: the interest that the cut operation stated is still there
\* (io.cpp 42-55, 175-199).
WrongEventOnlyAfterCancel == wrong => cut > 0
\* And as long as there was none, an event of epoll finds the resource that is registered with
\* it and completes the engif of that resource: nobody lets a resource go while an interest is
\* stated or its event is in hand (io.cpp 43, 119-127, 450).  It says nothing of the second
\* half of notify(): once engif is completed the operation may end and the resource go before
\* engine->notify(engif) is called, with no cancellation at all ("notify" in dangling).
EventsFindTheirResource == "completed" \in dangling => cut > 0

\* A connection that waits for a request once the shutdown has been through the idle set was
\* told, unless it became idle after that: it tested the flag before the shutdown set it
\* (preqh.cpp 54-62, 97, 126-137).
Waits == at = "peek" /\ bpc = "await"
IdleIsTold == mpc \in {"ticktack", "wioe"} /\ Waits => late \/ engif = "completed"

\* An operation that is cancelled does not go on waiting for the peer: whatever the epoll
\* thread and the worker do at the same time, a notification is on its way to the body that
\* waits, unless the epoll thread has completed engif over the cancellation, which is then
\* lost (io.cpp 42-55).
CancelIsTaken == pending = "yes" /\ bpc = "await" => notes > 0
\* wioe() returns: every way through the care of a connection lets go of the connection,
\* and the last ticket wakes who waits for it (io.cpp 395-418, main.cpp 201-206).
WioeReturns == mpc = "wioe" ~> wpc = "down"
==============================================================================
