----------------------------- MODULE SSLResource ------------------------------
(***************************************************************************)
(* main/ossl/iores.cpp: TLS on top of another resource, here an IOI2Way,   *)
(* as test/sslhandshake.cpp builds it.  Each end runs a program of reads   *)
(* and writes.  A read or write of the TLS resource resumes the SSL        *)
(* library, which takes records from bioIn and leaves records in bioOut,   *)
(* and turns what the library wants into reads (rip) and writes (wip) of   *)
(* the raw resource.  All bodies run on one worker; an action is a body up *)
(* to its next await, or one call of the library.                          *)
(*                                                                         *)
(* OpenSSL is external and modelled by what iores.cpp uses of it: Flights  *)
(* handshake flights in turns, the client first, then a ticket from the    *)
(* server, and one record for each SSL_write, which SSL_read hands out in  *)
(* pieces of at most BufferSize.                                           *)
(***************************************************************************)
EXTENDS IOI2Way, ReadBuffer, SequencesExt

CONSTANTS Byte,       \* the bytes of the programs
          Client,     \* the end in connect state
          Flights,    \* flights of a handshake
          BufferSize, \* `buffer`, 4096 bytes in the code
          Programs    \* the pairs of programs

\* A program is a sequence of the operations of ReadBuffer and of writes.
Operation == [kind : {"toend"}] \cup [kind : {"upto", "peek"}, n : Nat]
             \cup [kind : {"pattern"}, p : Seq(Byte)] \cup [kind : {"write"}, data : Seq(Byte)]

ASSUME SSLAssumption ==
  /\ Client \in Ends
  /\ Flights \in Nat \ {0} /\ BufferSize \in Nat \ {0}
  /\ Programs \subseteq [Ends -> Seq(Operation)]

Flight(n) == [kind |-> "flight", n |-> n]
Ticket == [kind |-> "ticket"]
Data(bytes) == [kind |-> "data", bytes |-> bytes]
Sends(n) == IF n % 2 = 1 THEN Client ELSE 1 - Client

Nothing == [st |-> "none", got |-> <<>>]
Put(data) == [kind |-> "write", data |-> data]

VARIABLES program, \* program[e]: operations end e has still to do, the current one first
          pc,      \* where its body is: "begin", "enter", "library", "await" or "ended"
          rip, wip, \* the raw read and write: "none", "queued", "waiting" or "completed"
          resd,    \* resd: what the current _read has decrypted
          wrb,     \* wrb: what the current _write has not given to the library
          readbuff, \* readbuff of IAIOResource
          hs,      \* the flights end e has sent or taken
          bioIn, bioOut, \* records for, and from, the library
          rest,    \* the part of a record that SSL_read has not handed out
          \* history
          sent,    \* what the library has been given to send
          received \* what the reads have returned

sslVars == <<rip, wip, resd, wrb, hs, bioIn, bioOut, rest>>
vars == <<ioiVars, sslVars, program, pc, readbuff, sent, received>>

Each(v) == [e \in Ends |-> v]

\* Both ends have been told to start: the client's first flight is in its bioOut.
Init ==
  /\ IOIInit
  /\ program \in Programs
  /\ pc = Each("begin")
  /\ rip = Each(Nothing) /\ wip = Each(Nothing)
  /\ resd = Each(<<>>) /\ wrb = Each(<<>>) /\ readbuff = Each(<<>>)
  /\ hs = [e \in Ends |-> IF e = Client THEN 1 ELSE 0]
  /\ bioIn = Each(<<>>)
  /\ bioOut = [e \in Ends |-> IF e = Client THEN <<Flight(1)>> ELSE <<>>]
  /\ rest = Each(<<>>)
  /\ sent = Each(<<>>) /\ received = Each(<<>>)

Op(e) == Head(program[e])
Writes(e) == Op(e).kind = "write"
Connected(e) == hs[e] = Flights
At(e, place) == program[e] # <<>> /\ pc[e] = place
Go(e, place) == pc' = [pc EXCEPT ![e] = place]
Next1(e) == program' = [program EXCEPT ![e] = Tail(@)]

\* An operation ends; its read has returned rd.
ReadEnds(e, rd) ==
  LET o == Outcome(Op(e), readbuff[e], rd)
  IN /\ Next1(e) /\ Go(e, "begin")
     /\ readbuff' = [readbuff EXCEPT ![e] = o.left]
     /\ received' = [received EXCEPT
          ![e] = IF o.ok /\ Op(e).kind # "peek" THEN @ \o o.result ELSE @]

\* _read returns rd: to the operation's result, or to the search for the pattern again.
ReadReturns(e, rd) ==
  IF Satisfied(Op(e), readbuff[e], rd) THEN ReadEnds(e, rd)
  ELSE /\ Go(e, "begin")
       /\ readbuff' = [readbuff EXCEPT ![e] = @ \o rd]
       /\ UNCHANGED <<program, received>>

WriteReturns(e) ==
  /\ Next1(e) /\ Go(e, "begin")
  /\ UNCHANGED <<readbuff, received>>

\* The operation fails; the program goes on with the next.
Fails(e) ==
  /\ Next1(e) /\ Go(e, "begin")
  /\ UNCHANGED <<readbuff, received>>

OpUnchanged == UNCHANGED <<program, readbuff, received>>
------------------------------------------------------------------------------
\* An operation begins: with what is buffered, or with a body of _read or _write.
Begin(e) ==
  /\ At(e, "begin")
  /\ IF ~Writes(e) /\ Buffered(Op(e), readbuff[e])
     THEN ReadEnds(e, <<>>) /\ UNCHANGED <<resd, wrb>>
     ELSE /\ Go(e, "enter")
          /\ resd' = [resd EXCEPT ![e] = <<>>]
          /\ wrb' = [wrb EXCEPT ![e] = IF Writes(e) THEN Op(e).data ELSE <<>>]
          /\ OpUnchanged
  /\ UNCHANGED <<ioiVars, rip, wip, hs, bioIn, bioOut, rest, sent>>

\* justYeetAlready(): all of bioOut goes to a raw write that is submitted and awaited.
YeetAlready(e) ==
  /\ wip' = [wip EXCEPT ![e] = [st |-> "queued", got |-> bioOut[e]]]
  /\ bioOut' = [bioOut EXCEPT ![e] = <<>>]
  /\ Go(e, "await")

\* justReadAlready()
ReadAlready(e) ==
  /\ rip' = [rip EXCEPT ![e] = [st |-> "queued", got |-> <<>>]]
  /\ Go(e, "await")

\* The top of either body, at first and after each await: the result of the raw read goes
\* to bioIn, where nothing means the end of the transmission; the raw write is done with,
\* and with it a _write that has nothing left; then pending records go out first.
Enter(e) ==
  /\ \/ At(e, "enter")
     \/ At(e, "await") /\ rip[e].st \notin {"queued", "waiting"}
                       /\ wip[e].st \notin {"queued", "waiting"}
  /\ LET read == rip[e].st = "completed"
         eot == read /\ rip[e].got = <<>>
         written == wip[e].st = "completed" /\ Writes(e) /\ wrb[e] = <<>>
     IN /\ rip' = [rip EXCEPT ![e] = Nothing]
        /\ bioIn' = [bioIn EXCEPT ![e] = @ \o rip[e].got]
        /\ CASE eot -> /\ IF Writes(e) THEN Fails(e) ELSE ReadReturns(e, resd[e])
                       /\ UNCHANGED <<wip, bioOut>>
             [] ~eot /\ written -> /\ WriteReturns(e)
                                   /\ wip' = [wip EXCEPT ![e] = Nothing]
                                   /\ UNCHANGED bioOut
             [] ~eot /\ ~written /\ bioOut[e] # <<>> -> YeetAlready(e) /\ OpUnchanged
             [] OTHER -> /\ wip' = [wip EXCEPT ![e] = Nothing]
                         /\ Go(e, "library")
                         /\ UNCHANGED bioOut /\ OpUnchanged
  /\ UNCHANGED <<ioiVars, resd, wrb, hs, rest, sent>>
------------------------------------------------------------------------------
\* The library takes a record: the flight it waits for, to which it may have to reply, a
\* ticket, or data, of which it hands out no more than fits.
LibraryTakes(e) ==
  /\ At(e, "library")
  /\ bioIn[e] # <<>> /\ rest[e] = <<>>
  /\ Writes(e) => ~Connected(e)
  /\ LET record == Head(bioIn[e])
         reply == IF record.kind # "flight" THEN <<>>
                  ELSE IF record.n < Flights THEN <<Flight(record.n + 1)>>
                  ELSE IF e # Client THEN <<Ticket>> ELSE <<>>
         seen == IF record.kind # "flight" THEN hs[e]
                 ELSE IF record.n < Flights THEN record.n + 1 ELSE Flights
     IN /\ hs' = [hs EXCEPT ![e] = seen]
        /\ bioOut' = [bioOut EXCEPT ![e] = @ \o reply]
        /\ rest' = [rest EXCEPT ![e] = IF record.kind = "data" THEN record.bytes ELSE <<>>]
        /\ bioIn' = [bioIn EXCEPT ![e] = Tail(@)]
  /\ UNCHANGED <<ioiVars, rip, wip, resd, wrb, pc, sent>> /\ OpUnchanged

\* SSL_read returns some bytes.  The body compares with `>`.
Enough(n, read) == n > 0 /\ Len(read) > n

\* Mutant: what was read by the call before is overwritten.
LibraryReadsAfresh(e) ==
  /\ At(e, "library")
  /\ ~Writes(e) /\ rest[e] # <<>>
  /\ LET r == Shorter(BufferSize, rest[e])
         read == Up(r, rest[e])
     IN /\ rest' = [rest EXCEPT ![e] = Past(r, @)]
        /\ resd' = [resd EXCEPT ![e] = read]
        /\ IF Enough(Request(Op(e), readbuff[e]), read) THEN ReadReturns(e, read)
           ELSE UNCHANGED pc /\ OpUnchanged
  /\ UNCHANGED <<ioiVars, rip, wip, wrb, hs, bioIn, bioOut, sent>>

LibraryReads(e) ==
  /\ At(e, "library")
  /\ ~Writes(e) /\ rest[e] # <<>>
  /\ LET r == Shorter(BufferSize, rest[e])
         read == resd[e] \o Up(r, rest[e])
     IN /\ rest' = [rest EXCEPT ![e] = Past(r, @)]
        /\ resd' = [resd EXCEPT ![e] = read]
        /\ IF Enough(Request(Op(e), readbuff[e]), read) THEN ReadReturns(e, read)
           ELSE UNCHANGED pc /\ OpUnchanged
  /\ UNCHANGED <<ioiVars, rip, wip, wrb, hs, bioIn, bioOut, sent>>

\* Mutant: the records stay in bioOut until something else is yeeted.
LibraryWritesOnly(e) ==
  /\ At(e, "library")
  /\ Writes(e) /\ Connected(e)
  /\ sent' = [sent EXCEPT ![e] = @ \o wrb[e]]
  /\ wrb' = [wrb EXCEPT ![e] = <<>>]
  /\ wip' = [wip EXCEPT ![e].st = "completed"]
  /\ bioOut' = [bioOut EXCEPT ![e] = @ \o <<Data(wrb[e])>>]
  /\ Go(e, "await")
  /\ UNCHANGED <<ioiVars, rip, resd, hs, bioIn, rest>> /\ OpUnchanged

\* SSL_write takes everything, once the handshake is over, and the records are yeeted.
LibraryWrites(e) ==
  /\ At(e, "library")
  /\ Writes(e) /\ Connected(e)
  /\ sent' = [sent EXCEPT ![e] = @ \o wrb[e]]
  /\ wrb' = [wrb EXCEPT ![e] = <<>>]
  /\ wip' = [wip EXCEPT ![e] = [st |-> "queued", got |-> bioOut[e] \o <<Data(wrb[e])>>]]
  /\ bioOut' = [bioOut EXCEPT ![e] = <<>>]
  /\ Go(e, "await")
  /\ UNCHANGED <<ioiVars, rip, resd, hs, bioIn, rest>> /\ OpUnchanged

\* Mutant: WANT_READ is taken by its word.
LibraryWantsRead(e) ==
  /\ At(e, "library")
  /\ bioIn[e] = <<>> /\ rest[e] = <<>>
  /\ Writes(e) => ~Connected(e)
  /\ ReadAlready(e)
  /\ UNCHANGED <<ioiVars, wip, bioOut, resd, wrb, hs, bioIn, rest, sent>> /\ OpUnchanged

\* SSL_ERROR_WANT_READ or _WRITE, whichever: out with what there is, or in with more.
LibraryWants(e) ==
  /\ At(e, "library")
  /\ bioIn[e] = <<>> /\ rest[e] = <<>>
  /\ Writes(e) => ~Connected(e)
  /\ IF bioOut[e] # <<>> THEN YeetAlready(e) /\ UNCHANGED rip
     ELSE ReadAlready(e) /\ UNCHANGED <<wip, bioOut>>
  /\ UNCHANGED <<ioiVars, resd, wrb, hs, bioIn, rest, sent>> /\ OpUnchanged
------------------------------------------------------------------------------
RawUnchanged == UNCHANGED <<resd, wrb, hs, bioIn, bioOut, rest, program, pc, readbuff,
                            sent, received>>

\* The body of the raw _read(1), at first and when its future has been completed.
RawRead(e) ==
  /\ rip[e].st = "queued" \/ (rip[e].st = "waiting" /\ fut[e] = "completed")
  /\ IF CanRead(e, 1)
     THEN /\ ReadNow(e)
          /\ rip' = [rip EXCEPT ![e] = [st |-> "completed", got |-> buff[e]]]
     ELSE /\ ReadAwaits(e)
          /\ rip' = [rip EXCEPT ![e].st = "waiting"]
  /\ RawUnchanged /\ UNCHANGED wip

RawWrite(e) ==
  /\ wip[e].st = "queued"
  /\ Write(e, wip[e].got)
  /\ wip' = [wip EXCEPT ![e].st = "completed"]
  /\ RawUnchanged /\ UNCHANGED rip

\* The program is over and drops its end.
Drop(e) ==
  /\ program[e] = <<>> /\ pc[e] = "begin"
  /\ Close(e)
  /\ Go(e, "ended")
  /\ UNCHANGED <<sslVars, program, readbuff, sent, received>>

Steps(e) ==
  \/ Begin(e) \/ Enter(e)
  \/ LibraryTakes(e) \/ LibraryReads(e) \/ LibraryWrites(e) \/ LibraryWants(e)
  \/ RawRead(e) \/ RawWrite(e)
  \/ Drop(e)

Next == \E e \in Ends : Steps(e)

SafeSpec == Init /\ [][Next]_vars

\* The worker runs whatever can run.
Spec == SafeSpec /\ \A e \in Ends : WF_vars(Steps(e))
------------------------------------------------------------------------------
Payload(record) == IF record.kind = "data" THEN record.bytes ELSE <<>>
Bytes(records) == FlattenSeq([i \in DOMAIN records |-> Payload(records[i])])

\* What end e has taken out of the TLS stream: results, buffer, and what its _read holds.
Taken(e) ==
  received[e] \o readbuff[e]
  \o (IF program[e] # <<>> /\ ~Writes(e) /\ pc[e] # "begin" THEN resd[e] ELSE <<>>)

\* What is on its way to end e: inside its library, in a raw read, the channel, a raw
\* write of the other end, and the other end's library.
OnItsWay(e) ==
  rest[e] \o Bytes(bioIn[e] \o rip[e].got \o buff[e]
                   \o (IF wip[1 - e].st = "queued" THEN wip[1 - e].got ELSE <<>>)
                   \o bioOut[1 - e])

\* Whatever is sent is received, once and in order, or still on its way: no await, retry
\* of the library or merge of two buffers loses or repeats a byte (iores.cpp:66-86).
SentIsReceived == \A e \in Ends : Taken(e) \o OnItsWay(e) = sent[1 - e]

Ended(e) == program[e] # <<>> /\ program'[e] = Tail(program[e])

\* A _write that has ended has left nothing behind: everything it was given is in the
\* raw channel and not in the library (iores.cpp:170-177).
WrittenIsOut ==
  [][\A e \in Ends : Ended(e) /\ Writes(e) /\ wrb[e] = <<>> =>
       Bytes(bioOut'[e]) = <<>> /\ wip'[e].st # "queued"]_vars

\* A read until the end of data ends with all that the other end has sent, the records that
\* arrived together with the end of the transmission included (iores.cpp:78, iompls.cpp:48).
EndIsTheEnd ==
  [][\A e \in Ends : Ended(e) /\ Op(e).kind = "toend" => received'[e] = sent[1 - e]]_vars

\* "Reads _at least_ the number of bytes requested" (io.hpp:102): a read of n bytes that has
\* them ends.
HasItAll(e) ==
  /\ program[e] # <<>> /\ Op(e).kind = "upto" /\ pc[e] = "await"
  /\ Len(readbuff[e] \o resd[e]) >= Op(e).n
ReadsAtLeast == \A e \in Ends : HasItAll(e) ~> ~HasItAll(e)

\* The exchanges of test/sslhandshake.cpp end: no end waits for a flight, for data or for
\* a write the other end does not make, whoever is the client.
ExchangeCompletes == <>(\A e \in Ends : pc[e] = "ended")
==============================================================================
