-------------------------- MODULE SSLResource_proofs ---------------------------
(***************************************************************************)
(* Proofs about SSLResource, for every pair of programs, number of flights *)
(* and size of the buffer: between the two ends no byte is lost, repeated  *)
(* or put out of order.                                                    *)
(***************************************************************************)
EXTENDS SSLResource, SequenceFacts

Record == [kind : {"flight"}, n : 1 .. Flights] \cup {Ticket}
          \cup [kind : {"data"}, bytes : Seq(Byte)]
Raw == [st : {"none", "queued", "waiting", "completed"}, got : Seq(Record)]

TypeOK ==
  /\ buff \in [Ends -> Seq(Record)]
  /\ exi \in [Ends -> BOOLEAN] /\ notifi \in [Ends -> BOOLEAN]
  /\ fut \in [Ends -> {"none", "running", "completed"}]
  /\ program \in [Ends -> Seq(Operation)]
  /\ pc \in [Ends -> {"begin", "enter", "library", "await", "ended"}]
  /\ rip \in [Ends -> Raw] /\ wip \in [Ends -> Raw]
  /\ resd \in [Ends -> Seq(Byte)] /\ wrb \in [Ends -> Seq(Byte)]
  /\ readbuff \in [Ends -> Seq(Byte)]
  /\ hs \in [Ends -> 0 .. Flights]
  /\ bioIn \in [Ends -> Seq(Record)] /\ bioOut \in [Ends -> Seq(Record)]
  /\ rest \in [Ends -> Seq(Byte)]
  /\ sent \in [Ends -> Seq(Byte)] /\ received \in [Ends -> Seq(Byte)]
------------------------------------------------------------------------------
\* What a sequence of records carries.
LEMMA PayloadsType ==
  ASSUME NEW rs \in Seq(Record)
  PROVE  /\ [i \in DOMAIN rs |-> Payload(rs[i])] \in Seq(Seq(Byte))
         /\ Bytes(rs) \in Seq(Byte)
<1> DEFINE ps == [i \in DOMAIN rs |-> Payload(rs[i])]
<1>1. \A r \in Record : Payload(r) \in Seq(Byte)
  BY DEF Payload, Record, Ticket
<1>2. ps \in Seq(Seq(Byte))
  <2>1. \A i \in 1 .. Len(rs) : Payload(rs[i]) \in Seq(Byte)
    BY <1>1
  <2> QED BY <2>1
<1>3. FlattenSeq(ps) \in Seq(Byte)
  BY <1>2, FlattenType
<1> QED BY <1>2, <1>3 DEF Bytes

LEMMA BytesConcat ==
  ASSUME NEW rs \in Seq(Record), NEW qs \in Seq(Record)
  PROVE  Bytes(rs \o qs) = Bytes(rs) \o Bytes(qs)
<1> DEFINE P(s) == [i \in DOMAIN s |-> Payload(s[i])]
<1>1. P(rs \o qs) = P(rs) \o P(qs)
  <2>1. P(rs) \in Seq(Seq(Byte)) /\ P(qs) \in Seq(Seq(Byte)) /\ P(rs \o qs) \in Seq(Seq(Byte))
    <3>1. rs \o qs \in Seq(Record)
      OBVIOUS
    <3> QED BY <3>1, PayloadsType
  <2>2. /\ Len(P(rs \o qs)) = Len(rs) + Len(qs) /\ Len(P(rs)) = Len(rs) /\ Len(P(qs)) = Len(qs)
        /\ Len(rs) \in Nat /\ Len(qs) \in Nat
    OBVIOUS
  <2>3. ASSUME NEW i \in 1 .. Len(rs) + Len(qs)
        PROVE  P(rs \o qs)[i] = IF i <= Len(rs) THEN P(rs)[i] ELSE P(qs)[i - Len(rs)]
    <3>1. P(rs \o qs)[i] = Payload((rs \o qs)[i])
      OBVIOUS
    <3>2. CASE i <= Len(rs)
      <4>1. (rs \o qs)[i] = rs[i] /\ P(rs)[i] = Payload(rs[i])
        BY <3>2
      <4> HIDE DEF P
      <4> QED BY <3>1, <3>2, <4>1
    <3>3. CASE ~(i <= Len(rs))
      <4>1. (rs \o qs)[i] = qs[i - Len(rs)] /\ P(qs)[i - Len(rs)] = Payload(qs[i - Len(rs)])
        BY <3>3
      <4> HIDE DEF P
      <4> QED BY <3>1, <3>3, <4>1
    <3> HIDE DEF P
    <3> QED BY <3>2, <3>3
  <2> HIDE DEF P
  <2>4. /\ P(rs) \o P(qs) \in Seq(Seq(Byte)) /\ Len(P(rs) \o P(qs)) = Len(rs) + Len(qs)
        /\ \A i \in 1 .. Len(rs) + Len(qs) :
             (P(rs) \o P(qs))[i] = IF i <= Len(rs) THEN P(rs)[i] ELSE P(qs)[i - Len(rs)]
    BY <2>1, <2>2, ConcatProperties
  <2> QED BY <2>1, <2>2, <2>3, <2>4, SeqEqual
<1>2. FlattenSeq(P(rs) \o P(qs)) = FlattenSeq(P(rs)) \o FlattenSeq(P(qs))
  <2>1. P(rs) \in Seq(Seq(Byte)) /\ P(qs) \in Seq(Seq(Byte))
    BY PayloadsType
  <2> HIDE DEF P
  <2> QED BY <2>1, FlattenConcat
<1> QED BY <1>1, <1>2 DEF Bytes

LEMMA BytesEmpty == Bytes(<<>>) = <<>>
<1>1. [i \in DOMAIN <<>> |-> Payload((<<>>)[i])] = <<>>
  OBVIOUS
<1> QED BY <1>1, FlattenEmpty DEF Bytes

LEMMA BytesOne ==
  ASSUME NEW r \in Record
  PROVE  Bytes(<<r>>) = Payload(r) /\ Payload(r) \in Seq(Byte)
<1>1. Payload(r) \in Seq(Byte)
  BY DEF Payload, Record, Ticket
<1>2. [i \in DOMAIN <<r>> |-> Payload((<<r>>)[i])] = Append(<<>>, Payload(r))
  OBVIOUS
<1>3. <<>> \in Seq(Seq(Byte)) /\ <<>> \o Payload(r) = Payload(r)
  BY <1>1
<1>4. FlattenSeq(Append(<<>>, Payload(r))) = FlattenSeq(<<>>) \o Payload(r)
  BY <1>1, <1>3, FlattenAppend
<1> QED BY <1>1, <1>2, <1>3, <1>4, FlattenEmpty DEF Bytes

LEMMA BytesHead ==
  ASSUME NEW rs \in Seq(Record), rs # <<>>
  PROVE  Bytes(rs) = Payload(Head(rs)) \o Bytes(Tail(rs))
<1>1. /\ Head(rs) \in Record /\ Tail(rs) \in Seq(Record)
      /\ rs = <<Head(rs)>> \o Tail(rs) /\ <<Head(rs)>> \in Seq(Record)
  OBVIOUS
<1>2. Bytes(<<Head(rs)>> \o Tail(rs)) = Bytes(<<Head(rs)>>) \o Bytes(Tail(rs))
  BY <1>1, BytesConcat
<1> QED BY <1>1, <1>2, BytesOne
------------------------------------------------------------------------------
Reading == {q \in Operation : q.kind # "write"}

LEMMA PatternEndType ==
  ASSUME NEW p \in Seq(Byte), NEW b \in Seq(Byte)
  PROVE  PatternEnd(p, b) \in 0 .. Len(b)
<1> DEFINE T == Occurrences(p, b)
<1>1. T \in SUBSET Nat /\ T \subseteq 0 .. Len(b)
  BY DEF Occurrences
<1>2. T # {} => Min(T) \in T
  <2>1. T # {} => \E m \in T : \A n \in T : ~(n < m)
    <3> HIDE DEF T
    <3> QED BY <1>1, LeastElement
  <2>2. T # {} => \E m \in T : \A n \in T : m <= n
    <3> HIDE DEF T
    <3> QED BY <1>1, <2>1
  <2> HIDE DEF T
  <2> QED BY <2>2 DEF Min
<1>3. T = {} => PatternEnd(p, b) = 0
  BY DEF PatternEnd
<1>4. T # {} => PatternEnd(p, b) = Min(T)
  BY DEF PatternEnd
<1>5. Len(b) \in Nat /\ 0 \in 0 .. Len(b)
  OBVIOUS
<1>6. CASE T = {}
  BY <1>3, <1>5, <1>6, Zenon
<1>7. CASE T # {}
  BY <1>1, <1>2, <1>4, <1>7, Zenon
<1> QED BY <1>6, <1>7, Zenon

LEMMA SplitAt ==
  ASSUME NEW V, NEW s \in Seq(V), NEW n \in 0 .. Len(s)
  PROVE  Up(n, s) \in Seq(V) /\ Past(n, s) \in Seq(V) /\ Up(n, s) \o Past(n, s) = s
<1>1. Len(s) \in Nat /\ n \in Nat /\ n <= Len(s)
  OBVIOUS
<1>2. 1 \in 1 .. Len(s) + 1 /\ n \in 1 - 1 .. Len(s) /\ Len(s) \in n .. Len(s)
  BY <1>1
<1>3. SubSeq(s, 1, n) \o SubSeq(s, n + 1, Len(s)) = SubSeq(s, 1, Len(s))
  BY <1>2, ConcatAdjacentSubSeq
<1>4. SubSeq(s, 1, Len(s)) = s
  BY SubSeqFull
<1>5. SubSeq(s, 1, n) \in Seq(V) /\ SubSeq(s, n + 1, Len(s)) \in Seq(V)
  BY <1>1
<1> QED BY <1>3, <1>4, <1>5 DEF Up, Past

\* What is divided between result and buffer is what was there and what was read.
LEMMA OutcomeKeeps ==
  ASSUME NEW q \in Reading, NEW b \in Seq(Byte), NEW rd \in Seq(Byte)
  PROVE  LET o == Outcome(q, b, rd)
         IN /\ o.ok \in BOOLEAN /\ o.left \in Seq(Byte) /\ o.result \in Seq(Byte)
            /\ IF o.ok /\ q.kind # "peek" THEN o.result \o o.left = b \o rd
                                          ELSE o.left = b \o rd
<1> DEFINE all == b \o rd
           end == CASE q.kind = "toend" -> Len(all)
                    [] q.kind \in {"upto", "peek"} -> Shorter(q.n, all)
                    [] q.kind = "pattern" -> PatternEnd(q.p, all)
<1>1. all \in Seq(Byte) /\ Len(all) \in Nat
  OBVIOUS
<1>2. \/ q.kind = "toend"
      \/ q.kind \in {"upto", "peek"} /\ q.n \in Nat
      \/ q.kind = "pattern" /\ q.p \in Seq(Byte)
  BY DEF Reading, Operation
<1>3. end \in 0 .. Len(all)
  <2>1. CASE q.kind = "toend"
    BY <1>1, <2>1
  <2>2. CASE q.kind \in {"upto", "peek"}
    BY <1>1, <1>2, <2>2 DEF Shorter
  <2>3. CASE q.kind = "pattern"
    <3>1. PatternEnd(q.p, all) \in 0 .. Len(all)
      <4> HIDE DEF all
      <4> QED BY <1>1, <1>2, <2>3, PatternEndType
    <3> QED BY <2>3, <3>1
  <2> QED BY <1>2, <2>1, <2>2, <2>3
<1>4. Outcome(q, b, rd)
        = [ok |-> q.kind # "pattern" \/ end # 0,
           result |-> Up(end, all),
           left |-> IF q.kind = "peek" \/ ~(q.kind # "pattern" \/ end # 0)
                    THEN all ELSE Past(end, all)]
  BY DEF Outcome
<1> HIDE DEF end, all
<1>5. Up(end, all) \in Seq(Byte) /\ Past(end, all) \in Seq(Byte)
      /\ Up(end, all) \o Past(end, all) = all
  BY <1>1, <1>3, SplitAt
<1> DEFINE o == Outcome(q, b, rd)
<1>6. /\ o.ok = (q.kind # "pattern" \/ end # 0)
      /\ o.result = Up(end, all)
      /\ o.left = IF q.kind = "peek" \/ ~(q.kind # "pattern" \/ end # 0)
                 THEN all ELSE Past(end, all)
  BY <1>4
<1> HIDE DEF o
<1>7. o.ok \in BOOLEAN /\ o.left \in Seq(Byte) /\ o.result \in Seq(Byte)
  BY <1>1, <1>5, <1>6
<1>8. IF o.ok /\ q.kind # "peek" THEN o.result \o o.left = all ELSE o.left = all
  BY <1>5, <1>6
<1> QED BY <1>7, <1>8 DEF all, o
------------------------------------------------------------------------------
\* A raw read or write is under way only while the body awaits it; a read has something
\* only when it is over; a write never waits.
RawAt(x) ==
  /\ pc[x] # "await" => rip[x] = Nothing /\ wip[x].st \in {"none", "completed"}
  /\ rip[x].st # "completed" => rip[x].got = <<>>
  /\ wip[x].st # "waiting"
RawInv == \A x \in Ends : RawAt(x)

\* Data does not stay in bioOut: SSL_write takes it all and it goes out at once.
NoData == \A x \in Ends : Bytes(bioOut[x]) = <<>>

\* The bytes between SSL_write at the other end and the results at end x, place by place.
Outgoing(x) == IF wip[x].st = "queued" THEN wip[x].got ELSE <<>>
Join(s, t) == s \o t
Chain(a, b, c, d, f, g) == Join(Join(Join(Join(Join(a, b), c), d), f), g)
Flow(x) ==
  Chain(Taken(x), rest[x], Bytes(bioIn[x]), Bytes(rip[x].got), Bytes(buff[x]),
        Bytes(Outgoing(1 - x)))
    = sent[1 - x]
FlowInv == \A x \in Ends : Flow(x)

\* The end of the transmission: while a raw read is under way nothing is left in the
\* library, and a raw read returns nothing only when the other end is gone.
EndAt(x) ==
  /\ rip[x].st # "none" => bioIn[x] = <<>> /\ rest[x] = <<>>
  /\ exi[x] = (pc[1 - x] # "ended")
  /\ pc[x] = "ended" => program[x] = <<>>
  /\ rip[x].st = "completed" /\ rip[x].got = <<>> => ~exi[x] /\ buff[x] = <<>>
EndInv == \A x \in Ends : EndAt(x)
------------------------------------------------------------------------------
\* Both ends have a counterpart.
LEMMA TheOther ==
  ASSUME NEW x \in Ends
  PROVE  /\ 1 - x \in Ends /\ 1 - x # x /\ 1 - (1 - x) = x
         /\ \A y \in Ends : y = x \/ y = 1 - x
BY DEF Ends

LEMMA OpType ==
  ASSUME TypeOK, NEW e \in Ends, program[e] # <<>>
  PROVE  /\ Op(e) \in Operation /\ Tail(program[e]) \in Seq(Operation)
         /\ ~Writes(e) => Op(e) \in Reading
         /\ Writes(e) => Op(e).data \in Seq(Byte)
<1>1. program[e] \in Seq(Operation)
  BY DEF TypeOK
<1>2. Head(program[e]) \in Operation /\ Tail(program[e]) \in Seq(Operation)
  BY <1>1
<1>3. \A q \in Operation : q.kind = "write" => q.data \in Seq(Byte)
  BY DEF Operation
<1> QED BY <1>2, <1>3 DEF Op, Writes, Reading

\* An operation's end, its failure and its return keep the types.
OpVars == <<program, pc, readbuff, received>>
OpTypeOK ==
  /\ program \in [Ends -> Seq(Operation)]
  /\ pc \in [Ends -> {"begin", "enter", "library", "await", "ended"}]
  /\ readbuff \in [Ends -> Seq(Byte)] /\ received \in [Ends -> Seq(Byte)]

LEMMA GoType ==
  ASSUME TypeOK, NEW e \in Ends,
         NEW place \in {"begin", "enter", "library", "await", "ended"}, Go(e, place)
  PROVE  pc' \in [Ends -> {"begin", "enter", "library", "await", "ended"}]
BY DEF TypeOK, Go

LEMMA ReadEndsType ==
  ASSUME TypeOK, NEW e \in Ends, program[e] # <<>>, ~Writes(e), NEW rd \in Seq(Byte),
         ReadEnds(e, rd)
  PROVE  OpTypeOK'
<1> DEFINE o == Outcome(Op(e), readbuff[e], rd)
<1>1. /\ readbuff[e] \in Seq(Byte) /\ received[e] \in Seq(Byte)
      /\ readbuff \in [Ends -> Seq(Byte)] /\ received \in [Ends -> Seq(Byte)]
      /\ program \in [Ends -> Seq(Operation)]
  BY DEF TypeOK
<1>2. o.left \in Seq(Byte) /\ o.result \in Seq(Byte)
  BY <1>1, OpType, OutcomeKeeps
<1>3. /\ Next1(e) /\ Go(e, "begin")
      /\ readbuff' = [readbuff EXCEPT ![e] = o.left]
      /\ received' = [received EXCEPT
           ![e] = IF o.ok /\ Op(e).kind # "peek" THEN @ \o o.result ELSE @]
  BY DEF ReadEnds
<1> HIDE DEF o
<1>4. readbuff' \in [Ends -> Seq(Byte)]
  BY <1>1, <1>2, <1>3
<1>5. received[e] \o o.result \in Seq(Byte)
  BY <1>1, <1>2
<1>6. received' \in [Ends -> Seq(Byte)]
  BY <1>1, <1>3, <1>5
<1>7. program' \in [Ends -> Seq(Operation)]
  BY <1>1, <1>3, OpType DEF Next1
<1> QED BY <1>3, <1>4, <1>6, <1>7, GoType DEF OpTypeOK

LEMMA ReadReturnsType ==
  ASSUME TypeOK, NEW e \in Ends, program[e] # <<>>, ~Writes(e), NEW rd \in Seq(Byte),
         ReadReturns(e, rd)
  PROVE  OpTypeOK'
<1>1. CASE Satisfied(Op(e), readbuff[e], rd)
  BY <1>1, ReadEndsType DEF ReadReturns
<1>2. CASE ~Satisfied(Op(e), readbuff[e], rd)
  <2>1. /\ Go(e, "begin") /\ readbuff' = [readbuff EXCEPT ![e] = @ \o rd]
        /\ UNCHANGED <<program, received>>
    BY <1>2 DEF ReadReturns
  <2>2. readbuff[e] \o rd \in Seq(Byte)
    BY DEF TypeOK
  <2>3. readbuff' \in [Ends -> Seq(Byte)]
    BY <2>1, <2>2 DEF TypeOK
  <2> QED BY <2>1, <2>3, GoType DEF TypeOK, OpTypeOK
<1> QED BY <1>1, <1>2

LEMMA WriteReturnsType ==
  ASSUME TypeOK, NEW e \in Ends, program[e] # <<>>, WriteReturns(e) \/ Fails(e)
  PROVE  OpTypeOK'
<1>1. Next1(e) /\ Go(e, "begin") /\ UNCHANGED <<readbuff, received>>
  BY DEF WriteReturns, Fails
<1>2. program' \in [Ends -> Seq(Operation)]
  BY <1>1, OpType DEF Next1, TypeOK
<1> QED BY <1>1, <1>2, GoType DEF OpTypeOK, TypeOK

\* The rest of the types.
RestTypeOK ==
  /\ buff \in [Ends -> Seq(Record)]
  /\ exi \in [Ends -> BOOLEAN] /\ notifi \in [Ends -> BOOLEAN]
  /\ fut \in [Ends -> {"none", "running", "completed"}]
  /\ rip \in [Ends -> Raw] /\ wip \in [Ends -> Raw]
  /\ resd \in [Ends -> Seq(Byte)] /\ wrb \in [Ends -> Seq(Byte)]
  /\ hs \in [Ends -> 0 .. Flights]
  /\ bioIn \in [Ends -> Seq(Record)] /\ bioOut \in [Ends -> Seq(Record)]
  /\ rest \in [Ends -> Seq(Byte)]
  /\ sent \in [Ends -> Seq(Byte)]

LEMMA TypeParts == OpTypeOK' /\ RestTypeOK' => TypeOK'
BY DEF TypeOK, OpTypeOK, RestTypeOK

LEMMA Raws ==
  /\ Nothing \in Raw
  /\ \A r \in Seq(Record) : /\ [st |-> "queued", got |-> r] \in Raw
                            /\ [st |-> "completed", got |-> r] \in Raw
  /\ \A r \in Raw : r.got \in Seq(Record)
                    /\ r.st \in {"none", "queued", "waiting", "completed"}
  /\ \A r \in Raw : /\ [r EXCEPT !.st = "waiting"] = [st |-> "waiting", got |-> r.got]
                    /\ [r EXCEPT !.st = "completed"] = [st |-> "completed", got |-> r.got]
BY DEF Raw, Nothing

LEMMA TypeInit == Init => TypeOK
<1> SUFFICES ASSUME Init PROVE TypeOK
  OBVIOUS
<1>1. program \in [Ends -> Seq(Operation)]
  BY SSLAssumption DEF Init
<1>2. <<>> \in Seq(Byte) /\ <<>> \in Seq(Record) /\ Nothing \in Raw
  BY Raws
<1>3. 1 \in 0 .. Flights /\ 0 \in 0 .. Flights
  BY SSLAssumption
<1>4. <<Flight(1)>> \in Seq(Record)
  <2>1. Flight(1) \in Record
    BY SSLAssumption DEF Flight, Record
  <2> QED BY <2>1
<1> QED BY <1>1, <1>2, <1>3, <1>4 DEF Init, IOIInit, Each, TypeOK

LEMMA TypeBegin ==
  ASSUME TypeOK, NEW e \in Ends, Begin(e)
  PROVE  TypeOK'
<1>1. program[e] # <<>> /\ UNCHANGED <<ioiVars, rip, wip, hs, bioIn, bioOut, rest, sent>>
  BY DEF Begin, At
<1>2. <<>> \in Seq(Byte)
  OBVIOUS
<1>3. CASE ~Writes(e) /\ Buffered(Op(e), readbuff[e])
  <2>1. ReadEnds(e, <<>>) /\ UNCHANGED <<resd, wrb>>
    BY <1>3 DEF Begin
  <2>2. OpTypeOK'
    BY <1>1, <1>2, <1>3, <2>1, ReadEndsType
  <2>3. RestTypeOK'
    BY <1>1, <2>1 DEF TypeOK, RestTypeOK, ioiVars
  <2> QED BY <2>2, <2>3, TypeParts
<1>4. CASE ~(~Writes(e) /\ Buffered(Op(e), readbuff[e]))
  <2>1. /\ Go(e, "enter") /\ OpUnchanged
        /\ resd' = [resd EXCEPT ![e] = <<>>]
        /\ wrb' = [wrb EXCEPT ![e] = IF Writes(e) THEN Op(e).data ELSE <<>>]
    BY <1>4 DEF Begin
  <2>2. (IF Writes(e) THEN Op(e).data ELSE <<>>) \in Seq(Byte)
    BY <1>1, <1>2, OpType
  <2>3. OpTypeOK'
    BY <2>1, GoType DEF OpTypeOK, TypeOK, OpUnchanged
  <2>4. wrb' \in [Ends -> Seq(Byte)] /\ resd' \in [Ends -> Seq(Byte)]
    BY <1>2, <2>1, <2>2 DEF TypeOK
  <2>5. RestTypeOK'
    BY <1>1, <2>4 DEF TypeOK, RestTypeOK, ioiVars
  <2> QED BY <2>3, <2>5, TypeParts
<1> QED BY <1>3, <1>4

\* The alternatives of Enter.
Eot(e) == rip[e].st = "completed" /\ rip[e].got = <<>>
Written(e) == wip[e].st = "completed" /\ Writes(e) /\ wrb[e] = <<>>
LEMMA EnterCases ==
  ASSUME NEW e \in Ends, Enter(e)
  PROVE  /\ program[e] # <<>>
         /\ \/ pc[e] = "enter"
            \/ pc[e] = "await" /\ wip[e].st \notin {"queued", "waiting"}
                               /\ rip[e].st \notin {"queued", "waiting"}
         /\ rip' = [rip EXCEPT ![e] = Nothing]
         /\ bioIn' = [bioIn EXCEPT ![e] = @ \o rip[e].got]
         /\ UNCHANGED <<ioiVars, resd, wrb, hs, rest, sent>>
         /\ \/ Eot(e) /\ Writes(e) /\ Fails(e) /\ UNCHANGED <<wip, bioOut>>
            \/ Eot(e) /\ ~Writes(e) /\ ReadReturns(e, resd[e]) /\ UNCHANGED <<wip, bioOut>>
            \/ Written(e) /\ WriteReturns(e) /\ wip' = [wip EXCEPT ![e] = Nothing]
                 /\ UNCHANGED bioOut
            \/ YeetAlready(e) /\ OpUnchanged
            \/ /\ wip' = [wip EXCEPT ![e] = Nothing] /\ Go(e, "library")
               /\ UNCHANGED bioOut /\ OpUnchanged
<1>1. /\ program[e] # <<>>
      /\ \/ pc[e] = "enter"
         \/ pc[e] = "await" /\ wip[e].st \notin {"queued", "waiting"}
                            /\ rip[e].st \notin {"queued", "waiting"}
      /\ UNCHANGED <<ioiVars, resd, wrb, hs, rest, sent>>
  BY DEF Enter, At
<1>2. /\ rip' = [rip EXCEPT ![e] = Nothing]
      /\ bioIn' = [bioIn EXCEPT ![e] = @ \o rip[e].got]
  BY DEF Enter
<1>3. CASE Eot(e)
  BY <1>1, <1>2, <1>3 DEF Enter, Eot
<1>4. CASE ~Eot(e) /\ Written(e)
  BY <1>1, <1>2, <1>4 DEF Enter, Eot, Written
<1>5. CASE ~Eot(e) /\ ~Written(e) /\ bioOut[e] # <<>>
  BY <1>1, <1>2, <1>5 DEF Enter, Eot, Written
<1>6. CASE ~Eot(e) /\ ~Written(e) /\ bioOut[e] = <<>>
  BY <1>1, <1>2, <1>6 DEF Enter, Eot, Written
<1> QED BY <1>3, <1>4, <1>5, <1>6

LEMMA YeetType ==
  ASSUME TypeOK, NEW e \in Ends, YeetAlready(e)
  PROVE  /\ wip' \in [Ends -> Raw] /\ bioOut' \in [Ends -> Seq(Record)]
         /\ pc' \in [Ends -> {"begin", "enter", "library", "await", "ended"}]
<1>1. [st |-> "queued", got |-> bioOut[e]] \in Raw /\ <<>> \in Seq(Record)
  <2>1. bioOut[e] \in Seq(Record)
    BY DEF TypeOK
  <2> QED BY <2>1 DEF Raw
<1>2. /\ wip' = [wip EXCEPT ![e] = [st |-> "queued", got |-> bioOut[e]]]
      /\ bioOut' = [bioOut EXCEPT ![e] = <<>>] /\ Go(e, "await")
  BY DEF YeetAlready
<1> DEFINE r == [st |-> "queued", got |-> bioOut[e]]
<1> HIDE DEF r
<1>3. wip' \in [Ends -> Raw]
  BY <1>1, <1>2 DEF TypeOK, r
<1>4. bioOut' \in [Ends -> Seq(Record)]
  BY <1>1, <1>2 DEF TypeOK
<1> QED BY <1>2, <1>3, <1>4, GoType

LEMMA TypeEnter ==
  ASSUME TypeOK, NEW e \in Ends, Enter(e)
  PROVE  TypeOK'
<1>1. rip[e].got \in Seq(Record) /\ bioIn[e] \in Seq(Record) /\ resd[e] \in Seq(Byte)
  BY Raws DEF TypeOK
<1>2. bioIn[e] \o rip[e].got \in Seq(Record)
  BY <1>1
<1>3. rip' \in [Ends -> Raw] /\ bioIn' \in [Ends -> Seq(Record)]
  <2>1. rip' = [rip EXCEPT ![e] = Nothing] /\ Nothing \in Raw /\ rip \in [Ends -> Raw]
    BY EnterCases, Raws DEF TypeOK
  <2>2. /\ bioIn' = [bioIn EXCEPT ![e] = bioIn[e] \o rip[e].got]
        /\ bioIn \in [Ends -> Seq(Record)]
    BY EnterCases DEF TypeOK
  <2>3. rip' \in [Ends -> Raw]
    BY <2>1
  <2>4. bioIn' \in [Ends -> Seq(Record)]
    BY <1>2, <2>2
  <2> QED BY <2>3, <2>4
<1>4. wip' \in [Ends -> Raw] /\ bioOut' \in [Ends -> Seq(Record)]
  <2>1. wip \in [Ends -> Raw] /\ bioOut \in [Ends -> Seq(Record)] /\ Nothing \in Raw
    BY Raws DEF TypeOK
  <2>2. \/ UNCHANGED <<wip, bioOut>> \/ YeetAlready(e)
        \/ wip' = [wip EXCEPT ![e] = Nothing] /\ UNCHANGED bioOut
    BY EnterCases
  <2> QED BY <2>1, <2>2, YeetType
<1>5. OpTypeOK'
  <2>1. CASE Fails(e) \/ WriteReturns(e)
    BY <2>1, EnterCases, WriteReturnsType
  <2>2. CASE ~Writes(e) /\ ReadReturns(e, resd[e])
    BY <1>1, <2>2, EnterCases, ReadReturnsType
  <2>3. CASE YeetAlready(e) /\ OpUnchanged
    BY <2>3, YeetType DEF OpUnchanged, OpTypeOK, TypeOK
  <2>4. CASE Go(e, "library") /\ OpUnchanged
    BY <2>4, GoType DEF OpUnchanged, OpTypeOK, TypeOK
  <2> QED BY <2>1, <2>2, <2>3, <2>4, EnterCases
<1>6. RestTypeOK'
  BY <1>3, <1>4, EnterCases DEF TypeOK, RestTypeOK, ioiVars
<1> QED BY <1>5, <1>6, TypeParts

LEMMA TypeLibraryTakes ==
  ASSUME TypeOK, NEW e \in Ends, LibraryTakes(e)
  PROVE  TypeOK'
<1> DEFINE record == Head(bioIn[e])
           reply == IF record.kind # "flight" THEN <<>>
                    ELSE IF record.n < Flights THEN <<Flight(record.n + 1)>>
                    ELSE IF e # Client THEN <<Ticket>> ELSE <<>>
           seen == IF record.kind # "flight" THEN hs[e]
                   ELSE IF record.n < Flights THEN record.n + 1 ELSE Flights
           left == IF record.kind = "data" THEN record.bytes ELSE <<>>
<1>1. /\ bioIn[e] # <<>>
      /\ hs' = [hs EXCEPT ![e] = seen]
      /\ bioOut' = [bioOut EXCEPT ![e] = bioOut[e] \o reply]
      /\ rest' = [rest EXCEPT ![e] = left]
      /\ bioIn' = [bioIn EXCEPT ![e] = Tail(bioIn[e])]
      /\ UNCHANGED <<ioiVars, rip, wip, resd, wrb, pc, sent>> /\ OpUnchanged
  BY DEF LibraryTakes
<1>2. bioIn[e] \in Seq(Record) /\ bioOut[e] \in Seq(Record) /\ hs[e] \in 0 .. Flights
  BY DEF TypeOK
<1>3. record \in Record /\ Tail(bioIn[e]) \in Seq(Record)
  BY <1>1, <1>2
<1>4. /\ record.kind = "flight" => record.n \in 1 .. Flights
      /\ record.kind = "data" => record.bytes \in Seq(Byte)
  <2> HIDE DEF record
  <2> QED BY <1>3 DEF Record, Ticket
<1>5. seen \in 0 .. Flights
  <2> HIDE DEF record
  <2> QED BY <1>2, <1>4, SSLAssumption
<1>6. left \in Seq(Byte)
  BY <1>4
<1>7. bioOut[e] \o reply \in Seq(Record)
  <2>1. \A n \in 1 .. Flights : Flight(n) \in Record
    BY DEF Flight, Record
  <2>2. Ticket \in Record
    BY DEF Record
  <2>3. record.kind = "flight" /\ record.n < Flights => Flight(record.n + 1) \in Record
    <3> HIDE DEF record
    <3> QED BY <1>4, <2>1, SSLAssumption
  <2>4. <<>> \in Seq(Record) /\ \A r \in Record : <<r>> \in Seq(Record)
    OBVIOUS
  <2>5. reply \in Seq(Record)
    BY <2>2, <2>3, <2>4
  <2> HIDE DEF reply
  <2> QED BY <1>2, <2>5
<1> HIDE DEF record, reply, seen, left
<1>8. /\ hs' \in [Ends -> 0 .. Flights] /\ bioOut' \in [Ends -> Seq(Record)]
      /\ rest' \in [Ends -> Seq(Byte)] /\ bioIn' \in [Ends -> Seq(Record)]
  BY <1>1, <1>3, <1>5, <1>6, <1>7 DEF TypeOK
<1> QED BY <1>1, <1>8 DEF TypeOK, ioiVars, OpUnchanged

\* A call of SSL_read: how the step divides the part of the record.
LEMMA LibraryReadsCases ==
  ASSUME TypeOK, NEW e \in Ends, LibraryReads(e)
  PROVE  \E piece \in Seq(Byte), left \in Seq(Byte) :
           /\ piece \o left = rest[e] /\ resd[e] \o piece \in Seq(Byte)
           /\ program[e] # <<>> /\ pc[e] = "library" /\ ~Writes(e)
           /\ rest' = [rest EXCEPT ![e] = left]
           /\ resd' = [resd EXCEPT ![e] = resd[e] \o piece]
           /\ \/ /\ Enough(Request(Op(e), readbuff[e]), resd[e] \o piece)
                 /\ ReadReturns(e, resd[e] \o piece)
              \/ UNCHANGED pc /\ OpUnchanged
           /\ UNCHANGED <<ioiVars, rip, wip, wrb, hs, bioIn, bioOut, sent>>
<1> DEFINE r == Shorter(BufferSize, rest[e])
<1>1. rest[e] \in Seq(Byte) /\ resd[e] \in Seq(Byte)
  BY DEF TypeOK
<1>2. r \in 0 .. Len(rest[e])
  BY <1>1, SSLAssumption DEF Shorter
<1>3. /\ Up(r, rest[e]) \in Seq(Byte) /\ Past(r, rest[e]) \in Seq(Byte)
      /\ Up(r, rest[e]) \o Past(r, rest[e]) = rest[e]
  <2> HIDE DEF r
  <2> QED BY <1>1, <1>2, SplitAt
<1>4. resd[e] \o Up(r, rest[e]) \in Seq(Byte)
  BY <1>1, <1>3
<1>5. /\ program[e] # <<>> /\ pc[e] = "library" /\ ~Writes(e)
      /\ rest' = [rest EXCEPT ![e] = Past(r, rest[e])]
      /\ resd' = [resd EXCEPT ![e] = resd[e] \o Up(r, rest[e])]
      /\ \/ /\ Enough(Request(Op(e), readbuff[e]), resd[e] \o Up(r, rest[e]))
            /\ ReadReturns(e, resd[e] \o Up(r, rest[e]))
         \/ UNCHANGED pc /\ OpUnchanged
      /\ UNCHANGED <<ioiVars, rip, wip, wrb, hs, bioIn, bioOut, sent>>
  BY DEF LibraryReads, At
<1> HIDE DEF r
<1> QED BY <1>3, <1>4, <1>5

LEMMA TypeLibraryReads ==
  ASSUME TypeOK, NEW e \in Ends, LibraryReads(e)
  PROVE  TypeOK'
<1>1. PICK piece \in Seq(Byte), left \in Seq(Byte) :
           /\ piece \o left = rest[e] /\ resd[e] \o piece \in Seq(Byte)
           /\ program[e] # <<>> /\ pc[e] = "library" /\ ~Writes(e)
           /\ rest' = [rest EXCEPT ![e] = left]
           /\ resd' = [resd EXCEPT ![e] = resd[e] \o piece]
           /\ \/ /\ Enough(Request(Op(e), readbuff[e]), resd[e] \o piece)
                 /\ ReadReturns(e, resd[e] \o piece)
              \/ UNCHANGED pc /\ OpUnchanged
           /\ UNCHANGED <<ioiVars, rip, wip, wrb, hs, bioIn, bioOut, sent>>
  BY LibraryReadsCases
<1>2. OpTypeOK'
  <2>1. CASE ReadReturns(e, resd[e] \o piece)
    BY <1>1, <2>1, ReadReturnsType
  <2>2. CASE UNCHANGED pc /\ OpUnchanged
    BY <2>2 DEF OpUnchanged, OpTypeOK, TypeOK
  <2> QED BY <1>1, <2>1, <2>2
<1>3. rest' \in [Ends -> Seq(Byte)] /\ resd' \in [Ends -> Seq(Byte)]
  <2> DEFINE read == resd[e] \o piece
  <2>1. read \in Seq(Byte) /\ resd' = [resd EXCEPT ![e] = read]
    BY <1>1
  <2> HIDE DEF read
  <2> QED BY <1>1, <2>1 DEF TypeOK
<1>4. RestTypeOK'
  BY <1>1, <1>3 DEF TypeOK, RestTypeOK, ioiVars
<1> QED BY <1>2, <1>4, TypeParts

LEMMA TypeLibraryWrites ==
  ASSUME TypeOK, NEW e \in Ends, LibraryWrites(e)
  PROVE  TypeOK'
<1> DEFINE out == bioOut[e] \o <<Data(wrb[e])>>
           all == sent[e] \o wrb[e]
<1>1. /\ sent' = [sent EXCEPT ![e] = all]
      /\ wrb' = [wrb EXCEPT ![e] = <<>>]
      /\ wip' = [wip EXCEPT ![e] = [st |-> "queued", got |-> out]]
      /\ bioOut' = [bioOut EXCEPT ![e] = <<>>]
      /\ Go(e, "await")
      /\ UNCHANGED <<ioiVars, rip, resd, hs, bioIn, rest>> /\ OpUnchanged
  BY DEF LibraryWrites
<1>2. wrb[e] \in Seq(Byte) /\ sent[e] \in Seq(Byte) /\ bioOut[e] \in Seq(Record)
  BY DEF TypeOK
<1>3. Data(wrb[e]) \in Record
  BY <1>2 DEF Data, Record
<1>4. out \in Seq(Record) /\ all \in Seq(Byte)
  BY <1>2, <1>3
<1> HIDE DEF out, all
<1>5. [st |-> "queued", got |-> out] \in Raw
  BY <1>4, Raws
<1> DEFINE w == [st |-> "queued", got |-> out]
<1> HIDE DEF w
<1>6. wip' \in [Ends -> Raw]
  BY <1>1, <1>5 DEF w, TypeOK
<1>7. <<>> \in Seq(Record) /\ <<>> \in Seq(Byte)
  OBVIOUS
<1>8. /\ sent' \in [Ends -> Seq(Byte)] /\ wrb' \in [Ends -> Seq(Byte)]
      /\ bioOut' \in [Ends -> Seq(Record)]
  BY <1>1, <1>4, <1>7 DEF TypeOK
<1>9. OpTypeOK'
  BY <1>1, GoType DEF OpTypeOK, TypeOK, OpUnchanged
<1>10. RestTypeOK'
  BY <1>1, <1>6, <1>8 DEF TypeOK, RestTypeOK, ioiVars
<1> QED BY <1>9, <1>10, TypeParts

LEMMA TypeLibraryWants ==
  ASSUME TypeOK, NEW e \in Ends, LibraryWants(e)
  PROVE  TypeOK'
<1>1. /\ UNCHANGED <<ioiVars, resd, wrb, hs, bioIn, rest, sent>> /\ OpUnchanged
      /\ \/ YeetAlready(e) /\ UNCHANGED rip
         \/ ReadAlready(e) /\ UNCHANGED <<wip, bioOut>>
  BY DEF LibraryWants
<1>2. CASE YeetAlready(e) /\ UNCHANGED rip
  BY <1>1, <1>2, YeetType DEF TypeOK, ioiVars, OpUnchanged
<1>3. CASE ReadAlready(e) /\ UNCHANGED <<wip, bioOut>>
  <2>1. [st |-> "queued", got |-> <<>>] \in Raw
    BY Raws, <<>> \in Seq(Record)
  <2>2. rip' = [rip EXCEPT ![e] = [st |-> "queued", got |-> <<>>]] /\ Go(e, "await")
    BY <1>3 DEF ReadAlready
  <2> DEFINE r == [st |-> "queued", got |-> <<>>]
  <2> HIDE DEF r
  <2>3. rip' \in [Ends -> Raw]
    BY <2>1, <2>2 DEF r, TypeOK
  <2> QED BY <1>1, <1>3, <2>2, <2>3, GoType DEF TypeOK, ioiVars, OpUnchanged
<1> QED BY <1>1, <1>2, <1>3

\* The alternatives of the raw read and the raw write, spelled out.
LEMMA RawReadCases ==
  ASSUME TypeOK, NEW e \in Ends, RawRead(e)
  PROVE  /\ rip[e].st \in {"queued", "waiting"}
         /\ buff' = [buff EXCEPT ![e] = <<>>]
         /\ \/ /\ CanRead(e, 1)
               /\ rip' = [rip EXCEPT ![e] = [st |-> "completed", got |-> buff[e]]]
               /\ notifi' = [notifi EXCEPT ![e] = FALSE]
               /\ fut' = [fut EXCEPT ![e] = "none"]
            \/ /\ ~CanRead(e, 1)
               /\ rip' = [rip EXCEPT ![e] = [st |-> "waiting", got |-> rip[e].got]]
               /\ notifi' = [notifi EXCEPT ![e] = TRUE]
               /\ fut' = [fut EXCEPT ![e] = "running"]
         /\ UNCHANGED <<exi, wip, resd, wrb, hs, bioIn, bioOut, rest, program, pc,
                        readbuff, sent, received>>
<1>1. /\ rip[e].st \in {"queued", "waiting"}
      /\ UNCHANGED <<wip, resd, wrb, hs, bioIn, bioOut, rest, program, pc,
                     readbuff, sent, received>>
  BY DEF RawRead, RawUnchanged
<1>2. CASE CanRead(e, 1)
  BY <1>1, <1>2 DEF RawRead, ReadNow
<1>3. CASE ~CanRead(e, 1)
  <2>1. [rip EXCEPT ![e].st = "waiting"]
          = [rip EXCEPT ![e] = [st |-> "waiting", got |-> rip[e].got]]
    <3>1. rip[e] \in Raw
      BY DEF TypeOK
    <3>2. [rip[e] EXCEPT !.st = "waiting"] = [st |-> "waiting", got |-> rip[e].got]
      BY <3>1, Raws
    <3> QED BY <3>2
  <2> QED BY <1>1, <1>3, <2>1 DEF RawRead, ReadAwaits
<1> QED BY <1>2, <1>3

LEMMA RawWriteCases ==
  ASSUME TypeOK, NEW e \in Ends, RawWrite(e)
  PROVE  /\ wip[e].st = "queued"
         /\ wip' = [wip EXCEPT ![e] = [st |-> "completed", got |-> wip[e].got]]
         /\ buff' = [buff EXCEPT ![1 - e] = buff[1 - e] \o wip[e].got]
         /\ fut' \in [Ends -> {"none", "running", "completed"}]
         /\ UNCHANGED <<exi, notifi, rip, resd, wrb, hs, bioIn, bioOut, rest, program, pc,
                        readbuff, sent, received>>
<1>1. /\ wip[e].st = "queued"
      /\ wip' = [wip EXCEPT ![e].st = "completed"]
      /\ buff' = [buff EXCEPT ![1 - e] = buff[1 - e] \o wip[e].got]
      /\ fut' = Notified(1 - e)
      /\ UNCHANGED <<exi, notifi, rip, resd, wrb, hs, bioIn, bioOut, rest, program, pc,
                     readbuff, sent, received>>
  BY DEF RawWrite, RawUnchanged, Write, WriteChannel
<1>2. [wip EXCEPT ![e].st = "completed"]
        = [wip EXCEPT ![e] = [st |-> "completed", got |-> wip[e].got]]
  <2>1. wip[e] \in Raw
    BY DEF TypeOK
  <2>2. [wip[e] EXCEPT !.st = "completed"] = [st |-> "completed", got |-> wip[e].got]
    BY <2>1, Raws
  <2> QED BY <2>2
<1>3. Notified(1 - e) \in [Ends -> {"none", "running", "completed"}]
  BY TheOther DEF Notified, TypeOK
<1> QED BY <1>1, <1>2, <1>3

LEMMA TypeRaw ==
  ASSUME TypeOK, NEW e \in Ends, RawRead(e) \/ RawWrite(e)
  PROVE  TypeOK'
<1>1. /\ wip \in [Ends -> Raw] /\ rip \in [Ends -> Raw] /\ buff \in [Ends -> Seq(Record)]
      /\ wip[e].got \in Seq(Record) /\ rip[e].got \in Seq(Record) /\ <<>> \in Seq(Record)
      /\ buff[e] \in Seq(Record) /\ buff[1 - e] \in Seq(Record)
  <2>1. wip \in [Ends -> Raw] /\ rip \in [Ends -> Raw] /\ buff \in [Ends -> Seq(Record)]
    BY DEF TypeOK
  <2>2. wip[e] \in Raw /\ rip[e] \in Raw
    BY <2>1
  <2>3. wip[e].got \in Seq(Record) /\ rip[e].got \in Seq(Record)
    BY <2>2, Raws
  <2> QED BY <2>1, <2>3, TheOther
<1>2. CASE RawRead(e)
  <2>1. buff' \in [Ends -> Seq(Record)]
    BY <1>1, <1>2, RawReadCases
  <2>2. rip' \in [Ends -> Raw]
    <3>1. PICK r \in Raw : rip' = [rip EXCEPT ![e] = r]
      <4>1. /\ [st |-> "completed", got |-> buff[e]] \in Raw
            /\ [st |-> "waiting", got |-> rip[e].got] \in Raw
        BY <1>1 DEF Raw
      <4> QED BY <1>2, <4>1, RawReadCases
    <3> QED BY <1>1, <3>1
  <2>3. /\ notifi' \in [Ends -> BOOLEAN]
        /\ fut' \in [Ends -> {"none", "running", "completed"}]
    BY <1>2, RawReadCases DEF TypeOK
  <2> QED BY <1>2, <2>1, <2>2, <2>3, RawReadCases DEF TypeOK
<1>3. CASE RawWrite(e)
  <2> DEFINE all == buff[1 - e] \o wip[e].got
  <2>1. all \in Seq(Record)
    BY <1>1
  <2> HIDE DEF all
  <2>2. buff' \in [Ends -> Seq(Record)]
    <3>1. buff' = [buff EXCEPT ![1 - e] = all]
      BY <1>3, RawWriteCases DEF all
    <3> QED BY <1>1, <2>1, <3>1, TheOther
  <2>3. wip' \in [Ends -> Raw]
    <3>1. PICK r \in Raw : wip' = [wip EXCEPT ![e] = r]
      <4>1. [st |-> "completed", got |-> wip[e].got] \in Raw
        BY <1>1 DEF Raw
      <4> QED BY <1>3, <4>1, RawWriteCases
    <3> QED BY <1>1, <3>1
  <2> QED BY <1>3, <2>2, <2>3, RawWriteCases DEF TypeOK
<1> QED BY <1>2, <1>3

LEMMA TypeDrop ==
  ASSUME TypeOK, NEW e \in Ends, Drop(e)
  PROVE  TypeOK'
<1>1. /\ exi' = [exi EXCEPT ![1 - e] = FALSE] /\ fut' = Notified(1 - e)
      /\ notifi' = [notifi EXCEPT ![e] = FALSE]
      /\ Go(e, "ended") /\ UNCHANGED <<buff, sslVars, program, readbuff, sent, received>>
  BY DEF Drop, Close, WriteChannel
<1>2. /\ exi' \in [Ends -> BOOLEAN] /\ notifi' \in [Ends -> BOOLEAN]
      /\ fut' \in [Ends -> {"none", "running", "completed"}]
  BY <1>1, TheOther DEF Notified, TypeOK
<1> QED BY <1>1, <1>2, GoType DEF TypeOK, sslVars

LEMMA TypeStep == TypeOK /\ [Next]_vars => TypeOK'
<1> SUFFICES ASSUME TypeOK, [Next]_vars PROVE TypeOK'
  OBVIOUS
<1>1. ASSUME NEW e \in Ends, Steps(e) PROVE TypeOK'
  BY <1>1, TypeBegin, TypeEnter, TypeLibraryTakes, TypeLibraryReads, TypeLibraryWrites,
     TypeLibraryWants, TypeRaw, TypeDrop DEF Steps
<1>2. CASE UNCHANGED vars
  BY <1>2 DEF vars, ioiVars, sslVars, TypeOK
<1> QED BY <1>1, <1>2 DEF Next

\* The types: records, bytes and places are what the code keeps in these variables.
THEOREM TypesAreKept == SafeSpec => []TypeOK
<1> QED BY TypeInit, TypeStep, PTL DEF SafeSpec
------------------------------------------------------------------------------
\* Which places an action of end e writes.
OpAlone(e) ==
  \A y \in Ends \ {e} :
    /\ program'[y] = program[y] /\ pc'[y] = pc[y]
    /\ readbuff'[y] = readbuff[y] /\ received'[y] = received[y]
RestAlone(e) ==
  \A y \in Ends \ {e} :
    /\ rip'[y] = rip[y] /\ wip'[y] = wip[y] /\ resd'[y] = resd[y]
    /\ bioIn'[y] = bioIn[y] /\ bioOut'[y] = bioOut[y] /\ rest'[y] = rest[y]
    /\ sent'[y] = sent[y]

LEMMA OpsAlone ==
  ASSUME TypeOK, NEW e \in Ends
  PROVE  /\ \A rd : ReadEnds(e, rd) => OpAlone(e) /\ pc'[e] = "begin"
         /\ \A rd : ReadReturns(e, rd) => OpAlone(e) /\ pc'[e] = "begin"
         /\ WriteReturns(e) \/ Fails(e) => OpAlone(e) /\ pc'[e] = "begin"
         /\ \A place : Go(e, place) /\ OpUnchanged => OpAlone(e) /\ pc'[e] = place
         /\ UNCHANGED pc /\ OpUnchanged => OpAlone(e) /\ pc'[e] = pc[e]
<1>1. ASSUME NEW rd, ReadEnds(e, rd) PROVE OpAlone(e) /\ pc'[e] = "begin"
  BY <1>1 DEF ReadEnds, Next1, Go, OpAlone, TypeOK
<1>2. ASSUME NEW rd, ReadReturns(e, rd) PROVE OpAlone(e) /\ pc'[e] = "begin"
  <2>1. CASE Satisfied(Op(e), readbuff[e], rd)
    BY <1>1, <1>2, <2>1 DEF ReadReturns
  <2>2. CASE ~Satisfied(Op(e), readbuff[e], rd)
    BY <1>2, <2>2 DEF ReadReturns, Go, OpAlone, TypeOK
  <2> QED BY <2>1, <2>2
<1>3. WriteReturns(e) \/ Fails(e) => OpAlone(e) /\ pc'[e] = "begin"
  BY DEF WriteReturns, Fails, Next1, Go, OpAlone, TypeOK
<1>4. ASSUME NEW place, Go(e, place), OpUnchanged PROVE OpAlone(e) /\ pc'[e] = place
  BY <1>4 DEF Go, OpUnchanged, OpAlone, TypeOK
<1>5. UNCHANGED pc /\ OpUnchanged => OpAlone(e) /\ pc'[e] = pc[e]
  BY DEF OpUnchanged, OpAlone
<1> QED BY <1>1, <1>2, <1>3, <1>4, <1>5

LEMMA StepsAlone ==
  ASSUME TypeOK, NEW e \in Ends, Steps(e)
  PROVE  OpAlone(e) /\ RestAlone(e)
<1>1. CASE Begin(e)
  <2>1. OpAlone(e)
    BY <1>1, OpsAlone DEF Begin
  <2>2. RestAlone(e)
    <3>1. /\ resd' = resd \/ resd' = [resd EXCEPT ![e] = <<>>]
          /\ UNCHANGED <<ioiVars, rip, wip, bioIn, bioOut, rest, sent>>
      BY <1>1, Zenon DEF Begin
    <3>2. \A y \in Ends \ {e} : resd'[y] = resd[y]
      BY <3>1 DEF TypeOK
    <3> QED BY <3>1, <3>2, Zenon DEF RestAlone
  <2> QED BY <2>1, <2>2
<1>2. CASE Enter(e)
  <2>1. OpAlone(e)
    BY <1>2, EnterCases, OpsAlone DEF YeetAlready
  <2>2. RestAlone(e)
    <3>1. /\ \E r : rip' = [rip EXCEPT ![e] = r]
          /\ \E r : bioIn' = [bioIn EXCEPT ![e] = r]
          /\ wip' = wip \/ \E r : wip' = [wip EXCEPT ![e] = r]
          /\ bioOut' = bioOut \/ \E r : bioOut' = [bioOut EXCEPT ![e] = r]
          /\ UNCHANGED <<resd, rest, sent>>
      BY <1>2, EnterCases, Zenon DEF YeetAlready
    <3>2. \A y \in Ends \ {e} :
            rip'[y] = rip[y] /\ bioIn'[y] = bioIn[y] /\ resd'[y] = resd[y]
            /\ rest'[y] = rest[y] /\ sent'[y] = sent[y]
      BY <3>1 DEF TypeOK
    <3>3. \A y \in Ends \ {e} : wip'[y] = wip[y]
      BY <3>1 DEF TypeOK
    <3>4. \A y \in Ends \ {e} : bioOut'[y] = bioOut[y]
      BY <3>1 DEF TypeOK
    <3> QED BY <3>2, <3>3, <3>4, Zenon DEF RestAlone
  <2> QED BY <2>1, <2>2
<1>3. CASE LibraryTakes(e)
  BY <1>3 DEF LibraryTakes, OpAlone, OpUnchanged, RestAlone, TypeOK
<1>4. CASE LibraryReads(e)
  <2>1. OpAlone(e)
    BY <1>4, LibraryReadsCases, OpsAlone
  <2>2. RestAlone(e)
    BY <1>4 DEF LibraryReads, RestAlone, TypeOK
  <2> QED BY <2>1, <2>2
<1>5. CASE LibraryWrites(e)
  BY <1>5, OpsAlone DEF LibraryWrites, RestAlone, TypeOK
<1>6. CASE LibraryWants(e)
  BY <1>6, OpsAlone DEF LibraryWants, YeetAlready, ReadAlready, RestAlone, TypeOK
<1>7. CASE RawRead(e)
  <2>1. /\ \E r : rip' = [rip EXCEPT ![e] = r]
        /\ UNCHANGED <<wip, resd, bioIn, bioOut, rest, program, pc, readbuff, sent, received>>
    BY <1>7, RawReadCases
  <2> QED BY <2>1 DEF OpAlone, RestAlone, TypeOK
<1>8. CASE RawWrite(e)
  <2>1. /\ \E r : wip' = [wip EXCEPT ![e] = r]
        /\ UNCHANGED <<rip, resd, bioIn, bioOut, rest, program, pc, readbuff, sent, received>>
    BY <1>8, RawWriteCases
  <2> QED BY <2>1 DEF OpAlone, RestAlone, TypeOK
<1>9. CASE Drop(e)
  BY <1>9 DEF Drop, Go, sslVars, OpAlone, RestAlone, TypeOK
<1> QED BY <1>1, <1>2, <1>3, <1>4, <1>5, <1>6, <1>7, <1>8, <1>9 DEF Steps

------------------------------------------------------------------------------
\* RawInv is inductive.
LEMMA RawInit == Init => RawInv
BY DEF Init, Each, Nothing, RawInv, RawAt

LEMMA EnterGoes ==
  ASSUME TypeOK, NEW e \in Ends, Enter(e)
  PROVE  /\ rip'[e] = Nothing /\ pc'[e] \in {"begin", "library", "await"}
         /\ \/ pc'[e] # "await" /\ wip'[e] \in {wip[e], Nothing}
            \/ pc'[e] = "await" /\ YeetAlready(e) /\ OpUnchanged
               /\ wip'[e] = [st |-> "queued", got |-> bioOut[e]]
<1>1. /\ rip' = [rip EXCEPT ![e] = Nothing] /\ e \in DOMAIN rip /\ e \in DOMAIN wip
  BY EnterCases DEF TypeOK
<1>2. CASE YeetAlready(e) /\ OpUnchanged
  <2>1. pc'[e] = "await" /\ wip'[e] = [st |-> "queued", got |-> bioOut[e]]
    BY <1>1, <1>2, OpsAlone DEF YeetAlready
  <2> QED BY <1>1, <1>2, <2>1
<1>3. CASE ~(YeetAlready(e) /\ OpUnchanged)
  <2>1. pc'[e] \in {"begin", "library"}
    BY <1>3, EnterCases, OpsAlone
  <2>2. wip'[e] \in {wip[e], Nothing}
    BY <1>1, <1>3, EnterCases
  <2> QED BY <1>1, <2>1, <2>2
<1> QED BY <1>2, <1>3

LEMMA RawStep ==
  ASSUME TypeOK, RawInv, NEW e \in Ends, Steps(e)
  PROVE  RawInv'
<1>1. ASSUME NEW y \in Ends \ {e} PROVE RawAt(y)'
  BY StepsAlone DEF RawInv, RawAt, OpAlone, RestAlone
<1>2. RawAt(e)'
  <2>0. RawAt(e) /\ e \in DOMAIN wip /\ e \in DOMAIN rip /\ Nothing = [st |-> "none", got |-> <<>>]
    BY DEF RawInv, TypeOK, Nothing
  <2>1. CASE Begin(e)
    <3>1. pc[e] = "begin" /\ rip' = rip /\ wip' = wip /\ pc'[e] \in {"begin", "enter"}
      BY <2>1, OpsAlone DEF Begin, At
    <3> QED BY <2>0, <3>1 DEF RawAt
  <2>2. CASE Enter(e)
    <3>1. wip[e].st \in {"none", "completed"}
      <4>1. wip[e] \in Raw
        BY DEF TypeOK
      <4>2. wip[e].st \in {"none", "queued", "waiting", "completed"}
        BY <4>1, Raws
      <4> QED BY <2>0, <2>2, <4>2, EnterCases DEF RawAt
    <3>2. rip'[e] = Nothing /\ Nothing.st = "none" /\ Nothing.got = <<>>
      BY <2>2, EnterGoes DEF Nothing
    <3>3. \/ pc'[e] # "await" /\ wip'[e].st \in {"none", "completed"}
          \/ pc'[e] = "await" /\ wip'[e].st = "queued"
      <4>1. CASE pc'[e] # "await" /\ wip'[e] \in {wip[e], Nothing}
        BY <3>1, <3>2, <4>1
      <4>2. CASE pc'[e] = "await" /\ wip'[e] = [st |-> "queued", got |-> bioOut[e]]
        BY <4>2
      <4> QED BY <2>2, <4>1, <4>2, EnterGoes
    <3> QED BY <3>2, <3>3 DEF RawAt
  <2>3. CASE LibraryTakes(e)
    BY <2>0, <2>3 DEF LibraryTakes, RawAt
  <2>4. CASE LibraryReads(e)
    <3>1. pc[e] = "library" /\ rip' = rip /\ wip' = wip /\ pc'[e] \in {"begin", "library"}
      BY <2>4, LibraryReadsCases, OpsAlone
    <3> QED BY <2>0, <3>1 DEF RawAt
  <2>5. CASE LibraryWrites(e)
    <3>1. pc'[e] = "await" /\ rip' = rip /\ wip'[e].st = "queued"
      BY <2>0, <2>5, OpsAlone DEF LibraryWrites
    <3> QED BY <2>0, <3>1 DEF RawAt
  <2>6. CASE LibraryWants(e)
    <3>1. pc'[e] = "await"
      BY <2>6, OpsAlone DEF LibraryWants, YeetAlready, ReadAlready
    <3>2. \/ rip' = rip /\ wip'[e].st = "queued"
          \/ wip' = wip /\ rip'[e] = [st |-> "queued", got |-> <<>>]
      BY <2>0, <2>6 DEF LibraryWants, YeetAlready, ReadAlready
    <3> QED BY <2>0, <3>1, <3>2 DEF RawAt
  <2>7. CASE RawRead(e)
    <3>1. pc' = pc /\ wip' = wip /\ rip[e].st \in {"queued", "waiting"}
      BY <2>7, RawReadCases
    <3>2. rip'[e].st = "completed" \/ rip'[e] = [st |-> "waiting", got |-> rip[e].got]
      BY <2>0, <2>7, RawReadCases
    <3> QED BY <2>0, <3>1, <3>2 DEF RawAt
  <2>8. CASE RawWrite(e)
    <3>1. pc' = pc /\ rip' = rip /\ wip[e].st = "queued" /\ wip'[e].st = "completed"
      <4>1. /\ pc' = pc /\ rip' = rip /\ wip[e].st = "queued"
            /\ wip' = [wip EXCEPT ![e] = [st |-> "completed", got |-> wip[e].got]]
        BY <2>8, RawWriteCases
      <4>2. wip'[e] = [st |-> "completed", got |-> wip[e].got]
        BY <2>0, <4>1
      <4> QED BY <4>1, <4>2
    <3> QED BY <2>0, <3>1 DEF RawAt
  <2>9. CASE Drop(e)
    <3>1. pc[e] = "begin" /\ pc'[e] = "ended" /\ rip' = rip /\ wip' = wip
      BY <2>9 DEF Drop, Go, sslVars, TypeOK
    <3> QED BY <2>0, <3>1 DEF RawAt
  <2> QED BY <2>1, <2>2, <2>3, <2>4, <2>5, <2>6, <2>7, <2>8, <2>9 DEF Steps
<1> QED BY <1>1, <1>2 DEF RawInv

\* NoData is inductive.
LEMMA NoDataInit == Init => NoData
<1>1. Flight(1) \in Record /\ Payload(Flight(1)) = <<>>
  BY SSLAssumption DEF Flight, Record, Payload
<1>2. Bytes(<<Flight(1)>>) = <<>>
  BY <1>1, BytesOne
<1> QED BY <1>2, BytesEmpty DEF Init, Each, NoData

\* What the library replies carries no data.
LEMMA ReplyIsEmpty ==
  ASSUME TypeOK, NEW e \in Ends, LibraryTakes(e)
  PROVE  Bytes(bioOut'[e]) = Bytes(bioOut[e])
<1>1. bioIn[e] # <<>> /\ bioIn[e] \in Seq(Record) /\ bioOut[e] \in Seq(Record)
  BY DEF LibraryTakes, TypeOK
<1>2. Head(bioIn[e]) \in Record
  BY <1>1
<1> DEFINE record == Head(bioIn[e])
           Empty == {r \in Seq(Record) : Bytes(r) = <<>>}
           reply == IF record.kind # "flight" THEN <<>>
                    ELSE IF record.n < Flights THEN <<Flight(record.n + 1)>>
                    ELSE IF e # Client THEN <<Ticket>> ELSE <<>>
<1>3. bioOut'[e] = bioOut[e] \o reply
  BY DEF LibraryTakes, TypeOK
<1>4. Ticket \in Record /\ Payload(Ticket) = <<>>
  BY DEF Record, Ticket, Payload
<1>5. ASSUME record.kind = "flight", record.n < Flights
      PROVE  Flight(record.n + 1) \in Record /\ Payload(Flight(record.n + 1)) = <<>>
  <2>1. record.n \in 1 .. Flights
    <3> HIDE DEF record
    <3> QED BY <1>2, <1>5 DEF Record, Ticket, record
  <2> HIDE DEF record
  <2> QED BY <1>5, <2>1, SSLAssumption DEF Flight, Record, Payload
<1>6. reply \in Empty
  <2> HIDE DEF record
  <2>1. <<>> \in Empty
    BY BytesEmpty
  <2>2. \A r \in Record : Payload(r) = <<>> => <<r>> \in Empty
    <3> SUFFICES ASSUME NEW r \in Record, Payload(r) = <<>> PROVE <<r>> \in Empty
      OBVIOUS
    <3>1. Bytes(<<r>>) = <<>> /\ <<r>> \in Seq(Record)
      BY BytesOne
    <3> QED BY <3>1
  <2> HIDE DEF Empty
  <2> QED BY <1>4, <1>5, <2>1, <2>2
<1>7. reply \in Seq(Record) /\ Bytes(reply) = <<>>
  <2> HIDE DEF reply
  <2> QED BY <1>6
<1> HIDE DEF reply
<1>8. Bytes(bioOut[e] \o reply) = Bytes(bioOut[e]) \o Bytes(reply)
  BY <1>1, <1>7, BytesConcat
<1>9. Bytes(bioOut[e]) \in Seq(Byte)
  BY <1>1, PayloadsType
<1>10. Bytes(bioOut[e]) \o <<>> = Bytes(bioOut[e])
  BY <1>9, ConcatEmptySeq
<1> QED BY <1>3, <1>7, <1>8, <1>10

LEMMA NoDataStep ==
  ASSUME TypeOK, NoData, NEW e \in Ends, Steps(e)
  PROVE  NoData'
<1>1. ASSUME NEW y \in Ends \ {e} PROVE Bytes(bioOut'[y]) = <<>>
  BY StepsAlone DEF NoData, RestAlone
<1>2. Bytes(bioOut'[e]) = <<>>
  <2>1. CASE LibraryTakes(e)
    BY <2>1, ReplyIsEmpty DEF NoData
  <2>2. CASE ~LibraryTakes(e)
    <3>1. CASE Enter(e)
      <4>1. bioOut' = bioOut \/ bioOut' = [bioOut EXCEPT ![e] = <<>>]
        BY <3>1, EnterCases DEF YeetAlready
      <4> QED BY <4>1, BytesEmpty DEF NoData, TypeOK
    <3>2. CASE LibraryReads(e)
      BY <3>2, LibraryReadsCases DEF NoData
    <3>3. CASE RawRead(e)
      BY <3>3, RawReadCases DEF NoData
    <3>4. CASE RawWrite(e)
      BY <3>4, RawWriteCases DEF NoData
    <3>5. CASE Begin(e) \/ Drop(e)
      BY <3>5 DEF Begin, Drop, sslVars, NoData
    <3>6. CASE LibraryWrites(e) \/ LibraryWants(e)
      BY <3>6, BytesEmpty DEF LibraryWrites, LibraryWants, YeetAlready, NoData, TypeOK
    <3> QED BY <2>2, <3>1, <3>2, <3>3, <3>4, <3>5, <3>6 DEF Steps
  <2> QED BY <2>1, <2>2
<1>3. \A y \in Ends : Bytes(bioOut'[y]) = <<>>
  BY <1>1, <1>2
<1> QED BY <1>3 DEF NoData

LEMMA InvInit == Init => TypeOK /\ RawInv /\ NoData
BY TypeInit, RawInit, NoDataInit

LEMMA InvStep == TypeOK /\ RawInv /\ NoData /\ [Next]_vars => (TypeOK /\ RawInv /\ NoData)'
<1> SUFFICES ASSUME TypeOK, RawInv, NoData, [Next]_vars PROVE (TypeOK /\ RawInv /\ NoData)'
  OBVIOUS
<1>1. TypeOK'
  BY TypeStep
<1>2. ASSUME NEW e \in Ends, Steps(e) PROVE RawInv' /\ NoData'
  BY <1>2, RawStep, NoDataStep
<1>3. CASE UNCHANGED vars
  <2>1. UNCHANGED <<pc, rip, wip, bioOut>>
    BY <1>3 DEF vars, sslVars
  <2>2. RawInv'
    BY <2>1 DEF RawInv, RawAt
  <2>3. \A x \in Ends : Bytes(bioOut'[x]) = <<>>
    BY <2>1 DEF NoData
  <2> QED BY <1>1, <2>2, <2>3 DEF NoData
<1> QED BY <1>1, <1>2, <1>3 DEF Next

LEMMA TailDiffers ==
  ASSUME NEW V, NEW s \in Seq(V), s # <<>>
  PROVE  Tail(s) # s
<1> DEFINE n == Len(s)
           m == Len(Tail(s))
<1>1. m = n - 1 /\ n \in Nat
  OBVIOUS
<1>2. m # n
  <2> HIDE DEF m, n
  <2> QED BY <1>1
<1> QED BY <1>2, Zenon

\* A _write that has ended has left nothing behind, for every pair of programs: Enter
\* returns it only when its raw write is over, and SSL_write left no data in bioOut
\* (iores.cpp:170-177).
THEOREM WritesAreOut == SafeSpec => WrittenIsOut
<1> DEFINE Out == \A e \in Ends : Ended(e) /\ Writes(e) /\ wrb[e] = <<>> =>
                    Bytes(bioOut'[e]) = <<>> /\ wip'[e].st # "queued"
           Inv == TypeOK /\ RawInv /\ NoData
<1>1. Inv /\ [Next]_vars => [Out]_vars
  <2> SUFFICES ASSUME Inv, [Next]_vars, ~UNCHANGED vars,
                      NEW x \in Ends, Ended(x), Writes(x)
               PROVE  Bytes(bioOut'[x]) = <<>> /\ wip'[x].st # "queued"
    BY Zenon
  <2>1. NoData'
    BY InvStep
  <2>2. Tail(program[x]) # program[x] /\ program'[x] # program[x]
    <3>1. program[x] \in Seq(Operation) /\ program[x] # <<>> /\ program'[x] = Tail(program[x])
      BY DEF Ended, TypeOK
    <3> QED BY <3>1, TailDiffers
  <2>3. PICK e \in Ends : Steps(e)
    BY DEF Next
  <2>4. e = x
    BY <2>2, <2>3, StepsAlone DEF OpAlone
  <2>5. Enter(x)
    <3>1. ~Begin(x)
      BY <2>2 DEF Begin, OpUnchanged
    <3>2. ~LibraryReads(x)
      BY DEF LibraryReads
    <3>3. ~LibraryTakes(x) /\ ~LibraryWrites(x) /\ ~LibraryWants(x) /\ ~Drop(x)
      BY <2>2 DEF LibraryTakes, LibraryWrites, LibraryWants, Drop, OpUnchanged
    <3>4. ~RawRead(x) /\ ~RawWrite(x)
      BY <2>2 DEF RawRead, RawWrite, RawUnchanged
    <3> QED BY <2>3, <2>4, <3>1, <3>2, <3>3, <3>4 DEF Steps
  <2>6. ~(YeetAlready(x) /\ OpUnchanged)
    BY <2>2 DEF OpUnchanged
  <2>7. wip'[x] \in {wip[x], Nothing}
    BY <2>5, <2>6, EnterGoes
  <2>8. wip[x].st # "queued" /\ Nothing.st # "queued"
    BY <2>5, EnterCases DEF RawInv, RawAt, Nothing
  <2> QED BY <2>1, <2>7, <2>8 DEF NoData
<1>2. SafeSpec => []Inv
  <2>1. Init => Inv
    BY InvInit
  <2>2. Inv /\ [Next]_vars => Inv'
    BY InvStep
  <2> QED BY <2>1, <2>2, PTL DEF SafeSpec
<1>3. SafeSpec => [][Out]_vars
  BY <1>1, <1>2, PTL DEF SafeSpec
<1> QED BY <1>3 DEF WrittenIsOut
------------------------------------------------------------------------------
\* EndInv is inductive.
LEMMA EndInit == Init => EndInv
<1> SUFFICES ASSUME Init, NEW x \in Ends PROVE EndAt(x)
  BY DEF EndInv
<1>1. 1 - x \in Ends
  BY TheOther
<1>2. /\ exi[x] = TRUE /\ pc[x] = "begin" /\ pc[1 - x] = "begin"
      /\ rip[x].st = "none" /\ rip[x] = Nothing
  BY <1>1 DEF Init, IOIInit, Each, Nothing
<1> QED BY <1>2 DEF EndAt

LEMMA PcMoves ==
  ASSUME TypeOK, EndInv, NEW e \in Ends, Steps(e)
  PROVE  \/ /\ pc'[e] = "ended" /\ program'[e] = <<>> /\ UNCHANGED buff
            /\ exi' = [exi EXCEPT ![1 - e] = FALSE]
         \/ /\ UNCHANGED exi
            /\ \/ pc[e] # "ended" /\ pc'[e] # "ended"
               \/ UNCHANGED <<pc, program>>
<1>1. CASE Drop(e)
  BY <1>1 DEF Drop, Close, WriteChannel, Go, TypeOK
<1>2. CASE RawRead(e)
  BY <1>2, RawReadCases
<1>3. CASE RawWrite(e)
  BY <1>3, RawWriteCases
<1>4. CASE Begin(e)
  <2>1. program[e] # <<>> /\ pc'[e] # "ended" /\ UNCHANGED exi
    BY <1>4, OpsAlone DEF Begin, At, ioiVars
  <2> QED BY <2>1 DEF EndInv, EndAt
<1>5. CASE Enter(e)
  <2>1. program[e] # <<>> /\ pc'[e] # "ended" /\ UNCHANGED exi
    BY <1>5, EnterCases, EnterGoes DEF ioiVars
  <2> QED BY <2>1 DEF EndInv, EndAt
<1>6. CASE LibraryTakes(e)
  BY <1>6 DEF LibraryTakes, OpUnchanged, ioiVars
<1>7. CASE LibraryReads(e)
  <2>1. program[e] # <<>> /\ pc[e] # "ended" /\ pc'[e] # "ended" /\ UNCHANGED exi
    BY <1>7, LibraryReadsCases, OpsAlone DEF ioiVars
  <2> QED BY <2>1
<1>8. CASE LibraryWrites(e) \/ LibraryWants(e)
  <2>1. program[e] # <<>> /\ pc'[e] # "ended" /\ UNCHANGED exi
    <3>1. pc'[e] = "await"
      BY <1>8, OpsAlone DEF LibraryWrites, LibraryWants, YeetAlready, ReadAlready
    <3> QED BY <1>8, <3>1 DEF LibraryWrites, LibraryWants, At, ioiVars
  <2> QED BY <2>1 DEF EndInv, EndAt
<1> QED BY <1>1, <1>2, <1>3, <1>4, <1>5, <1>6, <1>7, <1>8 DEF Steps

LEMMA BuffMoves ==
  ASSUME TypeOK, NEW e \in Ends, Steps(e), ~RawRead(e), ~RawWrite(e)
  PROVE  UNCHANGED buff
<1>1. Enter(e) => UNCHANGED buff
  BY EnterCases DEF ioiVars
<1>2. LibraryReads(e) => UNCHANGED buff
  BY LibraryReadsCases DEF ioiVars
<1> QED BY <1>1, <1>2 DEF Steps, Begin, LibraryTakes, LibraryWrites, LibraryWants, Drop,
                          Close, ioiVars

LEMMA EndStepOther ==
  ASSUME TypeOK, RawInv, EndInv, NEW e \in Ends, Steps(e)
  PROVE  EndAt(1 - e)'
<1> DEFINE y == 1 - e
<1>0. y \in Ends /\ y # e /\ 1 - y = e
  BY TheOther
<1>1. /\ rip'[y] = rip[y] /\ bioIn'[y] = bioIn[y] /\ rest'[y] = rest[y]
      /\ pc'[y] = pc[y] /\ program'[y] = program[y]
  BY <1>0, StepsAlone DEF OpAlone, RestAlone
<1>2. EndAt(y) /\ EndAt(e)
  BY <1>0 DEF EndInv
<1> HIDE DEF y
<1>3. exi'[y] = (pc'[e] # "ended")
  BY <1>0, <1>2, PcMoves DEF EndAt, TypeOK, y
<1>4. exi'[y] => exi[y]
  BY <1>0, PcMoves DEF TypeOK, y
<1>5. CASE RawWrite(e)
  <2>1. pc[e] = "await"
    <3>1. wip[e].st = "queued"
      BY <1>5, RawWriteCases
    <3> QED BY <3>1 DEF RawInv, RawAt
  <2>2. exi[y]
    BY <1>0, <1>2, <2>1 DEF EndAt
  <2> QED BY <1>0, <1>1, <1>2, <1>3, <2>2 DEF EndAt, y
<1>6. CASE ~RawWrite(e)
  <2>1. buff'[y] = buff[y]
    <3>1. CASE RawRead(e)
      <4>1. buff' = [buff EXCEPT ![e] = <<>>]
        BY <3>1, RawReadCases
      <4> QED BY <1>0, <4>1 DEF TypeOK
    <3> QED BY <1>6, <3>1, BuffMoves
  <2>2. exi'[y] \in BOOLEAN /\ exi[y] \in BOOLEAN
    BY <1>0, TypeStep DEF TypeOK, Next
  <2> QED BY <1>0, <1>1, <1>2, <1>3, <1>4, <2>1, <2>2 DEF EndAt, y
<1> QED BY <1>5, <1>6 DEF y

LEMMA EndStepSelf ==
  ASSUME TypeOK, RawInv, EndInv, NEW e \in Ends, Steps(e)
  PROVE  EndAt(e)'
<1>0. /\ 1 - e \in Ends /\ 1 - e # e /\ EndAt(e) /\ RawAt(e)
      /\ Nothing.st = "none" /\ e \in DOMAIN rip /\ e \in DOMAIN buff
  BY TheOther DEF EndInv, RawInv, Nothing, TypeOK
<1>1. exi'[e] = (pc'[1 - e] # "ended") /\ exi'[e] = exi[e]
  <2>1. pc'[1 - e] = pc[1 - e]
    BY <1>0, StepsAlone DEF OpAlone
  <2>2. exi'[e] = exi[e]
    BY <1>0, PcMoves DEF TypeOK
  <2> QED BY <1>0, <2>1, <2>2 DEF EndAt
<1>2. pc'[e] = "ended" => program'[e] = <<>>
  BY <1>0, PcMoves DEF EndAt
<1>3. CASE RawRead(e)
  <2>1. /\ rip[e].st # "none" /\ buff'[e] = <<>> /\ UNCHANGED <<bioIn, rest, exi>>
        /\ \/ CanRead(e, 1) /\ rip'[e] = [st |-> "completed", got |-> buff[e]]
           \/ rip'[e] = [st |-> "waiting", got |-> rip[e].got]
    BY <1>0, <1>3, RawReadCases
  <2>2. CASE CanRead(e, 1) /\ rip'[e] = [st |-> "completed", got |-> buff[e]]
    <3>1. rip'[e].got = <<>> => ~exi'[e]
      BY <2>1, <2>2 DEF CanRead
    <3> QED BY <1>0, <1>1, <1>2, <2>1, <3>1 DEF EndAt
  <2>3. CASE rip'[e] = [st |-> "waiting", got |-> rip[e].got]
    <3>1. rip'[e].st = "waiting"
      BY <2>3
    <3> QED BY <1>0, <1>1, <1>2, <2>1, <3>1 DEF EndAt
  <2> QED BY <2>1, <2>2, <2>3
<1>4. CASE RawWrite(e)
  <2>1. buff'[e] = buff[e] /\ UNCHANGED <<rip, bioIn, rest>>
    <3>1. /\ buff' = [buff EXCEPT ![1 - e] = buff[1 - e] \o wip[e].got]
          /\ UNCHANGED <<rip, bioIn, rest>>
      BY <1>4, RawWriteCases
    <3> QED BY <1>0, <3>1
  <2> QED BY <1>0, <1>1, <1>2, <2>1 DEF EndAt
<1>5. CASE Enter(e)
  <2>1. rip'[e] = Nothing
    BY <1>5, EnterGoes
  <2> QED BY <1>0, <1>1, <1>2, <2>1 DEF EndAt
<1>6. CASE LibraryTakes(e) \/ LibraryReads(e)
  <2>1. pc[e] = "library" /\ rip' = rip
    BY <1>6 DEF LibraryTakes, LibraryReads, At
  <2>2. rip'[e].st = "none"
    BY <1>0, <2>1 DEF RawAt
  <2> QED BY <1>0, <1>1, <1>2, <2>2 DEF EndAt
<1>7. CASE LibraryWants(e)
  <2>1. /\ bioIn'[e] = <<>> /\ rest'[e] = <<>> /\ UNCHANGED buff
        /\ rip' = rip \/ rip'[e] = [st |-> "queued", got |-> <<>>]
    BY <1>0, <1>7 DEF LibraryWants, ReadAlready, YeetAlready, ioiVars
  <2>2. rip'[e].st \in {rip[e].st, "queued"} /\ (rip'[e].st # "queued" => rip' [e] = rip[e])
    BY <2>1
  <2> QED BY <1>0, <1>1, <1>2, <2>1, <2>2 DEF EndAt
<1>8. CASE Begin(e) \/ LibraryWrites(e) \/ Drop(e)
  <2>1. UNCHANGED <<rip, bioIn, rest, buff>>
    BY <1>8 DEF Begin, LibraryWrites, Drop, Close, sslVars, ioiVars
  <2> QED BY <1>0, <1>1, <1>2, <2>1 DEF EndAt
<1> QED BY <1>3, <1>4, <1>5, <1>6, <1>7, <1>8 DEF Steps

LEMMA EndStep ==
  ASSUME TypeOK, RawInv, EndInv, NEW e \in Ends, Steps(e)
  PROVE  EndInv'
<1>1. \A x \in Ends : x = e \/ x = 1 - e
  BY TheOther
<1> QED BY <1>1, EndStepOther, EndStepSelf DEF EndInv
------------------------------------------------------------------------------
\* The chain of places: a step moves bytes between neighbours.
LEMMA JoinFacts ==
  /\ \A a, b \in Seq(Byte) : Join(a, b) \in Seq(Byte)
  /\ \A a, b, c \in Seq(Byte) : Join(Join(a, b), c) = Join(a, Join(b, c))
  /\ \A a \in Seq(Byte) : Join(a, <<>>) = a /\ Join(<<>>, a) = a
  /\ <<>> \in Seq(Byte)
<1>1. ASSUME NEW a \in Seq(Byte), NEW b \in Seq(Byte) PROVE Join(a, b) \in Seq(Byte)
  BY DEF Join
<1>2. ASSUME NEW a \in Seq(Byte), NEW b \in Seq(Byte), NEW c \in Seq(Byte)
      PROVE  Join(Join(a, b), c) = Join(a, Join(b, c))
  BY Regroup DEF Join
<1>3. ASSUME NEW a \in Seq(Byte) PROVE Join(a, <<>>) = a /\ Join(<<>>, a) = a
  BY ConcatEmptySeq DEF Join
<1> QED BY <1>1, <1>2, <1>3

LEMMA Slide ==
  ASSUME NEW p \in Seq(Byte), NEW a \in Seq(Byte), NEW b \in Seq(Byte),
         NEW x \in Seq(Byte), NEW y \in Seq(Byte), Join(x, y) = Join(a, b)
  PROVE  Join(Join(p, x), y) = Join(Join(p, a), b)
BY JoinFacts

\* The places of the chain to end x.
Incoming(x) == Bytes(bioIn[x])
InRead(x) == Bytes(rip[x].got)
InChannel(x) == Bytes(buff[x])
InWrite(x) == Bytes(Outgoing(1 - x))
FlowOf(x) == Chain(Taken(x), rest[x], Incoming(x), InRead(x), InChannel(x), InWrite(x))

\* The part of a read's bytes that is in resd.
Held(x) == IF program[x] # <<>> /\ ~Writes(x) /\ pc[x] # "begin" THEN resd[x] ELSE <<>>

LEMMA PlacesType ==
  ASSUME TypeOK, NEW x \in Ends
  PROVE  /\ Held(x) \in Seq(Byte) /\ received[x] \in Seq(Byte) /\ readbuff[x] \in Seq(Byte)
         /\ Taken(x) \in Seq(Byte) /\ rest[x] \in Seq(Byte) /\ Incoming(x) \in Seq(Byte)
         /\ InRead(x) \in Seq(Byte) /\ InChannel(x) \in Seq(Byte) /\ InWrite(x) \in Seq(Byte)
<1>1. /\ Held(x) \in Seq(Byte) /\ received[x] \in Seq(Byte) /\ readbuff[x] \in Seq(Byte)
      /\ rest[x] \in Seq(Byte)
  BY DEF Held, TypeOK
<1>2. Taken(x) = Join(Join(received[x], readbuff[x]), Held(x))
  BY Zenon DEF Taken, Held, Join
<1>3. Join(Join(received[x], readbuff[x]), Held(x)) \in Seq(Byte)
  BY <1>1, JoinFacts
<1>4. /\ bioIn[x] \in Seq(Record) /\ buff[x] \in Seq(Record)
      /\ rip[x] \in Raw /\ wip[1 - x] \in Raw
  BY TheOther DEF TypeOK
<1>5. rip[x].got \in Seq(Record) /\ wip[1 - x].got \in Seq(Record) /\ <<>> \in Seq(Record)
  BY <1>4, Raws
<1>6. Outgoing(1 - x) \in Seq(Record)
  BY <1>5 DEF Outgoing
<1>7. /\ Incoming(x) \in Seq(Byte) /\ InRead(x) \in Seq(Byte) /\ InChannel(x) \in Seq(Byte)
      /\ InWrite(x) \in Seq(Byte)
  BY <1>4, <1>5, <1>6, PayloadsType DEF Incoming, InRead, InChannel, InWrite
<1> QED BY <1>1, <1>2, <1>3, <1>7

\* What end x has taken: as a chain, and what leaves it alone.
LEMMA TakenIs ==
  ASSUME NEW x \in Ends
  PROVE  /\ Taken(x) = Join(Join(received[x], readbuff[x]), Held(x))
         /\ Taken(x)' = Join(Join(received'[x], readbuff'[x]), Held(x)')
         /\ (received'[x] = received[x] /\ readbuff'[x] = readbuff[x] /\ Held(x)' = Held(x)
              => Taken(x)' = Taken(x))
<1>1. Taken(x) = Join(Join(received[x], readbuff[x]), Held(x))
  BY Zenon DEF Taken, Held, Join
<1>2. Taken(x)' = Join(Join(received'[x], readbuff'[x]), Held(x)')
  BY Zenon DEF Taken, Held, Join
<1> QED BY <1>1, <1>2, Zenon

\* A read that ends, or searches on, keeps what it has read in the results or the buffer.
LEMMA TakenReadEnds ==
  ASSUME TypeOK, NEW e \in Ends, program[e] # <<>>, ~Writes(e), NEW rd \in Seq(Byte),
         ReadEnds(e, rd)
  PROVE  Taken(e)' = Join(Join(received[e], readbuff[e]), rd)
<1> DEFINE o == Outcome(Op(e), readbuff[e], rd)
           rc == received[e]
           rb == readbuff[e]
<1>1. rc \in Seq(Byte) /\ rb \in Seq(Byte)
  BY DEF TypeOK
<1>2. Op(e) \in Reading
  BY OpType
<1>3. /\ o.left \in Seq(Byte) /\ o.result \in Seq(Byte)
      /\ IF o.ok /\ Op(e).kind # "peek" THEN Join(o.result, o.left) = Join(rb, rd)
                                        ELSE o.left = Join(rb, rd)
  BY <1>1, <1>2, OutcomeKeeps DEF Join
<1>4. /\ readbuff'[e] = o.left /\ pc'[e] = "begin"
      /\ received'[e] = IF o.ok /\ Op(e).kind # "peek" THEN rc \o o.result ELSE rc
  BY DEF ReadEnds, Go, TypeOK
<1> DEFINE result == o.result
           left == o.left
<1> HIDE DEF o
<1>5. Held(e)' = <<>>
  BY <1>4 DEF Held
<1>6. CASE o.ok /\ Op(e).kind # "peek"
  <2>1. Taken(e)' = Join(Join(Join(rc, result), left), <<>>)
    BY <1>4, <1>5, <1>6, TakenIs DEF Join
  <2>2. /\ Join(result, left) = Join(rb, rd)
        /\ left \in Seq(Byte) /\ result \in Seq(Byte)
    BY <1>3, <1>6
  <2> HIDE DEF rc, rb, result, left
  <2>3. Join(Join(rc, result), left) = Join(Join(rc, rb), rd)
    BY <1>1, <2>2, Slide
  <2>4. Join(Join(rc, result), left) \in Seq(Byte)
    BY <1>1, <2>2, JoinFacts
  <2>5. Taken(e)' = Join(Join(rc, rb), rd)
    BY <2>1, <2>3, <2>4, JoinFacts
  <2> QED BY <2>5 DEF rc, rb
<1>7. CASE ~(o.ok /\ Op(e).kind # "peek")
  <2>1. Taken(e)' = Join(Join(rc, left), <<>>)
    BY <1>4, <1>5, <1>7, TakenIs
  <2>2. left = Join(rb, rd) /\ left \in Seq(Byte)
    BY <1>3, <1>7
  <2> HIDE DEF rc, rb, left
  <2>3. Taken(e)' = Join(Join(rc, rb), rd)
    BY <1>1, <2>1, <2>2, JoinFacts
  <2> QED BY <2>3 DEF rc, rb
<1> QED BY <1>6, <1>7

LEMMA TakenReadReturns ==
  ASSUME TypeOK, NEW e \in Ends, program[e] # <<>>, ~Writes(e), NEW rd \in Seq(Byte),
         ReadReturns(e, rd)
  PROVE  Taken(e)' = Join(Join(received[e], readbuff[e]), rd)
<1>1. CASE Satisfied(Op(e), readbuff[e], rd)
  BY <1>1, TakenReadEnds DEF ReadReturns
<1>2. CASE ~Satisfied(Op(e), readbuff[e], rd)
  <2> DEFINE rc == received[e]
             rb == readbuff[e]
  <2>1. readbuff'[e] = Join(rb, rd) /\ pc'[e] = "begin" /\ received'[e] = rc
    BY <1>2 DEF ReadReturns, Go, TypeOK, Join
  <2>2. Held(e)' = <<>>
    BY <2>1 DEF Held
  <2>3. Taken(e)' = Join(Join(rc, Join(rb, rd)), <<>>)
    BY <2>1, <2>2, TakenIs
  <2>4. rc \in Seq(Byte) /\ rb \in Seq(Byte)
    BY DEF TypeOK
  <2> HIDE DEF rc, rb
  <2>5. Taken(e)' = Join(Join(rc, rb), rd)
    BY <2>3, <2>4, JoinFacts
  <2> QED BY <2>5 DEF rc, rb
<1> QED BY <1>1, <1>2

\* The step of an end, seen from the other end: only what the raw write does to the channel,
\* and what SSL_write adds, is seen.
LEMMA OutgoingSame ==
  ASSUME TypeOK, RawInv, NoData, NEW e \in Ends, Steps(e), ~RawWrite(e), ~LibraryWrites(e)
  PROVE  Bytes(Outgoing(e))' = Bytes(Outgoing(e)) /\ sent' = sent
<1>1. sent' = sent
  BY EnterCases, LibraryReadsCases, RawReadCases
     DEF Steps, Begin, LibraryTakes, LibraryWants, Drop
<1>2. CASE UNCHANGED wip
  BY <1>1, <1>2 DEF Outgoing
<1>3. CASE wip[e].st # "queued" /\ wip'[e] = [st |-> "queued", got |-> bioOut[e]]
  <2>1. Outgoing(e) = <<>> /\ Outgoing(e)' = bioOut[e]
    BY <1>3 DEF Outgoing
  <2> QED BY <1>1, <2>1, BytesEmpty, Zenon DEF NoData
<1>4. CASE wip[e].st # "queued" /\ wip'[e].st # "queued"
  <2>1. Outgoing(e) = <<>> /\ Outgoing(e)' = <<>>
    BY <1>4 DEF Outgoing
  <2> QED BY <1>1, <2>1, Zenon
<1>5. CASE Enter(e)
  <2>1. wip[e].st # "queued"
    BY <1>5, EnterCases DEF RawInv, RawAt
  <2>2. CASE wip'[e] \in {wip[e], Nothing}
    BY <1>4, <2>1, <2>2 DEF Nothing
  <2>3. CASE wip'[e] = [st |-> "queued", got |-> bioOut[e]]
    BY <1>3, <2>1, <2>3
  <2> QED BY <1>5, <2>2, <2>3, EnterGoes
<1>6. CASE LibraryWants(e)
  <2>1. pc[e] = "library" /\ wip \in [Ends -> Raw]
    BY <1>6 DEF LibraryWants, At, TypeOK
  <2>2. wip[e].st # "queued"
    BY <2>1 DEF RawInv, RawAt
  <2>3. UNCHANGED wip \/ wip'[e] = [st |-> "queued", got |-> bioOut[e]]
    BY <1>6, <2>1 DEF LibraryWants, YeetAlready
  <2> QED BY <1>2, <1>3, <2>2, <2>3
<1>7. CASE ~Enter(e) /\ ~LibraryWants(e)
  <2>1. UNCHANGED wip
    BY <1>7, RawReadCases, LibraryReadsCases DEF Steps, Begin, LibraryTakes, Drop, sslVars
  <2> QED BY <1>2, <2>1
<1> QED BY <1>5, <1>6, <1>7

LEMMA FlowStepOther ==
  ASSUME TypeOK, RawInv, NoData, FlowInv, NEW e \in Ends, Steps(e)
  PROVE  Flow(1 - e)'
<1> DEFINE y == 1 - e
<1>0. y \in Ends /\ y # e /\ 1 - y = e
  BY TheOther
<1>1. /\ rip'[y] = rip[y] /\ bioIn'[y] = bioIn[y] /\ rest'[y] = rest[y] /\ resd'[y] = resd[y]
      /\ pc'[y] = pc[y] /\ program'[y] = program[y]
      /\ received'[y] = received[y] /\ readbuff'[y] = readbuff[y]
  BY <1>0, StepsAlone DEF OpAlone, RestAlone
<1>2. FlowOf(y) = sent[e]
  BY <1>0, Zenon DEF FlowInv, Flow, FlowOf, Incoming, InRead, InChannel, InWrite
<1> HIDE DEF y
<1>3. Held(y)' = Held(y)
  BY <1>1 DEF Held, Writes, Op
<1>4. /\ Taken(y)' = Taken(y) /\ rest'[y] = rest[y] /\ Incoming(y)' = Incoming(y)
      /\ InRead(y)' = InRead(y)
  BY <1>0, <1>1, <1>3, TakenIs DEF Incoming, InRead
<1>5. FlowOf(y)' = sent'[e]
  <2>1. CASE RawWrite(e)
    <3>1. /\ wip[e].st = "queued" /\ sent' = sent
          /\ wip' = [wip EXCEPT ![e] = [st |-> "completed", got |-> wip[e].got]]
          /\ buff' = [buff EXCEPT ![y] = buff[y] \o wip[e].got]
      BY <2>1, RawWriteCases DEF y
    <3>2. wip \in [Ends -> Raw] /\ buff \in [Ends -> Seq(Record)] /\ wip[e] \in Raw
      BY DEF TypeOK
    <3>3. buff'[y] = buff[y] \o wip[e].got /\ wip'[e].st = "completed"
      <4>1. wip'[e] = [st |-> "completed", got |-> wip[e].got]
        BY <3>1, <3>2
      <4> QED BY <1>0, <3>1, <3>2, <4>1
    <3>4. wip[e].got \in Seq(Record) /\ buff[y] \in Seq(Record)
      BY <1>0, <3>2, Raws
    <3>5. Outgoing(e) = wip[e].got /\ Outgoing(e)' = <<>>
      BY <3>1, <3>3 DEF Outgoing
    <3>6. InWrite(y) = Bytes(wip[e].got) /\ InWrite(y)' = <<>>
      BY <1>0, <3>5, BytesEmpty, Zenon DEF InWrite
    <3>7. InChannel(y)' = Join(InChannel(y), InWrite(y))
      <4>1. Bytes(buff[y] \o wip[e].got) = Bytes(buff[y]) \o Bytes(wip[e].got)
        BY <3>4, BytesConcat
      <4> QED BY <3>3, <3>6, <4>1, Zenon DEF InChannel, Join
    <3> DEFINE f == InChannel(y)
               g == InWrite(y)
    <3>8. f \in Seq(Byte) /\ g \in Seq(Byte)
      BY <1>0, PlacesType
    <3>9. Join(f, g) \in Seq(Byte) /\ Join(Join(f, g), <<>>) = Join(f, g) /\ <<>> \in Seq(Byte)
      <4> HIDE DEF f, g
      <4> QED BY <3>8, JoinFacts
    <3>10. Chain(Taken(y), rest[y], Incoming(y), InRead(y), Join(f, g), <<>>) = FlowOf(y)
      <4> DEFINE a == Taken(y)
                 b == rest[y]
                 c == Incoming(y)
                 d == InRead(y)
      <4>1. a \in Seq(Byte) /\ b \in Seq(Byte) /\ c \in Seq(Byte) /\ d \in Seq(Byte)
        BY <1>0, PlacesType
      <4>2. Chain(a, b, c, d, Join(f, g), <<>>) = Chain(a, b, c, d, f, g)
        <5> DEFINE nil == <<>>
                   all == Join(f, g)
        <5>1. nil \in Seq(Byte) /\ all \in Seq(Byte) /\ Join(all, nil) = Join(f, g)
          BY <3>9
        <5> DEFINE p == Join(Join(Join(a, b), c), d)
        <5>2. p \in Seq(Byte)
          <6> HIDE DEF a, b, c, d
          <6> QED BY <4>1, JoinFacts
        <5> HIDE DEF a, b, c, d, f, g, nil, all, p
        <5>3. Join(Join(p, all), nil) = Join(Join(p, f), g)
          BY <3>8, <5>1, <5>2, Slide
        <5> QED BY <5>3, Zenon DEF nil, all, p, Chain
      <4> QED BY <4>2, Zenon DEF FlowOf
    <3>11. FlowOf(y)' = FlowOf(y)
      BY <1>4, <3>6, <3>7, <3>10, Zenon DEF FlowOf
    <3> QED BY <1>2, <3>1, <3>11
  <2>2. CASE LibraryWrites(e)
    <3>1. /\ program[e] # <<>> /\ pc[e] = "library" /\ buff' = buff
          /\ sent' = [sent EXCEPT ![e] = sent[e] \o wrb[e]]
          /\ wip' = [wip EXCEPT ![e] = [st |-> "queued", got |-> bioOut[e] \o <<Data(wrb[e])>>]]
      BY <2>2 DEF LibraryWrites, At, ioiVars
    <3>2. wip[e].st # "queued"
      BY <3>1 DEF RawInv, RawAt
    <3>3. /\ wrb[e] \in Seq(Byte) /\ sent[e] \in Seq(Byte) /\ bioOut[e] \in Seq(Record)
          /\ e \in DOMAIN sent /\ e \in DOMAIN wip
      BY DEF TypeOK
    <3>4. Data(wrb[e]) \in Record /\ Payload(Data(wrb[e])) = wrb[e]
      BY <3>3 DEF Data, Record, Payload
    <3>5. Bytes(bioOut[e] \o <<Data(wrb[e])>>) = wrb[e]
      <4> DEFINE r == Data(wrb[e])
      <4>1. <<r>> \in Seq(Record)
        BY <3>4
      <4>2. Bytes(bioOut[e] \o <<r>>) = Bytes(bioOut[e]) \o Bytes(<<r>>)
        BY <3>3, <4>1, BytesConcat
      <4>3. Bytes(<<r>>) = wrb[e]
        BY <3>4, BytesOne
      <4>4. <<>> \o wrb[e] = wrb[e]
        BY <3>3, ConcatEmptySeq
      <4> QED BY <4>2, <4>3, <4>4, Zenon DEF NoData
    <3>6. wip'[e] = [st |-> "queued", got |-> bioOut[e] \o <<Data(wrb[e])>>]
      BY <3>1, <3>3
    <3>7. Outgoing(e) = <<>> /\ Outgoing(e)' = bioOut[e] \o <<Data(wrb[e])>>
      BY <3>2, <3>6 DEF Outgoing
    <3>8. InWrite(y) = <<>> /\ InWrite(y)' = wrb[e] /\ InChannel(y)' = InChannel(y)
      BY <1>0, <3>1, <3>5, <3>7, BytesEmpty, Zenon DEF InWrite, InChannel
    <3>9. /\ Join(<<>>, wrb[e]) = wrb[e] /\ <<>> \in Seq(Byte)
          /\ sent'[e] = Join(sent[e], wrb[e])
      <4>1. sent'[e] = sent[e] \o wrb[e]
        BY <3>1, <3>3
      <4>2. <<>> \o wrb[e] = wrb[e]
        BY <3>3, ConcatEmptySeq
      <4>3. <<>> \in Seq(Byte)
        OBVIOUS
      <4> QED BY <4>1, <4>2, <4>3, Zenon DEF Join
    <3>10. Chain(Taken(y), rest[y], Incoming(y), InRead(y), InChannel(y), Join(<<>>, wrb[e]))
             = Join(Chain(Taken(y), rest[y], Incoming(y), InRead(y), InChannel(y), <<>>), wrb[e])
      <4> DEFINE a == Taken(y)
                 b == rest[y]
                 c == Incoming(y)
                 d == InRead(y)
                 f == InChannel(y)
                 w == wrb[e]
      <4>1. /\ a \in Seq(Byte) /\ b \in Seq(Byte) /\ c \in Seq(Byte) /\ d \in Seq(Byte)
            /\ f \in Seq(Byte) /\ w \in Seq(Byte) /\ <<>> \in Seq(Byte)
        BY <1>0, <3>3, <3>9, PlacesType
      <4> DEFINE nil == <<>>
      <4>2. nil \in Seq(Byte)
        BY <4>1
      <4> HIDE DEF a, b, c, d, f, w, nil
      <4> DEFINE p == Join(Join(Join(Join(a, b), c), d), f)
      <4>3. p \in Seq(Byte)
        BY <4>1, JoinFacts
      <4> HIDE DEF p
      <4>4. Join(p, Join(nil, w)) = Join(Join(p, nil), w)
        BY <4>1, <4>2, <4>3, JoinFacts
      <4> QED BY <4>4, Zenon DEF a, b, c, d, f, w, nil, p, Chain
    <3> QED BY <1>2, <1>4, <3>8, <3>9, <3>10, Zenon DEF FlowOf
  <2>3. CASE ~RawWrite(e) /\ ~LibraryWrites(e)
    <3>1. Bytes(Outgoing(e))' = Bytes(Outgoing(e)) /\ sent' = sent
      BY <2>3, OutgoingSame
    <3>2. InWrite(y)' = InWrite(y)
      BY <1>0, <3>1, Zenon DEF InWrite
    <3>3. buff'[y] = buff[y]
      <4>1. CASE RawRead(e)
        <5>1. buff' = [buff EXCEPT ![e] = <<>>]
          BY <4>1, RawReadCases
        <5> QED BY <1>0, <5>1 DEF TypeOK
      <4> QED BY <2>3, <4>1, BuffMoves
    <3>4. InChannel(y)' = InChannel(y)
      BY <3>3, Zenon DEF InChannel
    <3> QED BY <1>2, <1>4, <3>1, <3>2, <3>4, Zenon DEF FlowOf
  <2> QED BY <2>1, <2>2, <2>3
<1> QED BY <1>0, <1>5, Zenon DEF Flow, FlowOf, Incoming, InRead, InChannel, InWrite, y

\* What a step of end e does to what it has taken, apart from a raw read or write.
LEMMA HeldSame ==
  ASSUME NEW e \in Ends, resd'[e] = resd[e], program'[e] = program[e],
         pc[e] # "begin" <=> pc'[e] # "begin"
  PROVE  Held(e)' = Held(e)
BY DEF Held, Writes, Op

LEMMA TakenEnter ==
  ASSUME TypeOK, NEW e \in Ends, Enter(e)
  PROVE  Taken(e)' = Taken(e)
<1>1. program[e] # <<>> /\ pc[e] # "begin" /\ resd' = resd
  BY EnterCases
<1>2. CASE ~Writes(e) /\ ReadReturns(e, resd[e])
  <2>1. resd[e] \in Seq(Byte) /\ Held(e) = resd[e]
    BY <1>1, <1>2 DEF TypeOK, Held
  <2> QED BY <1>1, <1>2, <2>1, TakenReadReturns, TakenIs, Zenon
<1>3. CASE Writes(e) /\ (Fails(e) \/ WriteReturns(e))
  <2>1. received' = received /\ readbuff' = readbuff /\ pc'[e] = "begin"
    BY <1>3, OpsAlone DEF Fails, WriteReturns
  <2>2. Held(e) = <<>> /\ Held(e)' = <<>>
    BY <1>3, <2>1 DEF Held
  <2> QED BY <2>1, <2>2, TakenIs
<1>4. CASE OpUnchanged /\ pc'[e] \in {"await", "library"}
  BY <1>1, <1>4, HeldSame, TakenIs DEF OpUnchanged
<1>5. Go(e, "library") /\ OpUnchanged => pc'[e] = "library"
  BY OpsAlone
<1>6. YeetAlready(e) /\ OpUnchanged => pc'[e] = "await"
  BY OpsAlone DEF YeetAlready
<1> QED BY <1>2, <1>3, <1>4, <1>5, <1>6, EnterCases DEF Written

LEMMA TakenBegin ==
  ASSUME TypeOK, NEW e \in Ends, Begin(e)
  PROVE  Taken(e)' = Taken(e)
<1>1. /\ program[e] # <<>> /\ pc[e] = "begin" /\ <<>> \in Seq(Byte)
      /\ Held(e) = <<>>
  BY DEF Begin, At, Held
<1>2. CASE ~Writes(e) /\ Buffered(Op(e), readbuff[e])
  <2>1. ReadEnds(e, <<>>)
    BY <1>2 DEF Begin
  <2> QED BY <1>1, <1>2, <2>1, TakenReadEnds, TakenIs, Zenon
<1>3. CASE ~(~Writes(e) /\ Buffered(Op(e), readbuff[e]))
  <2>1. OpUnchanged /\ resd'[e] = <<>>
    BY <1>3 DEF Begin, TypeOK
  <2>2. Held(e)' = <<>>
    BY <2>1 DEF Held
  <2> QED BY <1>1, <2>1, <2>2, TakenIs DEF OpUnchanged
<1> QED BY <1>2, <1>3

LEMMA TakenSame ==
  ASSUME TypeOK, NEW e \in Ends, Steps(e), ~LibraryReads(e)
  PROVE  Taken(e)' = Taken(e)
<1>1. CASE Begin(e)
  BY <1>1, TakenBegin
<1>2. CASE Enter(e)
  BY <1>2, TakenEnter
<1>3. CASE LibraryTakes(e)
  BY <1>3, HeldSame, TakenIs DEF LibraryTakes, OpUnchanged
<1>4. CASE LibraryWrites(e) \/ LibraryWants(e)
  <2>1. pc'[e] = "await"
    BY <1>4, OpsAlone DEF LibraryWrites, LibraryWants, YeetAlready, ReadAlready
  <2>2. pc[e] = "library" /\ OpUnchanged /\ resd' = resd
    BY <1>4 DEF LibraryWrites, LibraryWants, At
  <2> QED BY <2>1, <2>2, HeldSame, TakenIs DEF OpUnchanged
<1>5. CASE RawRead(e)
  BY <1>5, RawReadCases, HeldSame, TakenIs
<1>6. CASE RawWrite(e)
  BY <1>6, RawWriteCases, HeldSame, TakenIs
<1>7. CASE Drop(e)
  <2>1. program[e] = <<>> /\ UNCHANGED <<program, readbuff, received>>
    BY <1>7 DEF Drop
  <2>2. Held(e) = <<>> /\ Held(e)' = <<>>
    BY <2>1 DEF Held
  <2> QED BY <2>1, <2>2, TakenIs
<1> QED BY <1>1, <1>2, <1>3, <1>4, <1>5, <1>6, <1>7 DEF Steps

\* PlacesType, one state later.
LEMMA PlacesTypeNext ==
  ASSUME NEW x \in Ends
  PROVE  TypeOK' => /\ (Taken(x) \in Seq(Byte))' /\ (rest[x] \in Seq(Byte))'
                    /\ (Incoming(x) \in Seq(Byte))' /\ (InRead(x) \in Seq(Byte))'
                    /\ (InChannel(x) \in Seq(Byte))'
<1>1. TypeOK => /\ Taken(x) \in Seq(Byte) /\ rest[x] \in Seq(Byte) /\ Incoming(x) \in Seq(Byte)
                /\ InRead(x) \in Seq(Byte) /\ InChannel(x) \in Seq(Byte)
  BY PlacesType
<1> QED BY <1>1, PTL

\* A step of end e moves bytes between two neighbours of its chain, or none.
Kept(e) ==
  \/ /\ Taken(e)' = Taken(e) /\ rest'[e] = rest[e] /\ Incoming(e)' = Incoming(e)
     /\ InRead(e)' = InRead(e) /\ InChannel(e)' = InChannel(e)
  \/ /\ Join(Taken(e)', rest'[e]) = Join(Taken(e), rest[e])
     /\ Incoming(e)' = Incoming(e) /\ InRead(e)' = InRead(e) /\ InChannel(e)' = InChannel(e)
  \/ /\ Join(rest'[e], Incoming(e)') = Join(rest[e], Incoming(e))
     /\ Taken(e)' = Taken(e) /\ InRead(e)' = InRead(e) /\ InChannel(e)' = InChannel(e)
  \/ /\ Join(Incoming(e)', InRead(e)') = Join(Incoming(e), InRead(e))
     /\ Taken(e)' = Taken(e) /\ rest'[e] = rest[e] /\ InChannel(e)' = InChannel(e)
  \/ /\ Join(InRead(e)', InChannel(e)') = Join(InRead(e), InChannel(e))
     /\ Taken(e)' = Taken(e) /\ rest'[e] = rest[e] /\ Incoming(e)' = Incoming(e)

LEMMA KeptReads ==
  ASSUME TypeOK, NEW e \in Ends, LibraryReads(e)
  PROVE  Kept(e)
<1>1. PICK piece \in Seq(Byte), left \in Seq(Byte) :
        /\ piece \o left = rest[e] /\ resd[e] \o piece \in Seq(Byte)
        /\ program[e] # <<>> /\ pc[e] = "library" /\ ~Writes(e)
        /\ rest' = [rest EXCEPT ![e] = left]
        /\ resd' = [resd EXCEPT ![e] = resd[e] \o piece]
        /\ \/ /\ Enough(Request(Op(e), readbuff[e]), resd[e] \o piece)
              /\ ReadReturns(e, resd[e] \o piece)
           \/ UNCHANGED pc /\ OpUnchanged
        /\ UNCHANGED <<ioiVars, rip, wip, wrb, hs, bioIn, bioOut, sent>>
  BY LibraryReadsCases
<1> DEFINE p == Join(received[e], readbuff[e])
           h == resd[e]
<1>2. Held(e) = h /\ Taken(e) = Join(p, h)
  <2>1. Held(e) = h
    BY <1>1 DEF Held
  <2> QED BY <2>1, TakenIs, Zenon
<1>3. rest'[e] = left /\ resd'[e] = Join(h, piece) /\ Join(piece, left) = rest[e]
  BY <1>1 DEF TypeOK, Join
<1>4. Taken(e)' = Join(p, Join(h, piece))
  <2>1. CASE ReadReturns(e, resd[e] \o piece)
    BY <1>1, <2>1, TakenReadReturns, Zenon DEF Join
  <2>2. CASE UNCHANGED pc /\ OpUnchanged
    <3>1. Held(e)' = resd'[e] /\ received' = received /\ readbuff' = readbuff
      BY <1>1, <2>2 DEF Held, OpUnchanged, Writes, Op
    <3> QED BY <1>3, <3>1, TakenIs
  <2> QED BY <1>1, <2>1, <2>2
<1>5. p \in Seq(Byte) /\ h \in Seq(Byte)
  <2>1. received[e] \in Seq(Byte) /\ readbuff[e] \in Seq(Byte)
    BY DEF TypeOK
  <2>2. Join(received[e], readbuff[e]) \in Seq(Byte)
    BY <2>1 DEF Join
  <2> QED BY <2>2 DEF TypeOK
<1>6. Join(Join(p, Join(h, piece)), left) = Join(Join(p, h), Join(piece, left))
  <2> HIDE DEF p, h
  <2> QED BY <1>5, JoinFacts
<1>7. Incoming(e)' = Incoming(e) /\ InRead(e)' = InRead(e) /\ InChannel(e)' = InChannel(e)
  BY <1>1, Zenon DEF Incoming, InRead, InChannel, ioiVars
<1>8. Join(Taken(e)', rest'[e]) = Join(Taken(e), rest[e])
  BY <1>2, <1>3, <1>4, <1>6, Zenon
<1> QED BY <1>7, <1>8, Zenon DEF Kept

LEMMA KeptTakes ==
  ASSUME TypeOK, NEW e \in Ends, LibraryTakes(e)
  PROVE  Kept(e)
<1> DEFINE record == Head(bioIn[e])
<1>1. /\ rest[e] = <<>> /\ bioIn[e] # <<>> /\ bioIn[e] \in Seq(Record)
      /\ rest'[e] = Payload(record) /\ bioIn'[e] = Tail(bioIn[e])
      /\ UNCHANGED <<ioiVars, rip>>
  BY DEF LibraryTakes, TypeOK, Payload
<1>2. Join(rest'[e], Incoming(e)') = Incoming(e)
  <2>1. Bytes(bioIn[e]) = Payload(record) \o Bytes(Tail(bioIn[e]))
    BY <1>1, BytesHead
  <2> QED BY <1>1, <2>1, Zenon DEF Incoming, Join
<1>3. Join(rest[e], Incoming(e)) = Incoming(e)
  <2>1. Incoming(e) \in Seq(Byte)
    BY PlacesType
  <2> QED BY <1>1, <2>1, JoinFacts, Zenon
<1>4. Taken(e)' = Taken(e)
  BY HeldSame, TakenIs DEF LibraryTakes, OpUnchanged
<1>5. InRead(e)' = InRead(e) /\ InChannel(e)' = InChannel(e)
  BY <1>1, Zenon DEF InRead, InChannel, ioiVars
<1> QED BY <1>2, <1>3, <1>4, <1>5, Zenon DEF Kept

LEMMA KeptEnter ==
  ASSUME TypeOK, NEW e \in Ends, Enter(e)
  PROVE  Kept(e)
<1>1. /\ bioIn' = [bioIn EXCEPT ![e] = bioIn[e] \o rip[e].got]
      /\ bioIn \in [Ends -> Seq(Record)]
      /\ UNCHANGED <<ioiVars, rest>> /\ rip'[e] = Nothing /\ rip[e] \in Raw
  BY EnterCases, EnterGoes DEF TypeOK
<1>2. /\ bioIn[e] \in Seq(Record) /\ rip[e].got \in Seq(Record)
      /\ bioIn'[e] = bioIn[e] \o rip[e].got
  BY <1>1, Raws
<1>3. Incoming(e)' = Join(Incoming(e), InRead(e))
  <2>1. Bytes(bioIn[e] \o rip[e].got) = Bytes(bioIn[e]) \o Bytes(rip[e].got)
    BY <1>2, BytesConcat
  <2> QED BY <1>2, <2>1, Zenon DEF Incoming, InRead, Join
<1>4. InRead(e)' = <<>>
  <2>1. rip'[e].got = <<>>
    BY <1>1 DEF Nothing
  <2> QED BY <2>1, BytesEmpty, Zenon DEF InRead
<1>5. Join(Incoming(e)', InRead(e)') = Join(Incoming(e), InRead(e))
  <2> DEFINE i == Incoming(e)
             j == InRead(e)
  <2>1. i \in Seq(Byte) /\ j \in Seq(Byte)
    BY PlacesType
  <2>2. Join(Join(i, j), <<>>) = Join(i, j)
    <3> HIDE DEF i, j
    <3> QED BY <2>1, JoinFacts
  <2> QED BY <1>3, <1>4, <2>2, Zenon
<1>6. InChannel(e)' = InChannel(e) /\ rest'[e] = rest[e]
  BY <1>1, Zenon DEF InChannel, ioiVars
<1> QED BY <1>5, <1>6, TakenEnter, Zenon DEF Kept

LEMMA KeptRawRead ==
  ASSUME TypeOK, RawInv, NEW e \in Ends, RawRead(e)
  PROVE  Kept(e)
<1>0. /\ rip \in [Ends -> Raw] /\ buff \in [Ends -> Seq(Record)] /\ buff[e] \in Seq(Record)
  BY DEF TypeOK
<1>1. /\ rip[e].got = <<>> /\ buff'[e] = <<>> /\ UNCHANGED <<bioIn, rest>>
      /\ \/ rip'[e] = [st |-> "completed", got |-> buff[e]]
         \/ ~CanRead(e, 1) /\ rip'[e] = [st |-> "waiting", got |-> rip[e].got]
  BY <1>0, RawReadCases DEF RawInv, RawAt
<1>2. rip'[e].got = buff[e]
  <2>1. CASE rip'[e] = [st |-> "completed", got |-> buff[e]]
    BY <2>1
  <2>2. CASE ~CanRead(e, 1) /\ rip'[e] = [st |-> "waiting", got |-> rip[e].got]
    <3>1. buff[e] = <<>>
      BY <1>0, <2>2 DEF CanRead
    <3>2. rip'[e].got = rip[e].got
      BY <2>2
    <3> QED BY <1>1, <3>1, <3>2
  <2> QED BY <1>1, <2>1, <2>2
<1>3. InRead(e)' = InChannel(e) /\ InRead(e) = <<>> /\ InChannel(e)' = <<>>
  BY <1>1, <1>2, BytesEmpty, Zenon DEF InRead, InChannel
<1>4. Join(InRead(e)', InChannel(e)') = Join(InRead(e), InChannel(e))
  <2>1. InChannel(e) \in Seq(Byte)
    BY PlacesType
  <2>2. Join(InChannel(e), <<>>) = InChannel(e) /\ Join(<<>>, InChannel(e)) = InChannel(e)
    BY <2>1, JoinFacts, Zenon
  <2> QED BY <1>3, <2>2, Zenon
<1>5. Incoming(e)' = Incoming(e) /\ rest'[e] = rest[e]
  BY <1>1, Zenon DEF Incoming
<1>6. Taken(e)' = Taken(e)
  BY RawReadCases, HeldSame, TakenIs
<1> QED BY <1>4, <1>5, <1>6, Zenon DEF Kept

LEMMA KeptStep ==
  ASSUME TypeOK, RawInv, NEW e \in Ends, Steps(e)
  PROVE  Kept(e)
<1>1. CASE LibraryReads(e)
  BY <1>1, KeptReads
<1>2. CASE LibraryTakes(e)
  BY <1>2, KeptTakes
<1>3. CASE Enter(e)
  BY <1>3, KeptEnter
<1>4. CASE RawRead(e)
  BY <1>4, KeptRawRead
<1>5. CASE RawWrite(e)
  <2>1. buff'[e] = buff[e] /\ UNCHANGED <<rest, bioIn, rip>>
    <3>1. /\ buff' = [buff EXCEPT ![1 - e] = buff[1 - e] \o wip[e].got]
          /\ UNCHANGED <<rest, bioIn, rip>>
      BY <1>5, RawWriteCases
    <3> QED BY <3>1, TheOther DEF TypeOK
  <2>2. Taken(e)' = Taken(e)
    BY <1>5, RawWriteCases, HeldSame, TakenIs
  <2> QED BY <2>1, <2>2, Zenon DEF Kept, Incoming, InRead, InChannel
<1>6. CASE Begin(e) \/ LibraryWrites(e) \/ Drop(e)
  <2>1. UNCHANGED <<rest, bioIn, rip, buff>>
    BY <1>6 DEF Begin, LibraryWrites, Drop, Close, sslVars, ioiVars
  <2>2. Taken(e)' = Taken(e)
    <3>1. ~LibraryReads(e)
      BY <1>6 DEF Begin, LibraryWrites, Drop, LibraryReads, At
    <3> QED BY <3>1, TakenSame
  <2> QED BY <2>1, <2>2, Zenon DEF Kept, Incoming, InRead, InChannel
<1>7. CASE LibraryWants(e)
  <2>1. pc[e] = "library" /\ UNCHANGED <<rest, bioIn, buff>> /\ rest[e] = <<>>
    BY <1>7 DEF LibraryWants, ioiVars, At
  <2>2. rip[e].got = <<>>
    BY <2>1 DEF RawInv, RawAt, Nothing
  <2>3. rip'[e].got = <<>>
    <3>1. rip' = rip \/ rip'[e] = [st |-> "queued", got |-> <<>>]
      BY <1>7 DEF LibraryWants, ReadAlready, TypeOK
    <3> QED BY <2>2, <3>1
  <2>4. Taken(e)' = Taken(e)
    <3>1. ~LibraryReads(e)
      BY <2>1 DEF LibraryReads
    <3> QED BY <3>1, TakenSame
  <2> QED BY <2>1, <2>2, <2>3, <2>4, Zenon DEF Kept, Incoming, InRead, InChannel
<1> QED BY <1>1, <1>2, <1>3, <1>4, <1>5, <1>6, <1>7 DEF Steps

LEMMA FlowStepSelf ==
  ASSUME TypeOK, RawInv, FlowInv, NEW e \in Ends, Steps(e)
  PROVE  Flow(e)'
<1> DEFINE a == Taken(e)
           b == rest[e]
           c == Incoming(e)
           d == InRead(e)
           f == InChannel(e)
           g == InWrite(e)
           a1 == Taken(e)'
           b1 == rest'[e]
           c1 == Incoming(e)'
           d1 == InRead(e)'
           f1 == InChannel(e)'
<1>1. FlowOf(e) = sent[1 - e]
  BY Zenon DEF FlowInv, Flow, FlowOf, Incoming, InRead, InChannel, InWrite
<1>2. InWrite(e)' = g /\ sent'[1 - e] = sent[1 - e]
  <2>1. wip'[1 - e] = wip[1 - e] /\ sent'[1 - e] = sent[1 - e]
    BY TheOther, StepsAlone DEF RestAlone
  <2>2. Outgoing(1 - e)' = Outgoing(1 - e)
    BY <2>1 DEF Outgoing
  <2> QED BY <2>1, <2>2, Zenon DEF InWrite
<1>3. /\ a \in Seq(Byte) /\ b \in Seq(Byte) /\ c \in Seq(Byte) /\ d \in Seq(Byte)
      /\ f \in Seq(Byte) /\ g \in Seq(Byte)
  BY PlacesType
<1>4. TypeOK'
  BY TypeStep DEF Next
<1>5. /\ a1 \in Seq(Byte) /\ b1 \in Seq(Byte) /\ c1 \in Seq(Byte) /\ d1 \in Seq(Byte)
      /\ f1 \in Seq(Byte)
  BY <1>4, PlacesTypeNext
<1>6. \/ a1 = a /\ b1 = b /\ c1 = c /\ d1 = d /\ f1 = f
      \/ Join(a1, b1) = Join(a, b) /\ c1 = c /\ d1 = d /\ f1 = f
      \/ Join(b1, c1) = Join(b, c) /\ a1 = a /\ d1 = d /\ f1 = f
      \/ Join(c1, d1) = Join(c, d) /\ a1 = a /\ b1 = b /\ f1 = f
      \/ Join(d1, f1) = Join(d, f) /\ a1 = a /\ b1 = b /\ c1 = c
  BY KeptStep, Zenon DEF Kept
<1>7. Chain(a1, b1, c1, d1, f1, g) = Chain(a, b, c, d, f, g)
  <2> HIDE DEF a, b, c, d, f, g, a1, b1, c1, d1, f1
  <2> DEFINE p1 == Join(a, b)
             p2 == Join(p1, c)
  <2>1. p1 \in Seq(Byte)
    BY <1>3, JoinFacts
  <2>2. Join(b1, c1) = Join(b, c) => Join(Join(a, b1), c1) = Join(Join(a, b), c)
    <3>1. Join(Join(a, b1), c1) = Join(a, Join(b1, c1))
      BY <1>3, <1>5, JoinFacts
    <3>2. Join(Join(a, b), c) = Join(a, Join(b, c))
      BY <1>3, JoinFacts
    <3> QED BY <3>1, <3>2, Zenon
  <2> HIDE DEF p1
  <2>3. Join(c1, d1) = Join(c, d) => Join(Join(p1, c1), d1) = Join(Join(p1, c), d)
    <3>1. Join(Join(p1, c1), d1) = Join(p1, Join(c1, d1))
      BY <1>5, <2>1, JoinFacts
    <3>2. Join(Join(p1, c), d) = Join(p1, Join(c, d))
      BY <1>3, <2>1, JoinFacts
    <3> QED BY <3>1, <3>2, Zenon
  <2>4. p2 \in Seq(Byte)
    BY <1>3, <2>1, JoinFacts
  <2> HIDE DEF p2
  <2>5. Join(d1, f1) = Join(d, f) => Join(Join(p2, d1), f1) = Join(Join(p2, d), f)
    <3>1. Join(Join(p2, d1), f1) = Join(p2, Join(d1, f1))
      BY <1>5, <2>4, JoinFacts
    <3>2. Join(Join(p2, d), f) = Join(p2, Join(d, f))
      BY <1>3, <2>4, JoinFacts
    <3> QED BY <3>1, <3>2, Zenon
  <2> QED BY <1>6, <2>2, <2>3, <2>5, Zenon DEF Chain, p1, p2
<1>8. Chain(a1, b1, c1, d1, f1, InWrite(e)') = sent'[1 - e]
  BY <1>1, <1>2, <1>7, Zenon DEF FlowOf
<1> QED BY <1>8, Zenon DEF Flow, Incoming, InRead, InChannel, InWrite

LEMMA FlowStep ==
  ASSUME TypeOK, RawInv, NoData, FlowInv, NEW e \in Ends, Steps(e)
  PROVE  FlowInv'
<1>1. \A x \in Ends : x = e \/ x = 1 - e
  BY TheOther
<1> QED BY <1>1, FlowStepOther, FlowStepSelf DEF FlowInv

LEMMA FlowInit == Init => FlowInv
<1> SUFFICES ASSUME Init, NEW x \in Ends PROVE Flow(x)
  BY DEF FlowInv
<1>1. 1 - x \in Ends
  BY TheOther
<1>2. /\ received[x] = <<>> /\ readbuff[x] = <<>> /\ resd[x] = <<>> /\ rest[x] = <<>>
      /\ bioIn[x] = <<>> /\ rip[x].got = <<>> /\ buff[x] = <<>>
      /\ wip[1 - x].st = "none" /\ sent[1 - x] = <<>>
  BY <1>1 DEF Init, IOIInit, Each, Nothing
<1>3. Held(x) = <<>> /\ Outgoing(1 - x) = <<>>
  BY <1>2 DEF Held, Outgoing
<1>4. Join(<<>>, <<>>) = <<>>
  BY JoinFacts, Zenon
<1>5. Taken(x) = <<>>
  BY <1>2, <1>3, <1>4, TakenIs, Zenon
<1>6. Chain(<<>>, <<>>, <<>>, <<>>, <<>>, <<>>) = <<>>
  BY <1>4, Zenon DEF Chain
<1> QED BY <1>2, <1>3, <1>5, <1>6, BytesEmpty, Zenon DEF Flow

\* The chain is what SentIsReceived says of all records on their way together.
LEMMA FlowIsSent == TypeOK /\ NoData /\ FlowInv => SentIsReceived
<1> SUFFICES ASSUME TypeOK, NoData, FlowInv, NEW x \in Ends
             PROVE  Taken(x) \o OnItsWay(x) = sent[1 - x]
  BY DEF SentIsReceived
<1> DEFINE rs1 == bioIn[x]
           rs2 == rip[x].got
           rs3 == buff[x]
           rs4 == Outgoing(1 - x)
           rs5 == bioOut[1 - x]
<1>1. /\ rs1 \in Seq(Record) /\ rs2 \in Seq(Record) /\ rs3 \in Seq(Record)
      /\ rs4 \in Seq(Record) /\ rs5 \in Seq(Record)
  <2>1. /\ rip[x] \in Raw /\ wip[1 - x] \in Raw /\ <<>> \in Seq(Record)
        /\ rs1 \in Seq(Record) /\ rs3 \in Seq(Record) /\ rs5 \in Seq(Record)
    BY TheOther DEF TypeOK
  <2>2. rs2 \in Seq(Record) /\ wip[1 - x].got \in Seq(Record)
    BY <2>1, Raws
  <2> QED BY <2>1, <2>2 DEF Outgoing
<1>2. OnItsWay(x) = Join(rest[x], Bytes((((rs1 \o rs2) \o rs3) \o rs4) \o rs5))
  BY Zenon DEF OnItsWay, Outgoing, Join
<1>3. Bytes((((rs1 \o rs2) \o rs3) \o rs4) \o rs5)
        = Join(Join(Join(Join(Bytes(rs1), Bytes(rs2)), Bytes(rs3)), Bytes(rs4)), Bytes(rs5))
  <2> HIDE DEF rs1, rs2, rs3, rs4, rs5
  <2> DEFINE s2 == rs1 \o rs2
             s3 == s2 \o rs3
             s4 == s3 \o rs4
  <2>1. s2 \in Seq(Record)
    BY <1>1
  <2>2. Bytes(s2) = Bytes(rs1) \o Bytes(rs2)
    BY <1>1, BytesConcat
  <2> HIDE DEF s2
  <2>3. s3 \in Seq(Record)
    BY <1>1, <2>1
  <2>4. Bytes(s3) = Bytes(s2) \o Bytes(rs3)
    BY <1>1, <2>1, BytesConcat
  <2> HIDE DEF s3
  <2>5. s4 \in Seq(Record)
    BY <1>1, <2>3
  <2>6. Bytes(s4) = Bytes(s3) \o Bytes(rs4)
    BY <1>1, <2>3, BytesConcat
  <2> HIDE DEF s4
  <2>7. Bytes(s4 \o rs5) = Bytes(s4) \o Bytes(rs5)
    BY <1>1, <2>5, BytesConcat
  <2> QED BY <2>2, <2>4, <2>6, <2>7, Zenon DEF Join, s2, s3, s4
<1> DEFINE a == Taken(x)
           b == rest[x]
           c == Bytes(rs1)
           d == Bytes(rs2)
           f == Bytes(rs3)
           g == Bytes(rs4)
<1>4. /\ a \in Seq(Byte) /\ b \in Seq(Byte) /\ c \in Seq(Byte) /\ d \in Seq(Byte)
      /\ f \in Seq(Byte) /\ g \in Seq(Byte)
  BY PlacesType, Zenon DEF Incoming, InRead, InChannel, InWrite
<1>5. Bytes(rs5) = <<>>
  BY TheOther, Zenon DEF NoData
<1>6. Join(a, Join(b, Join(Join(Join(Join(c, d), f), g), <<>>))) = Chain(a, b, c, d, f, g)
  <2> DEFINE nil == <<>>
             cd == Join(c, d)
             cf == Join(cd, f)
             cg == Join(cf, g)
             ab == Join(a, b)
             ac == Join(ab, c)
             ad == Join(ac, d)
  <2> HIDE DEF a, b, c, d, f, g
  <2>0. cd \in Seq(Byte) /\ cf \in Seq(Byte) /\ cg \in Seq(Byte) /\ ab \in Seq(Byte)
    BY <1>4, JoinFacts
  <2>1. /\ cd \in Seq(Byte) /\ cf \in Seq(Byte) /\ cg \in Seq(Byte) /\ ab \in Seq(Byte)
        /\ Join(cg, nil) = cg
    <3> HIDE DEF cd, cf, cg, ab
    <3> QED BY <2>0, JoinFacts
  <2>2. ad = Join(ab, cd)
    <3> HIDE DEF ab
    <3> QED BY <1>4, <2>1, JoinFacts
  <2>3. Join(a, Join(b, cg)) = Join(ab, cg)
    <3> HIDE DEF cg
    <3> QED BY <1>4, <2>1, JoinFacts
  <2> HIDE DEF ab, cd, ad
  <2>4. Join(ab, cf) = Join(ad, f)
    BY <1>4, <2>1, <2>2, JoinFacts
  <2>5. Join(ab, cg) = Join(Join(ab, cf), g)
    <3> HIDE DEF cf
    <3> QED BY <1>4, <2>1, JoinFacts
  <2> QED BY <2>1, <2>3, <2>4, <2>5, Zenon DEF Chain, ab, ad, cd
<1>7. Chain(a, b, c, d, f, g) = sent[1 - x]
  BY Zenon DEF FlowInv, Flow
<1> QED BY <1>2, <1>3, <1>5, <1>6, <1>7, Zenon DEF Join

\* A read until the end ends with everything that was taken, in the results.
LEMMA ToEndTakesAll ==
  ASSUME TypeOK, NEW e \in Ends, program[e] # <<>>, Op(e).kind = "toend",
         NEW rd \in Seq(Byte), ReadReturns(e, rd)
  PROVE  received'[e] = Join(Join(received[e], readbuff[e]), rd)
<1> DEFINE rc == received[e]
           rb == readbuff[e]
           all == rb \o rd
<1>1. rc \in Seq(Byte) /\ rb \in Seq(Byte)
  BY DEF TypeOK
<1>2. all \in Seq(Byte) /\ Len(all) \in Nat
  BY <1>1
<1>3. Outcome(Op(e), rb, rd).ok = TRUE /\ Outcome(Op(e), rb, rd).result = Up(Len(all), all)
  BY DEF Outcome
<1>4. Up(Len(all), all) = all
  <2> HIDE DEF all
  <2> QED BY <1>2, SubSeqFull DEF Up
<1>5. ReadEnds(e, rd)
  BY DEF ReadReturns, Satisfied
<1>6. received'[e] = rc \o Outcome(Op(e), rb, rd).result
  BY <1>3, <1>5 DEF ReadEnds, TypeOK
<1>7. received'[e] = Join(rc, Join(rb, rd))
  BY <1>3, <1>4, <1>6, Zenon DEF Join
<1>8. Join(rc, Join(rb, rd)) = Join(Join(rc, rb), rd)
  <2> HIDE DEF rc, rb
  <2> QED BY <1>1, JoinFacts
<1> QED BY <1>7, <1>8

\* Its _read ends with the end of the transmission only: it asks for no number of bytes.
LEMMA ToEndEnds ==
  ASSUME TypeOK, NEW e \in Ends, Steps(e), Ended(e), Op(e).kind = "toend"
  PROVE  Enter(e) /\ Eot(e) /\ ReadReturns(e, resd[e])
<1>1. program'[e] # program[e] /\ program[e] # <<>> /\ ~Writes(e)
  <2>1. program[e] \in Seq(Operation) /\ program[e] # <<>> /\ program'[e] = Tail(program[e])
    BY DEF Ended, TypeOK
  <2> QED BY <2>1, TailDiffers DEF Writes
<1>2. ~Begin(e)
  BY <1>1 DEF Begin, Buffered, OpUnchanged
<1>3. ~LibraryReads(e)
  <2>1. Request(Op(e), readbuff[e]) = 0
    BY DEF Request
  <2>2. \A read : ~Enough(Request(Op(e), readbuff[e]), read)
    BY <2>1 DEF Enough
  <2> QED BY <1>1, <2>2 DEF LibraryReads, OpUnchanged
<1>4. ~LibraryTakes(e) /\ ~LibraryWrites(e) /\ ~LibraryWants(e) /\ ~Drop(e)
  BY <1>1 DEF LibraryTakes, LibraryWrites, LibraryWants, Drop, OpUnchanged
<1>5. ~RawRead(e) /\ ~RawWrite(e)
  BY <1>1 DEF RawRead, RawWrite, RawUnchanged
<1>6. Enter(e)
  BY <1>2, <1>3, <1>4, <1>5 DEF Steps
<1> QED BY <1>1, <1>6, EnterCases DEF Written, OpUnchanged

\* With the end of the transmission nothing is on its way any more.
LEMMA NothingLeft ==
  ASSUME TypeOK, RawInv, EndInv, NEW e \in Ends, Eot(e)
  PROVE  /\ rest[e] = <<>> /\ Incoming(e) = <<>> /\ InRead(e) = <<>>
         /\ InChannel(e) = <<>> /\ InWrite(e) = <<>>
<1>1. /\ rip[e].st = "completed" /\ rip[e].got = <<>> /\ 1 - e \in Ends
      /\ EndAt(e) /\ RawAt(1 - e)
  BY TheOther DEF Eot, EndInv, RawInv
<1>2. bioIn[e] = <<>> /\ rest[e] = <<>> /\ buff[e] = <<>> /\ ~exi[e]
  BY <1>1 DEF EndAt
<1>3. pc[1 - e] = "ended"
  BY <1>1, <1>2 DEF EndAt, TypeOK
<1>4. wip[1 - e].st # "queued"
  BY <1>1, <1>3 DEF RawAt
<1>5. Outgoing(1 - e) = <<>>
  BY <1>4 DEF Outgoing
<1> QED BY <1>1, <1>2, <1>5, BytesEmpty, Zenon DEF Incoming, InRead, InChannel, InWrite
------------------------------------------------------------------------------
SSLInv == TypeOK /\ RawInv /\ NoData /\ EndInv /\ FlowInv

\* The inductive invariant.
LEMMA SSLInvariant == SafeSpec => []SSLInv
<1>1. Init => SSLInv
  BY InvInit, EndInit, FlowInit DEF SSLInv
<1>2. SSLInv /\ [Next]_vars => SSLInv'
  <2> SUFFICES ASSUME SSLInv, [Next]_vars PROVE SSLInv'
    OBVIOUS
  <2>1. (TypeOK /\ RawInv /\ NoData)'
    BY InvStep DEF SSLInv
  <2>2. ASSUME NEW e \in Ends, Steps(e) PROVE EndInv' /\ FlowInv'
    BY <2>2, EndStep, FlowStep DEF SSLInv
  <2>3. CASE UNCHANGED vars
    <3>1. UNCHANGED <<buff, exi, program, pc, rip, wip, resd, readbuff, bioIn, rest, sent,
                      received>>
      BY <2>3 DEF vars, ioiVars, sslVars
    <3>2. EndInv'
      BY <3>1 DEF SSLInv, EndInv, EndAt
    <3>3. FlowInv'
      <4>1. ASSUME NEW x \in Ends PROVE Flow(x)'
        <5>1. Held(x)' = Held(x) /\ Outgoing(1 - x)' = Outgoing(1 - x)
          BY <3>1 DEF Held, Writes, Op, Outgoing
        <5>2. Taken(x)' = Taken(x)
          BY <3>1, <5>1, TakenIs
        <5> QED BY <3>1, <5>1, <5>2, Zenon DEF SSLInv, FlowInv, Flow
      <4> QED BY <4>1 DEF FlowInv
    <3> QED BY <2>1, <3>2, <3>3 DEF SSLInv
  <2> QED BY <2>1, <2>2, <2>3 DEF Next, SSLInv
<1> QED BY <1>1, <1>2, PTL DEF SafeSpec

\* Whatever is sent is received, once and in order, or still on its way: for every pair of
\* programs, any number of flights and any size of `buffer` (iores.cpp:66-86).
THEOREM NothingIsLost == SafeSpec => []SentIsReceived
<1>1. SSLInv => SentIsReceived
  BY FlowIsSent DEF SSLInv
<1> QED BY <1>1, SSLInvariant, PTL

\* When a read until the end of data ends, all that the other end has written so far has
\* been received: nothing is left behind the end (iores.cpp:78, iompls.cpp:48).
THEOREM TheEndIsTheEnd == SafeSpec => EndIsTheEnd
<1> DEFINE End == \A e \in Ends : Ended(e) /\ Op(e).kind = "toend" => received'[e] = sent[1 - e]
<1>1. SSLInv /\ [Next]_vars => [End]_vars
  <2> SUFFICES ASSUME SSLInv, [Next]_vars, ~UNCHANGED vars,
                      NEW x \in Ends, Ended(x), Op(x).kind = "toend"
               PROVE  received'[x] = sent[1 - x]
    BY Zenon
  <2>1. TypeOK /\ RawInv /\ EndInv /\ FlowInv
    BY DEF SSLInv
  <2>2. PICK e \in Ends : Steps(e)
    BY DEF Next
  <2>3. e = x
    <3>1. program[x] \in Seq(Operation) /\ program[x] # <<>> /\ program'[x] = Tail(program[x])
      BY <2>1 DEF Ended, TypeOK
    <3>2. program'[x] # program[x]
      BY <3>1, TailDiffers
    <3> QED BY <2>1, <2>2, <3>2, StepsAlone DEF OpAlone
  <2>4. Enter(x) /\ Eot(x) /\ ReadReturns(x, resd[x])
    BY <2>1, <2>2, <2>3, ToEndEnds
  <2>5. program[x] # <<>> /\ pc[x] # "begin" /\ resd[x] \in Seq(Byte)
    BY <2>1, <2>4, EnterCases DEF TypeOK
  <2>6. Held(x) = resd[x]
    BY <2>5 DEF Held, Writes
  <2>7. received'[x] = Taken(x)
    BY <2>1, <2>4, <2>5, <2>6, ToEndTakesAll, TakenIs, Zenon
  <2>8. Chain(Taken(x), <<>>, <<>>, <<>>, <<>>, <<>>) = sent[1 - x]
    <3>1. FlowOf(x) = sent[1 - x]
      BY <2>1, Zenon DEF FlowInv, Flow, FlowOf, Incoming, InRead, InChannel, InWrite
    <3> QED BY <2>1, <2>4, <3>1, NothingLeft, Zenon DEF FlowOf
  <2>9. Join(Taken(x), <<>>) = Taken(x)
    <3>1. Taken(x) \in Seq(Byte)
      BY <2>1, PlacesType
    <3> QED BY <3>1, JoinFacts, Zenon
  <2> QED BY <2>7, <2>8, <2>9, Zenon DEF Chain
<1>2. SafeSpec => [][End]_vars
  BY <1>1, SSLInvariant, PTL DEF SafeSpec
<1> QED BY <1>2 DEF EndIsTheEnd
==============================================================================
