------------------------ MODULE ConnectionCare_proofs -------------------------
(***************************************************************************)
(* Proofs about ConnectionCare and the resource it cares for, whatever the *)
(* client sends, however large the buffers are and whether the descriptor  *)
(* is blocking, can be polled, or not.                                     *)
(*                                                                         *)
(* What the resource, the epoll thread and cancel() do to one another does *)
(* not depend on the bytes: the first invariant is about control only.  The*)
(* second is about what is written: a response is the answer to a request, *)
(* and what has left the resource are whole responses but for the last.    *)
(* The third is about what is read: what is held, in readbuff, in the hands*)
(* of the body and in the kernel, is one piece of the wire up to what the  *)
(* client has sent, and begins where the care of the connection is in the  *)
(* request that is next.  From it follows the fourth: a 400 is for the     *)
(* headers of that request.                                                *)
(***************************************************************************)
EXTENDS ConnectionCare, SequenceFacts

\* An operation that waits, or is about to wait, or to look at what it has waited for.
InFlight == bpc \in {"enter", "check", "await"}

\* What may still tell an operation of an event: epoll is interested, its thread has the
\* event in hand, or engif has it.
Stated == interest \in {"in", "out"}
InHand == epc = "set"
Told == engif = "completed" /\ ev # "hup"

ControlTypes ==
  /\ interest \in {"new", "off", "in", "out", "never"}
  /\ epc \in {"wait", "set", "notify", "exit"} /\ event \in Events \cup {NoEvent}
  /\ engif \in {"running", "completed"} /\ ev \in Events \cup {NoEvent} /\ notes \in Nat
  /\ bpc \in {"idle", "enter", "io", "check", "await"}
  /\ pending \in {"no", "yes", "overwritten"} /\ cut \in Nat
  /\ dangling \subseteq {"completed", "notify"}

\* The generator has an operation while it is not idle, and the resource exists.
OperationInv ==
  /\ bpc = "idle" => op = NoOp
  /\ bpc # "idle" => op.kind \in {"read", "write"} /\ alive

\* A cancellation that is pending is in engif; only what epoll cannot watch may lose it, and
\* that does not wait.
CancelInv ==
  /\ pending = "yes" => bpc # "idle" /\ (interest = "never" \/ (engif = "completed" /\ ev = "hup"))
  /\ interest = "never" => bpc \notin {"check", "await"}
  /\ pending = "yes" /\ bpc = "await" => notes > 0

\* Until an operation ends on a cancellation there is one event at a time, of the kind that
\* the operation in flight has asked for.
EventInv ==
  /\ Stated => InFlight /\ interest = Wanted
  /\ InHand => InFlight /\ event \in {Wanted, "mixed"}
  /\ Told => InFlight /\ ev \in {Wanted, "mixed"}
  /\ ~(Stated /\ InHand) /\ ~(Stated /\ Told) /\ ~(InHand /\ Told)
  /\ interest = "new" \/ (bpc = "enter" /\ engif = "running") => ~InHand /\ ~Told
  /\ bpc = "enter" /\ engif = "running" => ~Stated
Undisturbed == cut = 0 => EventInv /\ ~wrong /\ "completed" \notin dangling

FileInv == ControlTypes /\ OperationInv /\ CancelInv /\ Undisturbed

\* The resource takes a step, or somebody else does.
controlVars == <<interest, epc, event, engif, ev, notes, bpc, op, alive, wrong, dangling,
                 pending, cut>>
Starts ==
  /\ bpc = "idle" /\ alive
  /\ op'.kind \in {"read", "write"} /\ bpc' = "enter"
  /\ UNCHANGED <<interest, epc, event, engif, ev, notes, alive, wrong, dangling, pending, cut>>
FileStep == Starts \/ Body \/ Epoll \/ Cancel \/ Release \/ Wioe \/ UNCHANGED controlVars
------------------------------------------------------------------------------
\* Only control matters.
LEMMA FileFrame ==
  ASSUME FileInv, UNCHANGED controlVars
  PROVE  FileInv'
BY DEF FileInv, ControlTypes, OperationInv, CancelInv, Undisturbed, EventInv, InFlight, Stated,
       InHand, Told, Wanted, Reading, controlVars

LEMMA InitFile == FileInit => FileInv
<1> SUFFICES ASSUME FileInit PROVE FileInv
  OBVIOUS
<1>1. /\ interest = "new" /\ epc = "wait" /\ event = NoEvent
      /\ engif = "running" /\ ev = NoEvent /\ notes = 0 /\ bpc = "idle" /\ op = NoOp
      /\ pending = "no" /\ cut = 0 /\ ~wrong /\ dangling = {}
  BY Zenon DEF FileInit
<1>2. ControlTypes /\ OperationInv /\ CancelInv
  BY <1>1 DEF ControlTypes, OperationInv, CancelInv
<1>3. EventInv
  BY <1>1 DEF EventInv, Stated, InHand, Told
<1> QED BY <1>1, <1>2, <1>3 DEF FileInv, Undisturbed

\* Whatever it comes to, an operation ends with nothing stated, in hand or told, as nothing
\* was when it went on with what it was told.
LEMMA Ending ==
  ASSUME FileInv, NEW result, Ends(result),
         UNCHANGED <<interest, epc, event, engif, ev, notes, alive, wrong, dangling, cut>>,
         ~InFlight
  PROVE  FileInv'
<1>1. ControlTypes' /\ OperationInv' /\ CancelInv'
  BY DEF FileInv, ControlTypes, OperationInv, CancelInv, Ends, Go
<1>2. Undisturbed'
  BY DEF FileInv, Undisturbed, EventInv, InFlight, Stated, InHand, Told, Ends, Go
<1> QED BY <1>1, <1>2 DEF FileInv

\* epollRearm(), of an operation that nothing tells of an event any more.
LEMMA Rearming ==
  ASSUME FileInv, Rearm, bpc \in {"enter", "io"}, bpc = "enter" => engif = "running",
         UNCHANGED <<epc, event, engif, ev, notes, alive, wrong, dangling, cut>>
  PROVE  FileInv'
<1>1. CASE interest = "never"
  BY <1>1 DEF Rearm, Fails, Ends, Go, FileInv, ControlTypes, OperationInv, CancelInv,
              Undisturbed, EventInv, InFlight, Stated, InHand, Told
<1>2. CASE interest # "never"
  BY <1>2 DEF Rearm, Continues, Go, FileInv, ControlTypes, OperationInv, CancelInv,
              Undisturbed, EventInv, InFlight, Stated, InHand, Told, Wanted, Reading
<1> QED BY <1>1, <1>2

LEMMA StartsKeeps == ASSUME FileInv, Starts PROVE FileInv'
<1>1. ControlTypes' /\ OperationInv' /\ CancelInv'
  BY DEF FileInv, ControlTypes, OperationInv, CancelInv, Starts
<1>2. Undisturbed'
  BY DEF FileInv, Undisturbed, EventInv, InFlight, Stated, InHand, Told, Starts
<1> QED BY <1>1, <1>2 DEF FileInv

LEMMA EnterKeeps == ASSUME FileInv, Enter PROVE FileInv'
<1>1. CASE Pollable
  BY <1>1 DEF FileInv, ControlTypes, OperationInv, CancelInv, Undisturbed, EventInv, InFlight,
              Stated, InHand, Told, Wanted, Reading, Enter, Go, Continues, epollVars, ticketVars
<1>2. CASE ~Pollable
  BY <1>2 DEF FileInv, ControlTypes, OperationInv, CancelInv, Undisturbed, EventInv, InFlight,
              Stated, InHand, Told, Wanted, Reading, Enter, Go, Continues, epollVars, ticketVars,
              Events, NoEvent
<1> QED BY <1>1, <1>2

\* The body takes what engif tells: a cancellation counts, and anything but its own event
\* can only come after one.
LEMMA LookKeeps == ASSUME FileInv, Look PROVE FileInv'
<1>1. CASE engif # "completed"
  BY <1>1, Rearming DEF Look, epollVars, ticketVars, FileInv, ControlTypes
<1>2. CASE engif = "completed" /\ ev = Wanted
  <2>1. /\ engif' = "running" /\ ev' = NoEvent /\ bpc' = "io" /\ bpc = "enter" /\ interest # "new"
        /\ UNCHANGED <<op, pending, wrong, cut, interest, epc, event, notes, alive, dangling>>
    <3>1. Wanted # "hup"
      BY DEF Wanted
    <3> QED BY <1>2, <3>1 DEF Look, Go, Continues, epollVars, ticketVars
  <2> QED BY <1>2, <2>1
          DEF FileInv, ControlTypes, OperationInv, CancelInv, Undisturbed, EventInv, InFlight,
              Stated, InHand, Told, Wanted
<1>3. CASE engif = "completed" /\ ev # Wanted
  <2>1. /\ engif' = "running" /\ ev' = NoEvent /\ bpc' = "idle" /\ bpc = "enter"
        /\ op' = NoOp /\ pending' = "no"
        /\ UNCHANGED <<interest, epc, event, notes, alive, dangling>>
    BY <1>3 DEF Look, Fails, Ends, Go, epollVars, ticketVars
  <2>2. \/ ev = "hup" /\ cut' = cut + 1
        \/ ev # "hup" /\ cut' = cut /\ wrong' = (wrong \/ ev # "mixed")
    BY <1>3 DEF Look
  <2>3. ControlTypes' /\ OperationInv' /\ CancelInv'
    BY <2>1, <2>2 DEF FileInv, ControlTypes, OperationInv, CancelInv
  <2>4. CASE ev = "hup"
    BY <2>2, <2>3, <2>4 DEF FileInv, ControlTypes, Undisturbed
  <2>5. CASE ev # "hup"
    <3> SUFFICES ASSUME cut = 0 PROVE EventInv' /\ ~wrong' /\ "completed" \notin dangling'
      BY <2>2, <2>3, <2>5 DEF FileInv, Undisturbed
    <3>1. Told /\ EventInv /\ ~wrong /\ "completed" \notin dangling
      BY <1>3, <2>5 DEF FileInv, Undisturbed, Told
    <3>2. ev = "mixed"
      BY <1>3, <3>1 DEF EventInv
    <3>3. ~wrong'
      BY <2>2, <2>5, <3>1, <3>2
    <3>4. EventInv'
      BY <2>1, <3>1 DEF EventInv, InFlight, Stated, InHand, Told
    <3> QED BY <2>1, <3>1, <3>3, <3>4
  <2> QED BY <2>4, <2>5
<1> QED BY <1>1, <1>2, <1>3

LEMMA CallKeeps == ASSUME FileInv, ReadCall \/ WriteCall PROVE FileInv'
<1>1. /\ bpc = "io"
      /\ UNCHANGED <<epc, event, engif, ev, notes, alive, wrong, dangling, cut>>
  BY DEF ReadCall, WriteCall, epollVars, engineVars, ticketVars
<1>2. \/ \E result : Ends(result) /\ UNCHANGED interest
      \/ UNCHANGED <<interest, bpc, op, pending>>
      \/ Rearm
  BY DEF ReadCall, WriteCall, Succeeds, Fails
<1>3. CASE \E result : Ends(result) /\ UNCHANGED interest
  BY <1>1, <1>3, Ending DEF InFlight
<1>4. CASE UNCHANGED <<interest, bpc, op, pending>>
  BY <1>1, <1>4, FileFrame DEF controlVars
<1>5. CASE Rearm
  BY <1>1, <1>5, Rearming
<1> QED BY <1>2, <1>3, <1>4, <1>5

LEMMA CheckKeeps == ASSUME FileInv, Check PROVE FileInv'
BY DEF FileInv, ControlTypes, OperationInv, CancelInv, Undisturbed, EventInv, InFlight, Stated,
       InHand, Told, Wanted, Reading, Check, Go, Continues, epollVars, engineVars, ticketVars

LEMMA NoteKeeps == ASSUME FileInv, Note PROVE FileInv'
BY DEF FileInv, ControlTypes, OperationInv, CancelInv, Undisturbed, EventInv, InFlight, Stated,
       InHand, Told, Wanted, Reading, Note, Go, Continues, epollVars, engineVars, ticketVars

LEMMA EpollKeeps == ASSUME FileInv, Epoll PROVE FileInv'
<1>1. CASE EpollWait
  BY <1>1 DEF FileInv, ControlTypes, OperationInv, CancelInv, Undisturbed, EventInv, InFlight,
              Stated, InHand, Told, Wanted, Reading, Events, NoEvent,
              EpollWait, Ready, engineVars, bodyVars, ticketVars
<1>2. CASE EpollSet
  <2>1. /\ epc = "set" /\ epc' = "notify" /\ event' = NoEvent
        /\ UNCHANGED <<interest, notes, bpc, op, alive, wrong, cut>>
    BY <1>2 DEF EpollSet, bodyVars, ticketVars
  <2>2. CASE alive
    <3>1. Complete(event) /\ dangling' = dangling
      BY <1>2, <2>2 DEF EpollSet
    <3>2. ControlTypes' /\ OperationInv' /\ CancelInv'
      BY <2>1, <3>1 DEF FileInv, ControlTypes, OperationInv, CancelInv, Complete
    <3>3. EventInv => EventInv'
      BY <2>1, <3>1 DEF EventInv, InFlight, Stated, InHand, Told, Wanted, Reading, Complete
    <3> QED BY <2>1, <3>1, <3>2, <3>3 DEF FileInv, Undisturbed
  <2>3. CASE ~alive
    <3>1. dangling' = dangling \cup {"completed"} /\ UNCHANGED <<engif, ev, pending>>
      BY <1>2, <2>3 DEF EpollSet
    <3>2. cut # 0
      BY <2>1, <2>3 DEF FileInv, OperationInv, Undisturbed, EventInv, InHand, InFlight
    <3>3. ControlTypes' /\ OperationInv' /\ CancelInv'
      BY <2>1, <3>1 DEF FileInv, ControlTypes, OperationInv, CancelInv
    <3> QED BY <2>1, <3>2, <3>3 DEF FileInv, Undisturbed
  <2> QED BY <2>2, <2>3
<1>3. CASE EpollNotify
  <2>1. dangling' \subseteq {"completed", "notify"} /\ ("completed" \in dangling' => "completed" \in dangling)
    <3>1. dangling' = dangling \/ dangling' = dangling \cup {"notify"}
      BY <1>3 DEF EpollNotify
    <3>2. dangling \subseteq {"completed", "notify"}
      BY DEF FileInv, ControlTypes
    <3> QED BY <3>1, <3>2
  <2>2. notes' \in Nat /\ notes' >= notes
    BY <1>3 DEF FileInv, ControlTypes, EpollNotify
  <2>3. /\ epc = "notify" /\ epc' = "wait"
        /\ UNCHANGED <<interest, event, engif, ev, bpc, op, alive, wrong, pending, cut>>
    BY <1>3 DEF EpollNotify, bodyVars, ticketVars
  <2>4. ControlTypes' /\ OperationInv' /\ CancelInv'
    BY <2>1, <2>2, <2>3 DEF FileInv, ControlTypes, OperationInv, CancelInv
  <2>5. EventInv => EventInv'
    BY <2>3 DEF EventInv, InFlight, Stated, InHand, Told, Wanted, Reading
  <2> QED BY <2>1, <2>3, <2>4, <2>5 DEF FileInv, Undisturbed
<1>4. CASE EpollStops
  BY <1>4 DEF FileInv, ControlTypes, OperationInv, CancelInv, Undisturbed, EventInv, InFlight,
              Stated, InHand, Told, Wanted, Reading, EpollStops, engineVars, bodyVars
<1> QED BY <1>1, <1>2, <1>3, <1>4 DEF Epoll

LEMMA CancelKeeps == ASSUME FileInv, Cancel PROVE FileInv'
BY DEF FileInv, ControlTypes, OperationInv, CancelInv, Undisturbed, EventInv, InFlight, Stated,
       InHand, Told, Wanted, Reading, Events, Cancel, epollVars, bodyVars, ticketVars

LEMMA ReleaseKeeps == ASSUME FileInv, Release PROVE FileInv'
BY DEF FileInv, ControlTypes, OperationInv, CancelInv, Undisturbed, EventInv, InFlight, Stated,
       InHand, Told, Release, epollVars, engineVars, bodyVars

LEMMA FileStepKeeps == ASSUME FileInv, FileStep PROVE FileInv'
<1>1. CASE Wioe \/ UNCHANGED controlVars
  BY <1>1, FileFrame DEF Wioe, controlVars, epollVars, engineVars, bodyVars
<1>2. CASE Body
  BY <1>2, EnterKeeps, LookKeeps, CallKeeps, CheckKeeps, NoteKeeps DEF Body
<1> QED BY <1>1, <1>2, StartsKeeps, EpollKeeps, CancelKeeps, ReleaseKeeps DEF FileStep
------------------------------------------------------------------------------
\* The care of the connection does to the resource what the resource lets it.
LEMMA Submits ==
  ASSUME Started, NEW kind \in {"read", "write"}, NEW n, NEW bytes,
         Submit([kind |-> kind, n |-> n], bytes)
  PROVE  Starts
BY DEF Started, Submit, Starts, Go, epollVars, engineVars, ticketVars

LEMMA Rests == Rest => UNCHANGED controlVars
BY DEF Rest, fileVars, controlVars, epollVars, engineVars, bodyVars, ticketVars

LEMMA AskingStarts ==
  ASSUME NEW q, NEW buff, NEW place, Asks(q, buff, place)
  PROVE  FileStep
BY Submits, Rests DEF Asks, FileStep

LEMMA ReplyingStarts ==
  ASSUME NEW a, Replies(a)
  PROVE  FileStep
BY Submits DEF Replies, FileStep

LEMMA CareSteps == Care => FileStep
<1>1. Idle => FileStep
  BY AskingStarts DEF Idle
<1>2. Begin => FileStep
  BY AskingStarts, ReplyingStarts, Rests DEF Begin, Drops, FileStep
<1>3. ReadsOn => FileStep
  BY Submits DEF ReadsOn, FileStep
<1>4. \A verdict : Concludes(verdict) => FileStep
  BY Rests DEF Concludes, FileStep
<1>5. ReadTitle => FileStep
  BY <1>3, <1>4, AskingStarts DEF ReadTitle
<1>6. ReadHeaders => FileStep
  BY <1>3, <1>4, AskingStarts, Rests DEF ReadHeaders, FileStep
<1>7. ReadBody => FileStep
  BY <1>4 DEF ReadBody
<1>8. Take => FileStep
  BY ReplyingStarts, Rests DEF Take, Drops, FileStep
<1>9. Respond => FileStep
  BY ReplyingStarts DEF Respond
<1>10. Written => FileStep
  BY Rests DEF Written, Drops, FileStep
<1>11. LetGo => FileStep
  BY DEF LetGo, FileStep
<1> QED BY <1>1, <1>2, <1>5, <1>6, <1>7, <1>8, <1>9, <1>10, <1>11 DEF Care

LEMMA NextSteps == [Next]_vars => FileStep
<1>1. UNCHANGED vars => FileStep
  BY Rests DEF vars, Rest, FileStep
<1>2. Fire \/ ShutFlag \/ ShutSwap => FileStep
  BY Rests DEF Fire, ShutFlag, ShutSwap, Rest, FileStep
<1>3. FireCancels \/ ShutCancel \/ ShutTimers \/ ShutWioe => FileStep
  BY DEF FireCancels, ShutCancel, ShutTimers, ShutWioe, FileStep
<1>4. Client => FileStep
  BY DEF Client, Elsewhere, PeerKeeps, FileStep, controlVars, epollVars, engineVars, bodyVars,
         ticketVars
<1>5. (Body \/ Epoll) => FileStep
  BY DEF FileStep
<1> QED BY <1>1, <1>2, <1>3, <1>4, <1>5, CareSteps DEF Next, Main

LEMMA FileInvariance == Spec => []FileInv
<1>1. Init => FileInv
  BY InitFile DEF Init
<1>2. FileInv /\ [Next]_vars => FileInv'
  BY NextSteps, FileStepKeeps
<1> QED BY <1>1, <1>2, PTL DEF Spec, SafeSpec
------------------------------------------------------------------------------
\* The rest of the types: of the peer, the tickets, the places, and what is true or false.
PlaceTypes ==
  /\ peer \in {"open", "closed", "reset"}
  /\ wpc \in {"up", "asleep", "wioe", "stop", "down"}
  /\ at \in {"care", "peek", "title", "headers", "body", "read", "serve", "write", "done"}
  /\ mpc \in {"up", "swap", "cancel", "ticktack", "wioe"}
Ticket == (alive /\ tickets = 1) \/ (~alive /\ tickets = 0)
FileSwitches == alive \in BOOLEAN /\ wrong \in BOOLEAN
CareSwitches ==
  /\ kal \in BOOLEAN /\ idle \in BOOLEAN /\ timer \in BOOLEAN /\ due \in BOOLEAN
  /\ sdown \in BOOLEAN /\ ridle \in BOOLEAN /\ late \in BOOLEAN

\* What the care of the connection leaves of the resource.
CareLeaves == \/ Started
              \/ UNCHANGED <<kernelVars, ticketVars, wrong, dangling>>
              \/ Release
LEMMA CareIsLight == Care => CareLeaves
<1> USE DEF CareLeaves
<1>1. Rest => CareLeaves
  BY DEF Rest, fileVars
<1>2. \A q, buff, place : Asks(q, buff, place) => CareLeaves
  BY <1>1 DEF Asks
<1>3. \A a : Replies(a) => CareLeaves
  BY DEF Replies
<1>4. ReadsOn => CareLeaves
  BY DEF ReadsOn
<1>5. \A verdict : Concludes(verdict) => CareLeaves
  BY <1>1 DEF Concludes
<1>6. Drops => CareLeaves
  BY <1>1 DEF Drops
<1>7. Idle \/ Begin \/ ReadTitle \/ ReadHeaders \/ ReadBody => CareLeaves
  BY <1>1, <1>2, <1>3, <1>4, <1>5, <1>6 DEF Idle, Begin, ReadTitle, ReadHeaders, ReadBody
<1>8. Take \/ Respond \/ Written \/ LetGo => CareLeaves
  BY <1>1, <1>3, <1>6 DEF Take, Respond, Written, LetGo
<1> QED BY <1>7, <1>8 DEF Care

LEMMA TicketKeeps == Ticket /\ [Next]_vars => Ticket'
<1> SUFFICES ASSUME Ticket, [Next]_vars PROVE Ticket'
  OBVIOUS
<1>1. ASSUME UNCHANGED <<alive, tickets>> PROVE Ticket'
  BY <1>1 DEF Ticket
<1>2. ASSUME Release PROVE Ticket'
  BY <1>2 DEF Release, Ticket
<1>3. CASE Care
  BY <1>1, <1>2, <1>3, CareIsLight DEF CareLeaves, Started, ticketVars
<1>4. CASE Body \/ Epoll
  <2>1. Body => UNCHANGED <<alive, tickets>>
    BY DEF Body, Enter, Look, ReadCall, WriteCall, Check, Note, ticketVars
  <2>2. Epoll => UNCHANGED <<alive, tickets>>
    BY DEF Epoll, EpollWait, EpollSet, EpollNotify, EpollStops, ticketVars
  <2> QED BY <1>1, <1>4, <2>1, <2>2
<1>5. CASE Fire \/ ShutFlag \/ ShutSwap \/ UNCHANGED vars
  BY <1>1, <1>5 DEF Fire, ShutFlag, ShutSwap, vars, fileVars, ticketVars
<1>6. CASE FireCancels \/ ShutCancel \/ ShutTimers \/ ShutWioe
  BY <1>1, <1>6 DEF FireCancels, ShutCancel, ShutTimers, ShutWioe, Cancel, Wioe, ticketVars
<1>7. CASE Client
  BY <1>1, <1>7 DEF Client, Elsewhere, PeerKeeps, ticketVars
<1> QED BY <1>3, <1>4, <1>5, <1>6, <1>7 DEF Next, Main

LEMMA PlaceKeeps == PlaceTypes /\ [Next]_vars => PlaceTypes'
<1> SUFFICES ASSUME PlaceTypes, [Next]_vars PROVE PlaceTypes'
  OBVIOUS
<1>1. CASE Care
  <2>1. UNCHANGED mpc
    BY <1>1 DEF Care, Idle, Begin, ReadTitle, ReadHeaders, ReadBody, Take, Respond, Written,
                LetGo, ReadKeeps, shutVars
  <2>2. peer' = peer /\ wpc' \in {wpc, "wioe"}
    BY <1>1, CareIsLight DEF CareLeaves, Started, Release, kernelVars, ticketVars
  <2>3. at' \in {"care", "peek", "title", "headers", "body", "read", "serve", "write", "done"}
    BY <1>1 DEF Care, Idle, Begin, ReadTitle, ReadHeaders, ReadBody, Take, Respond, Written,
                LetGo, Asks, ReadsOn, Concludes, Replies, Drops, careVars, PlaceTypes
  <2> QED BY <2>1, <2>2, <2>3 DEF PlaceTypes
<1>2. CASE (Body \/ Epoll) /\ CareKeeps
  <2>1. Body => UNCHANGED <<peer, wpc>>
    BY DEF Body, Enter, Look, ReadCall, WriteCall, Check, Note, kernelVars, ticketVars
  <2>2. Epoll => peer' = peer /\ wpc' \in {wpc, "down"}
    BY DEF Epoll, EpollWait, EpollSet, EpollNotify, EpollStops, kernelVars, ticketVars
  <2> QED BY <1>2, <2>1, <2>2 DEF CareKeeps, careVars, shutVars, PlaceTypes
<1>3. CASE Fire \/ ShutFlag \/ ShutSwap \/ UNCHANGED vars
  BY <1>3 DEF Fire, ShutFlag, ShutSwap, vars, fileVars, careVars, shutVars, kernelVars,
              ticketVars, PlaceTypes
<1>4. CASE FireCancels \/ ShutCancel
  BY <1>4 DEF FireCancels, ShutCancel, Cancel, careVars, shutVars, kernelVars, ticketVars,
              PlaceTypes
<1>5. CASE ShutTimers \/ ShutWioe
  BY <1>5 DEF ShutTimers, ShutWioe, Wioe, careVars, shutVars, kernelVars, PlaceTypes
<1>6. CASE Client
  BY <1>6 DEF Client, ClientSends, ClientReceives, ClientEnds, ClientResets, PeerSends,
              PeerReceives, PeerEnds, PeerResets, Elsewhere, PeerKeeps, careVars, shutVars,
              ticketVars, PlaceTypes
<1> QED BY <1>1, <1>2, <1>3, <1>4, <1>5, <1>6 DEF Next, Main

LEMMA SwitchesKeep ==
  FileSwitches /\ CareSwitches /\ [Next]_vars => FileSwitches' /\ CareSwitches'
<1> SUFFICES ASSUME FileSwitches, CareSwitches, [Next]_vars PROVE FileSwitches' /\ CareSwitches'
  OBVIOUS
<1>1. ASSUME UNCHANGED <<ticketVars, wrong>> PROVE FileSwitches'
  BY <1>1, Zenon DEF FileSwitches, ticketVars
<1>2. CASE Care
  <2>1. FileSwitches'
    BY <1>1, <1>2, CareIsLight, Zenon DEF CareLeaves, Started, Release, FileSwitches
  <2>2. kal' \in BOOLEAN
    BY <1>2, Zenon DEF Care, Idle, Begin, ReadTitle, ReadHeaders, ReadBody, Take, Respond,
                       Written, LetGo, ReadKeeps, careVars, CareSwitches
  <2>3. idle' \in BOOLEAN /\ late' \in BOOLEAN
    BY <1>2, Zenon DEF Care, Idle, Begin, ReadTitle, ReadHeaders, ReadBody, Take, Respond,
                       Written, LetGo, ReadKeeps, history, CareSwitches
  <2>4. timer' \in BOOLEAN
    BY <1>2, Zenon DEF Care, Idle, Begin, ReadTitle, ReadHeaders, ReadBody, Take, Respond,
                       Written, LetGo, ReadKeeps, timerVars, TimersRun, CareSwitches
  <2>5. UNCHANGED <<due, shutVars>>
    BY <1>2, Zenon DEF Care, Idle, Begin, ReadTitle, ReadHeaders, ReadBody, Take, Respond,
                       Written, LetGo, ReadKeeps, timerVars
  <2> QED BY <2>1, <2>2, <2>3, <2>4, <2>5, Zenon DEF shutVars, CareSwitches
<1>3. CASE (Body \/ Epoll) /\ CareKeeps
  <2>1. Body => FileSwitches'
    BY <1>1, Zenon DEF Body, Enter, Look, ReadCall, WriteCall, Check, Note, ticketVars, FileSwitches
  <2>2. Epoll => FileSwitches'
    BY Zenon DEF Epoll, EpollWait, EpollSet, EpollNotify, EpollStops, ticketVars, FileSwitches
  <2>3. CareSwitches'
    BY <1>3, Zenon DEF CareKeeps, careVars, timerVars, shutVars, history, CareSwitches
  <2> QED BY <1>3, <2>1, <2>2, <2>3
<1>4. CASE Fire \/ ShutFlag \/ ShutSwap \/ UNCHANGED vars
  <2>1. FileSwitches'
    BY <1>1, <1>4, Zenon DEF Fire, ShutFlag, ShutSwap, vars, fileVars
  <2>2. CareSwitches'
    BY <1>4, Zenon DEF Fire, ShutFlag, ShutSwap, vars, careVars, timerVars, shutVars, history,
                       CareSwitches
  <2> QED BY <2>1, <2>2
<1>5. CASE FireCancels \/ ShutCancel \/ ShutTimers \/ ShutWioe
  <2>1. FileSwitches'
    BY <1>1, <1>5, Zenon DEF FireCancels, ShutCancel, ShutTimers, ShutWioe, Cancel, Wioe,
                             FileSwitches
  <2>2. CareSwitches'
    BY <1>5, Zenon DEF FireCancels, ShutCancel, ShutTimers, ShutWioe, careVars, timerVars,
                       shutVars, history, CareSwitches
  <2> QED BY <2>1, <2>2
<1>6. CASE Client
  <2>1. FileSwitches'
    BY <1>1, <1>6, Zenon DEF Client, Elsewhere, PeerKeeps
  <2>2. CareSwitches'
    BY <1>6, Zenon DEF Client, Elsewhere, careVars, timerVars, shutVars, history, CareSwitches
  <2> QED BY <2>1, <2>2
<1> QED BY <1>2, <1>3, <1>4, <1>5, <1>6, Zenon DEF Next, Main
------------------------------------------------------------------------------
\* The resource, the timers and the care of a connection keep their types and there is one
\* ticket for the resource while it exists, whatever the client sends (io.cpp 395-402).
THEOREM ConnectionTypeOK == Spec => []TypeOK
<1> DEFINE TypesInv == Ticket /\ PlaceTypes /\ FileSwitches /\ CareSwitches
<1>1. Init => TypesInv
  <2> SUFFICES ASSUME Init PROVE TypesInv
    OBVIOUS
  <2>1. Ticket /\ PlaceTypes
    BY DEF Init, FileInit, Ticket, PlaceTypes
  <2>2. FileSwitches /\ CareSwitches
    BY Zenon DEF Init, FileInit, FileSwitches, CareSwitches
  <2> QED BY <2>1, <2>2
<1>2. TypesInv /\ [Next]_vars => TypesInv'
  BY TicketKeeps, PlaceKeeps, SwitchesKeep
<1>3. FileInv /\ TypesInv => TypeOK
  <2> SUFFICES ASSUME FileInv, TypesInv PROVE TypeOK
    OBVIOUS
  <2>1. \A b \in {alive, wrong, kal, idle, timer, due, sdown, ridle, late} : b \in BOOLEAN
    BY Zenon DEF FileSwitches, CareSwitches
  <2>2. tickets \in {0, 1}
    BY DEF Ticket
  <2> QED BY <2>1, <2>2 DEF TypeOK, FileInv, ControlTypes, PlaceTypes
<1>4. Spec => []TypesInv
  BY <1>1, <1>2, PTL DEF Spec, SafeSpec
<1> QED BY <1>3, <1>4, FileInvariance, PTL

\* As long as no operation has ended on a cancellation, body and epoll thread never hand an
\* operation the event of an earlier one through the one engif (io.cpp 42-55, 175-199).
THEOREM EventsAreOnesOwn == Spec => []WrongEventOnlyAfterCancel
<1>1. FileInv => WrongEventOnlyAfterCancel
  BY DEF FileInv, ControlTypes, Undisturbed, WrongEventOnlyAfterCancel
<1> QED BY <1>1, FileInvariance, PTL

\* And as long, an event of epoll finds the resource that is registered with it and completes
\* its engif, whatever the descriptor and the wire (io.cpp 43, 119-127, 450); whether the
\* resource is still there when the engine is notified of that is another matter.
THEOREM RegisteredResourceExists == Spec => []EventsFindTheirResource
<1>1. FileInv => EventsFindTheirResource
  BY DEF FileInv, ControlTypes, Undisturbed, EventsFindTheirResource
<1> QED BY <1>1, FileInvariance, PTL

\* An operation that is cancelled is notified, whatever the epoll thread and the worker do
\* at the same time, unless the epoll thread has overwritten the cancellation (io.cpp 42-55).
THEOREM CancellationArrives == Spec => []CancelIsTaken
<1>1. FileInv => CancelIsTaken
  BY DEF FileInv, CancelInv, CancelIsTaken
<1> QED BY <1>1, FileInvariance, PTL
------------------------------------------------------------------------------
\* A connection that waits for a request is in the idle set until the shutdown takes it from
\* there, and then has been told, whether it has found out yet or not.
IdleInv ==
  /\ at = "peek" /\ mpc \in {"up", "swap"} => idle
  /\ at = "peek" /\ mpc \in {"ticktack", "wioe"} /\ InFlight => late \/ engif = "completed"

LEMMA BodyKeepsIdle == ASSUME Blocking, IdleInv, Body, CareKeeps PROVE IdleInv'
<1>1. UNCHANGED <<at, mpc, idle, late>>
  BY DEF CareKeeps, careVars, shutVars, history
<1>2. CASE Enter
  BY <1>1, <1>2 DEF Enter, Go, InFlight, IdleInv
<1>3. CASE Look
  BY <1>1, <1>3 DEF Look, Rearm, Fails, Ends, Go, InFlight, IdleInv
<1>4. CASE ReadCall \/ WriteCall
  <2>1. ~InFlight'
    BY <1>4 DEF ReadCall, WriteCall, Succeeds, Fails, Ends, Go, InFlight
  <2> QED BY <1>1, <2>1 DEF IdleInv
<1>5. CASE Check \/ Note
  BY <1>1, <1>5 DEF Check, Note, Go, InFlight, IdleInv, engineVars
<1> QED BY <1>2, <1>3, <1>4, <1>5 DEF Body

LEMMA CareKeepsIdle == ASSUME IdleInv, Care PROVE IdleInv'
<1>1. UNCHANGED mpc
  BY DEF Care, Idle, Begin, ReadTitle, ReadHeaders, ReadBody, Take, Respond, Written,
         LetGo, ReadKeeps, shutVars
<1>2. CASE Idle
  BY <1>1, <1>2 DEF Idle, IdleInv
<1>3. CASE LetGo
  BY <1>3 DEF LetGo, careVars, IdleInv
<1>4. CASE Begin \/ ReadTitle \/ ReadHeaders \/ ReadBody \/ Take \/ Respond \/ Written
  <2>1. at' # "peek"
    BY <1>4 DEF Begin, ReadTitle, ReadHeaders, ReadBody, Take, Respond, Written,
                Asks, ReadsOn, Concludes, Replies, Drops, At
  <2> QED BY <2>1 DEF IdleInv
<1> QED BY <1>2, <1>3, <1>4 DEF Care

\* A connection that waits when main has been through the idle set was told, unless it
\* became idle after that; for blocking descriptors, as those from accept() are: the worker
\* does not come back to wait for more from a read of one (preqh.cpp 54-62, 97, 126-137).
THEOREM IdleOnesAreTold == ASSUME Blocking PROVE Spec => []IdleIsTold
<1>1. Init => IdleInv
  BY DEF Init, IdleInv
<1>2. IdleInv /\ [Next]_vars => IdleInv'
  <2> SUFFICES ASSUME IdleInv, [Next]_vars PROVE IdleInv'
    OBVIOUS
  <2>1. CASE Epoll /\ CareKeeps
    <3>1. bpc' = bpc /\ engif' \in {engif, "completed"}
      BY <2>1 DEF Epoll, EpollWait, EpollSet, EpollNotify, EpollStops, Complete, engineVars, bodyVars
    <3> QED BY <2>1, <3>1 DEF CareKeeps, careVars, shutVars, history, InFlight, IdleInv
  <2>2. CASE Fire \/ ShutFlag \/ ShutSwap
    BY <2>2 DEF Fire, ShutFlag, ShutSwap, fileVars, careVars, shutVars, history, engineVars,
                bodyVars, InFlight, IdleInv
  <2>3. CASE FireCancels \/ ShutCancel
    BY <2>3 DEF FireCancels, ShutCancel, Cancel, careVars, shutVars, history, bodyVars,
                InFlight, IdleInv
  <2>4. CASE ShutTimers \/ ShutWioe
    BY <2>4 DEF ShutTimers, ShutWioe, Wioe, careVars, shutVars, history, engineVars, bodyVars,
                InFlight, IdleInv
  <2>5. CASE Client \/ UNCHANGED vars
    <3>1. UNCHANGED <<engineVars, bodyVars, careVars, idle, shutVars, history>>
      BY <2>5 DEF Client, Elsewhere, PeerKeeps, vars, fileVars
    <3> QED BY <3>1 DEF careVars, shutVars, history, engineVars, bodyVars, InFlight, IdleInv
  <2> QED BY <2>1, <2>2, <2>3, <2>4, <2>5, BodyKeepsIdle, CareKeepsIdle DEF Next, Main
<1>3. IdleInv => IdleIsTold
  BY DEF IdleInv, IdleIsTold, Waits, InFlight
<1> QED BY <1>1, <1>2, <1>3, PTL DEF Spec, SafeSpec
------------------------------------------------------------------------------
\* What was answered and what was handled, at each place of the care.  A connection that may
\* stay has no error behind it.
AnswersInv ==
  /\ at = "serve" => handled = Append(answers, line)
  /\ at \notin {"serve", "write", "done"} => answers = handled
  /\ at \in {"write", "done"} =>
       \/ answers = handled
       \/ \E error \in {"408", "400"} : answers = Append(handled, <<error>>)
  /\ at = "write" /\ kal => answers = handled
  /\ at \in {"title", "headers", "body", "read", "serve"} => kal = FALSE

\* Each operation belongs to a place.
PlaceInv ==
  /\ op.kind = "write" => at = "write"
  /\ op.kind = "read" => at \in {"peek", "title", "headers", "body"}

\* What has left the resource.
Received == got \o outq

\* What was received, or can be, and what the write under way still has, are the responses;
\* when a write has failed, it is a part of them, and there is no other write.
StreamInv ==
  peer # "reset" =>
    /\ at \notin {"write", "done"} => Received = Flat(answers)
    /\ op.kind = "write" => Received \o data = Flat(answers)
    /\ at = "write" /\ bpc = "idle" /\ res.ok => Received = Flat(answers)
    /\ IsPrefix(Received, Flat(answers))

\* V has all that was handled, answered and written in it.
SequencesOf(V) ==
  /\ "end" \in V
  /\ handled \in Seq(V) /\ answers \in Seq(V)
  /\ got \in Seq(V) /\ outq \in Seq(V)
  /\ op.kind = "write" => data \in Seq(V)
Sequences == \E V : SequencesOf(V)
------------------------------------------------------------------------------
LEMMA PlaceSteps ==
  ASSUME FileInv, PlaceInv, [Next]_vars
  PROVE  PlaceInv'
<1>1. CASE UNCHANGED <<op, at>>
  BY <1>1 DEF PlaceInv
<1>2. ASSUME NEW result, Ends(result) PROVE PlaceInv'
  BY <1>2 DEF Ends, PlaceInv, NoOp
<1>3. Body /\ CareKeeps => UNCHANGED <<op, at>> \/ \E result : Ends(result)
  BY Zenon DEF Body, CareKeeps, careVars, Enter, Look, ReadCall, WriteCall, Check, Note, Rearm,
         Continues, Succeeds, Fails
<1>4. Epoll /\ CareKeeps => UNCHANGED <<op, at>>
  BY Zenon DEF Epoll, CareKeeps, careVars, bodyVars, EpollWait, EpollSet, EpollNotify, EpollStops
<1>5. Fire \/ FireCancels \/ ShutFlag \/ Main => UNCHANGED <<op, at>>
  BY Zenon DEF Fire, FireCancels, ShutFlag, Main, ShutSwap, ShutCancel, ShutTimers, ShutWioe,
         careVars, fileVars, bodyVars, Cancel, Wioe
<1>6. Client => UNCHANGED <<op, at>>
  BY Zenon DEF Client, Elsewhere, careVars, PeerKeeps, bodyVars
<1>7. UNCHANGED vars => UNCHANGED <<op, at>>
  BY Zenon DEF vars, careVars, fileVars, bodyVars
<1>8. CASE Care
  <2>1. bpc = "idle" => op = NoOp
    BY DEF FileInv, OperationInv
  <2>2. ASSUME NEW q, NEW buff, NEW place \in {"peek", "title", "headers", "body"},
               op = NoOp, Asks(q, buff, place)
        PROVE  PlaceInv'
    BY <2>2 DEF Asks, Rest, fileVars, bodyVars, Submit, PlaceInv, NoOp
  <2>3. ASSUME NEW a, Replies(a) PROVE PlaceInv'
    BY <2>3 DEF Replies, Submit, PlaceInv
  <2>4. ASSUME op = NoOp, Rest PROVE PlaceInv'
    BY <2>4 DEF Rest, fileVars, bodyVars, PlaceInv, NoOp
  <2>5. ASSUME ReadsOn, at \in {"title", "headers"} PROVE PlaceInv'
    BY <2>5 DEF ReadsOn, Submit, PlaceInv
  <2>6. CASE Idle \/ Begin
    BY <2>1, <2>2, <2>3, <2>4, <2>6 DEF Idle, Begin, OnWorker, Drops
  <2>7. CASE ReadTitle \/ ReadHeaders
    BY <2>1, <2>2, <2>4, <2>5, <2>7 DEF ReadTitle, ReadHeaders, At, OnWorker, Concludes
  <2>8. CASE ReadBody \/ Take \/ Respond \/ Written
    BY <2>1, <2>3, <2>4, <2>8 DEF ReadBody, Take, Respond, Written, At, OnWorker, Concludes, Drops
  <2>9. CASE LetGo
    BY <2>9 DEF LetGo, Release, bodyVars, careVars, PlaceInv
  <2> QED BY <1>8, <2>6, <2>7, <2>8, <2>9 DEF Care
<1> QED BY <1>1, <1>2, <1>3, <1>4, <1>5, <1>6, <1>7, <1>8 DEF Next

LEMMA AnswersSteps ==
  ASSUME FileInv, AnswersInv, [Next]_vars
  PROVE  AnswersInv'
<1>1. ASSUME UNCHANGED <<handled, answers, line, kal, at>> PROVE AnswersInv'
  BY <1>1 DEF AnswersInv
<1>2. (Body \/ Epoll) /\ CareKeeps => UNCHANGED <<handled, answers, line, kal, at>>
  BY Zenon DEF CareKeeps, careVars, history
<1>3. Fire \/ FireCancels \/ ShutFlag \/ Main => UNCHANGED <<handled, answers, line, kal, at>>
  BY Zenon DEF Fire, FireCancels, ShutFlag, Main, ShutSwap, ShutCancel, ShutTimers, ShutWioe,
         careVars, history
<1>4. Client \/ UNCHANGED vars => UNCHANGED <<handled, answers, line, kal, at>>
  BY Zenon DEF Client, Elsewhere, careVars, history, vars
<1>5. CASE Idle
  BY <1>5 DEF Idle, Asks, AnswersInv
<1>6. CASE Begin
  <2>1. /\ at = "peek" /\ kal' = FALSE /\ UNCHANGED <<line, handled>>
        /\ \/ at' = "title" /\ UNCHANGED answers
           \/ at' = "write" /\ answers' = Append(answers, <<"408">>)
           \/ at' = "done" /\ UNCHANGED answers
    BY <1>6 DEF Begin, Asks, Replies, Drops
  <2> QED BY <2>1 DEF AnswersInv
<1>7. CASE ReadTitle \/ ReadHeaders \/ ReadBody
  <2>1. /\ at \in {"title", "headers", "body"} /\ at' \in {"title", "headers", "body", "read"}
        /\ UNCHANGED <<kal, handled, answers>>
    BY <1>7 DEF ReadTitle, ReadHeaders, ReadBody, At, ReadKeeps, history, ReadsOn, Asks, Concludes
  <2> QED BY <2>1 DEF AnswersInv
<1>8. CASE Take
  <2>1. /\ at = "read" /\ UNCHANGED <<line, kal>>
        /\ \/ at' = "serve" /\ handled' = Append(handled, line) /\ UNCHANGED answers
           \/ /\ at' = "write" /\ UNCHANGED handled
              /\ \E error \in {"408", "400"} : answers' = Append(answers, <<error>>)
           \/ at' = "done" /\ UNCHANGED <<handled, answers>>
    BY <1>8 DEF Take, At, Replies, Drops
  <2> QED BY <2>1 DEF AnswersInv
<1>9. CASE Respond
  <2>1. /\ at = "serve" /\ at' = "write" /\ answers' = Append(answers, line)
        /\ UNCHANGED <<line, handled>>
    BY <1>9 DEF Respond, At, Replies
  <2> QED BY <2>1 DEF AnswersInv
<1>10. CASE Written
  <2>1. /\ at = "write" /\ at' \in {"care", "done"} /\ (at' = "care" => kal)
        /\ UNCHANGED <<line, kal, handled, answers>>
    BY <1>10 DEF Written, At, Drops
  <2> QED BY <2>1 DEF AnswersInv
<1>11. LetGo => UNCHANGED <<handled, answers, line, kal, at>>
  BY DEF LetGo, careVars, history
<1> QED BY <1>1, <1>2, <1>3, <1>4, <1>5, <1>6, <1>7, <1>8, <1>9, <1>10, <1>11 DEF Next, Care
------------------------------------------------------------------------------
\* What a step is to the stream of responses: a response is begun, a piece of one is written,
\* the client receives what was, the connection is reset, or nothing.
Begins(a) ==
  /\ at \notin {"write", "done"} /\ at' = "write"
  /\ op'.kind = "write" /\ bpc' = "enter" /\ data' = Response(a)
  /\ answers' = Append(answers, a)
  /\ UNCHANGED <<got, outq, peer>>
Pushes ==
  /\ op.kind = "write" /\ at = "write" /\ at' = "write"
  /\ UNCHANGED <<got, answers, peer>>
  /\ \E k \in 1 .. Len(data) :
       /\ outq' = outq \o SubSeq(data, 1, k)
       /\ \/ k = Len(data) /\ op' = NoOp
          \/ op' = op /\ bpc' = bpc /\ bpc # "idle" /\ data' = SubSeq(data, k + 1, Len(data))
Arrives ==
  /\ got' = got \o outq /\ outq' = <<>>
  /\ UNCHANGED <<at, op, data, bpc, res, answers, peer>>
Silent ==
  /\ UNCHANGED <<got, outq, answers>>
  /\ peer' # "reset" => peer # "reset"
  /\ at' \notin {"write", "done"} =>
       at \notin {"write", "done"} \/ (at = "write" /\ bpc = "idle" /\ res.ok)
  /\ op'.kind = "write" => op.kind = "write" /\ data' = data
  /\ at' = "write" /\ bpc' = "idle" /\ res'.ok => at = "write" /\ bpc = "idle" /\ res.ok
Resets ==
  /\ peer' = "reset"
  /\ outq' = <<>>
  /\ UNCHANGED <<got, answers, op, data>>
Stream ==
  \/ \E a \in {line, <<"408">>, <<"400">>} : Begins(a)
  \/ Pushes \/ Arrives \/ Silent \/ Resets

\* The write under way writes a sequence.
SeqData == op.kind = "write" => \E V : data \in Seq(V) /\ outq \in Seq(V)

LEMMA StreamOfBody ==
  ASSUME FileInv, PlaceInv, SeqData, Body, CareKeeps
  PROVE  Stream
<1>1. UNCHANGED <<at, got, answers>>
  BY Zenon DEF CareKeeps, careVars, clientVars, history
<1>2. ASSUME UNCHANGED <<outq, peer>>, NEW why, Fails(why) PROVE Silent
  BY <1>1, <1>2 DEF Silent, Fails, Ends, NoOp
<1>3. ASSUME UNCHANGED <<outq, peer>>, Continues, bpc # "idle" \/ bpc' = bpc, bpc' # "idle" \/ bpc' = bpc
      PROVE  Silent
  BY <1>1, <1>3 DEF Silent, Continues
<1>4. CASE Enter
  BY <1>3, <1>4 DEF Enter, Go, kernelVars, Stream
<1>5. CASE Look
  BY <1>2, <1>3, <1>5 DEF Look, Rearm, Go, kernelVars, Stream
<1>6. CASE Check \/ Note
  BY <1>3, <1>6 DEF Check, Note, Go, kernelVars, Stream
<1>7. CASE ReadCall
  <2>1. at # "write" /\ op.kind = "read" /\ UNCHANGED <<outq, peer>>
    BY <1>7 DEF ReadCall, Reading, PlaceInv
  <2>2. op' = op \/ op' = NoOp
    BY <1>7 DEF ReadCall, Succeeds, Fails, Ends, Rearm, Continues
  <2>3. op'.kind # "write"
    BY <2>1, <2>2 DEF NoOp
  <2> QED BY <1>1, <2>1, <2>3 DEF Silent, Stream
<1>8. CASE WriteCall
  <2>1. bpc = "io" /\ op.kind = "write" /\ at = "write" /\ UNCHANGED peer
    BY <1>8 DEF WriteCall, Reading, FileInv, OperationInv, PlaceInv
  <2> DEFINE k == Least(Capacity - Len(outq), Len(data))
  <2>2. CASE Fails("write") /\ UNCHANGED outq
    BY <1>2, <2>1, <2>2 DEF Stream
  <2>3. CASE Rearm /\ UNCHANGED outq
    BY <1>2, <1>3, <2>1, <2>3 DEF Stream, Rearm, Go
  <2>4. CASE /\ k > 0 /\ outq' = outq \o SubSeq(data, 1, k)
             /\ IF SubSeq(data, k + 1, Len(data)) = <<>> THEN Succeeds(<<>>)
                ELSE data' = SubSeq(data, k + 1, Len(data)) /\ UNCHANGED <<bpc, op, res, pending>>
    <3>1. k \in 1 .. Len(data)
      <4>1. Len(data) \in Nat /\ Len(outq) \in Nat /\ Capacity \in Nat
        BY <2>1, FileAssumption DEF SeqData
      <4> QED BY <2>4, <4>1 DEF Least
    <3>2. CASE SubSeq(data, k + 1, Len(data)) = <<>>
      <4>1. k = Len(data)
        <5>1. PICK V : data \in Seq(V)
          BY <2>1 DEF SeqData
        <5>2. ASSUME NEW n \in 1 .. Len(data), SubSeq(data, n + 1, Len(data)) = <<>> PROVE n = Len(data)
          <6>1. Len(SubSeq(data, n + 1, Len(data))) = Len(data) - n
            BY <5>1
          <6> QED BY <5>1, <5>2, <6>1
        <5> QED BY <3>1, <3>2, <5>2
      <4> QED BY <1>1, <2>1, <2>4, <3>1, <3>2, <4>1 DEF Stream, Pushes, Succeeds, Ends
    <3>3. CASE SubSeq(data, k + 1, Len(data)) # <<>>
      BY <1>1, <2>1, <2>4, <3>1, <3>3 DEF Stream, Pushes
    <3> QED BY <3>2, <3>3
  <2> QED BY <1>8, <2>2, <2>3, <2>4 DEF WriteCall
<1> QED BY <1>4, <1>5, <1>6, <1>7, <1>8 DEF Body, Stream

LEMMA StreamOfCare ==
  ASSUME FileInv, PlaceInv, Care
  PROVE  Stream
<1>1. bpc = "idle" => op = NoOp
  BY DEF FileInv, OperationInv
<1>2. ASSUME UNCHANGED <<got, outq, peer, answers>>, op'.kind # "write", at' # "write",
             at' \notin {"write", "done"} => at \notin {"write", "done"} \/ (at = "write" /\ bpc = "idle" /\ res.ok)
      PROVE  Stream
  BY <1>2 DEF Stream, Silent
<1>3. ASSUME at \notin {"write", "done"}, UNCHANGED clientVars,
             NEW a \in {line, <<"408">>, <<"400">>}, Replies(a)
      PROVE  Stream
  BY <1>3 DEF Replies, Started, Submit, Go, kernelVars, clientVars, Stream, Begins
<1>4. ASSUME Rest, op = NoOp PROVE op'.kind # "write" /\ UNCHANGED <<outq, peer>>
  BY <1>4 DEF Rest, fileVars, bodyVars, kernelVars, NoOp
<1>5. ASSUME op = NoOp, NEW q, NEW buff, NEW place, Asks(q, buff, place)
      PROVE  op'.kind # "write" /\ UNCHANGED <<outq, peer>> /\ at' = place
  BY <1>4, <1>5 DEF Asks, Started, Submit, kernelVars
<1>6. ASSUME ReadsOn PROVE op'.kind # "write" /\ UNCHANGED <<outq, peer, at>>
  BY <1>6 DEF ReadsOn, Started, Submit, kernelVars
<1>7. ASSUME NEW verdict, Concludes(verdict), op = NoOp
      PROVE  op'.kind # "write" /\ UNCHANGED <<outq, peer>> /\ at' = "read"
  BY <1>4, <1>7 DEF Concludes
<1>8. CASE Idle
  BY <1>1, <1>2, <1>5, <1>8 DEF Idle, OnWorker, clientVars
<1>9. CASE Begin
  BY <1>1, <1>2, <1>3, <1>4, <1>5, <1>9 DEF Begin, OnWorker, clientVars, Drops
<1>10. CASE ReadTitle
  BY <1>1, <1>2, <1>5, <1>6, <1>7, <1>10 DEF ReadTitle, At, OnWorker, ReadKeeps, clientVars, history
<1>11. CASE ReadHeaders
  BY <1>1, <1>2, <1>4, <1>5, <1>6, <1>7, <1>11
     DEF ReadHeaders, At, OnWorker, ReadKeeps, clientVars, history
<1>12. CASE ReadBody
  BY <1>1, <1>2, <1>7, <1>12 DEF ReadBody, At, OnWorker, ReadKeeps, clientVars, history
<1>13. CASE Take
  BY <1>1, <1>2, <1>3, <1>4, <1>13 DEF Take, At, OnWorker, clientVars, Drops
<1>14. CASE Respond
  BY <1>1, <1>3, <1>14 DEF Respond, At, OnWorker
<1>15. CASE Written
  BY <1>1, <1>2, <1>4, <1>15 DEF Written, At, OnWorker, clientVars, Drops
<1>16. CASE LetGo
  BY <1>16 DEF LetGo, Release, kernelVars, bodyVars, careVars, clientVars, history, Stream, Silent
<1> QED BY <1>8, <1>9, <1>10, <1>11, <1>12, <1>13, <1>14, <1>15, <1>16 DEF Care

LEMMA StreamSteps ==
  ASSUME FileInv, PlaceInv, SeqData, [Next]_vars
  PROVE  Stream
<1>1. ASSUME UNCHANGED <<got, outq, peer, answers, at, op, data, bpc, res>> PROVE Stream
  BY <1>1 DEF Stream, Silent
<1>2. Epoll /\ CareKeeps => UNCHANGED <<got, outq, peer, answers, at, op, data, bpc, res>>
  BY Zenon DEF Epoll, CareKeeps, careVars, clientVars, history, kernelVars, bodyVars, EpollWait,
         EpollSet, EpollNotify, EpollStops
<1>3. Fire \/ FireCancels \/ ShutFlag \/ Main \/ UNCHANGED vars
        => UNCHANGED <<got, outq, peer, answers, at, op, data, bpc, res>>
  BY Zenon DEF Fire, FireCancels, ShutFlag, Main, ShutSwap, ShutCancel, ShutTimers, ShutWioe,
         careVars, fileVars, kernelVars, bodyVars, clientVars, history, Cancel, Wioe, vars
<1>4. CASE Client
  <2>1. UNCHANGED <<answers, at, op, data, bpc, res>>
    BY <1>4 DEF Client, Elsewhere, PeerKeeps, bodyVars, careVars, history
  <2>2. CASE ClientSends
    BY <2>1, <2>2 DEF ClientSends, PeerSends, Stream, Silent
  <2>3. CASE ClientReceives
    BY <2>1, <2>3 DEF ClientReceives, PeerReceives, Stream, Arrives
  <2>4. CASE ClientEnds
    BY <2>1, <2>4 DEF ClientEnds, PeerEnds, clientVars, Stream, Silent
  <2>5. CASE ClientResets
    BY <2>1, <2>5 DEF ClientResets, PeerResets, clientVars, Stream, Resets
  <2> QED BY <1>4, <2>2, <2>3, <2>4, <2>5 DEF Client
<1> QED BY <1>1, <1>2, <1>3, <1>4, StreamOfBody, StreamOfCare DEF Next
------------------------------------------------------------------------------
LEMMA SequencesMore ==
  ASSUME NEW V, NEW W, V \subseteq W, SequencesOf(V)
  PROVE  SequencesOf(W)
<1>1. Seq(V) \subseteq Seq(W)
  OBVIOUS
<1> QED BY <1>1 DEF SequencesOf

LEMMA SequencesStep ==
  ASSUME Sequences, Stream, handled' \in {handled, Append(handled, line)}
  PROVE  \E V : line \in V /\ <<"408">> \in V /\ <<"400">> \in V
                /\ SequencesOf(V) /\ SequencesOf(V)'
<1>1. PICK U : SequencesOf(U)
  BY DEF Sequences
<1>2. PICK V : V = U \cup {line, <<"408">>, <<"400">>}
  OBVIOUS
<1>3. "end" \in V /\ line \in V /\ <<"408">> \in V /\ <<"400">> \in V /\ SequencesOf(V)
  <2>1. SequencesOf(V)
    BY <1>1, <1>2, SequencesMore
  <2> QED BY <1>2, <2>1 DEF SequencesOf
<1>4. handled' \in Seq(V)
  <2>1. handled \in Seq(V) /\ line \in V
    BY <1>3 DEF SequencesOf
  <2>2. Append(handled, line) \in Seq(V)
    BY <2>1
  <2> QED BY <2>1, <2>2
<1>5. ASSUME NEW a \in V, Begins(a) PROVE SequencesOf(V)'
  <2>1. Response(a) \in Seq(V)
    BY <1>3 DEF Response
  <2> QED BY <1>3, <1>4, <1>5, <2>1 DEF SequencesOf, Begins
<1>6. CASE Pushes
  <2>1. answers \in Seq(V) /\ got \in Seq(V) /\ outq \in Seq(V) /\ data \in Seq(V)
        /\ "end" \in V
    BY <1>3, <1>6 DEF SequencesOf, Pushes
  <2>2. outq' \in Seq(V) /\ (op'.kind = "write" => data' \in Seq(V))
    <3>1. PICK k \in 1 .. Len(data) :
            /\ outq' = outq \o SubSeq(data, 1, k)
            /\ op' = NoOp \/ data' = SubSeq(data, k + 1, Len(data))
      BY <1>6 DEF Pushes
    <3>2. SubSeq(data, 1, k) \in Seq(V) /\ SubSeq(data, k + 1, Len(data)) \in Seq(V)
      BY <2>1
    <3>3. outq \o SubSeq(data, 1, k) \in Seq(V)
      BY <2>1, <3>2
    <3>4. CASE op' = NoOp
      BY <3>1, <3>3, <3>4 DEF NoOp
    <3> QED BY <3>1, <3>2, <3>3, <3>4
  <2>3. got' = got /\ answers' = answers
    BY <1>6 DEF Pushes
  <2>4. SequencesOf(V)'
    BY <1>4, <2>1, <2>2, <2>3 DEF SequencesOf
  <2> QED BY <1>3, <2>4
<1>7. CASE Arrives
  BY <1>3, <1>4, <1>7 DEF SequencesOf, Arrives
<1>8. CASE Silent
  BY <1>3, <1>4, <1>8 DEF SequencesOf, Silent
<1>9. CASE Resets
  <2>1. outq' \in Seq(V)
    BY <1>9 DEF Resets
  <2> QED BY <1>3, <1>4, <1>9, <2>1 DEF SequencesOf, Resets
<1> QED BY <1>3, <1>5, <1>6, <1>7, <1>8, <1>9 DEF Stream
------------------------------------------------------------------------------
LEMMA PrefixOfMore ==
  ASSUME NEW V, NEW s \in Seq(V), NEW t \in Seq(V)
  PROVE  IsPrefix(s, s) /\ IsPrefix(s, s \o t)
BY DEF IsPrefix

\* The responses one by one.
Each(s) == [i \in DOMAIN s |-> Response(s[i])]

LEMMA FlatAppend ==
  ASSUME NEW V, \A b \in V : Response(b) \in Seq(V), NEW s \in Seq(V), NEW a \in V
  PROVE  /\ Response(a) \in Seq(V)
         /\ Flat(s) \in Seq(V)
         /\ Flat(Append(s, a)) = Flat(s) \o Response(a)
<1>1. \A b \in V : Response(b) \in Seq(V)
  OBVIOUS
<1>2. ASSUME NEW t \in Seq(V)
      PROVE  /\ Each(t) \in Seq(Seq(V)) /\ DOMAIN Each(t) = 1 .. Len(t) /\ Len(Each(t)) = Len(t)
             /\ \A i \in 1 .. Len(t) : Each(t)[i] = Response(t[i])
  <2>1. DOMAIN t = 1 .. Len(t) /\ Len(t) \in Nat /\ \A i \in 1 .. Len(t) : t[i] \in V
    OBVIOUS
  <2>2. Each(t) \in [1 .. Len(t) -> Seq(V)]
    BY <1>1, <2>1 DEF Each
  <2>3. Each(t) \in Seq(Seq(V))
    <3> DEFINE n == Len(t)
               f == Each(t)
    <3>1. n \in Nat /\ f \in [1 .. n -> Seq(V)]
      BY <2>1, <2>2
    <3> HIDE DEF n, f
    <3>2. f \in Seq(Seq(V))
      BY <3>1
    <3> QED BY <3>2 DEF f
  <2> QED BY <2>1, <2>2, <2>3 DEF Each
<1>3. Each(Append(s, a)) = Append(Each(s), Response(a))
  <2> DEFINE t == Append(s, a)
             x == Each(t)
             y == Append(Each(s), Response(a))
  <2>1. /\ t \in Seq(V) /\ Len(t) = Len(s) + 1 /\ t[Len(s) + 1] = a
        /\ \A i \in 1 .. Len(s) : t[i] = s[i]
    OBVIOUS
  <2>2. /\ y \in Seq(Seq(V)) /\ Len(y) = Len(s) + 1 /\ y[Len(s) + 1] = Response(a)
        /\ \A i \in 1 .. Len(s) : y[i] = Response(s[i])
    BY <1>1, <1>2
  <2>3. x \in Seq(Seq(V)) /\ Len(x) = Len(s) + 1 /\ \A i \in 1 .. Len(s) + 1 : x[i] = Response(t[i])
    BY <1>2, <2>1
  <2>4. Len(s) \in Nat
    OBVIOUS
  <2> HIDE DEF t, x, y
  <2>5. \A i \in 1 .. Len(s) + 1 : x[i] = y[i]
    <3>1. ASSUME NEW i \in 1 .. Len(s) PROVE x[i] = y[i]
      BY <2>1, <2>2, <2>3, <2>4, <3>1
    <3>2. x[Len(s) + 1] = y[Len(s) + 1]
      BY <2>1, <2>2, <2>3, <2>4
    <3> QED BY <2>4, <3>1, <3>2
  <2>6. x = y
    BY <2>2, <2>3, <2>5
  <2> QED BY <2>6 DEF x, y, t
<1>4. Flat(s) = FlattenSeq(Each(s)) /\ Flat(Append(s, a)) = FlattenSeq(Each(Append(s, a)))
  BY DEF Flat, Each
<1>5. Flat(s) \in Seq(V)
  BY <1>2, <1>4, FlattenType
<1>6. FlattenSeq(Append(Each(s), Response(a))) = FlattenSeq(Each(s)) \o Response(a)
  BY <1>1, <1>2, FlattenAppend
<1> QED BY <1>1, <1>3, <1>4, <1>5, <1>6

LEMMA StreamKeeps ==
  ASSUME StreamInv, Sequences, Stream, PlaceInv, FileInv,
         NEW V, SequencesOf(V), SequencesOf(V)', line \in V, <<"408">> \in V, <<"400">> \in V
  PROVE  StreamInv'
<1> SUFFICES ASSUME peer' # "reset" PROVE StreamInv'
  BY DEF StreamInv
<1> DEFINE closed == \A b \in V : Response(b) \in Seq(V)
<1>1. /\ answers \in Seq(V) /\ got \in Seq(V) /\ outq \in Seq(V) /\ Received \in Seq(V)
  BY DEF SequencesOf, Received
<1>7. \A b, c, d \in Seq(V) : (b \o c) \o d = b \o (c \o d)
  BY Regroup
<1>6. closed
  BY DEF SequencesOf, Response
<1>2. CASE \E a \in {line, <<"408">>, <<"400">>} : Begins(a)
  <2>1. PICK a \in V : Begins(a)
    BY <1>2
  <2>2. /\ Response(a) \in Seq(V) /\ Flat(answers') = Flat(answers) \o Response(a)
        /\ Flat(answers) \in Seq(V)
    BY <1>1, <1>6, <2>1, FlatAppend DEF Begins
  <2>3. Received = Flat(answers) /\ Received' = Received
    BY <2>1 DEF Begins, StreamInv, Received
  <2>4. IsPrefix(Received', Flat(answers'))
    BY <2>2, <2>3, PrefixOfMore
  <2> QED BY <2>1, <2>2, <2>3, <2>4 DEF Begins, StreamInv
<1>3. CASE Pushes
  <2>1. PICK k \in 1 .. Len(data) :
          /\ outq' = outq \o SubSeq(data, 1, k)
          /\ \/ k = Len(data) /\ op' = NoOp
             \/ op' = op /\ bpc' = bpc /\ bpc # "idle" /\ data' = SubSeq(data, k + 1, Len(data))
    BY <1>3 DEF Pushes
  <2>2. /\ op.kind = "write" /\ at' = "write" /\ got' = got /\ Flat(answers') = Flat(answers)
        /\ peer # "reset"
    BY <1>3 DEF Pushes
  <2>3. Flat(answers) = Received \o data /\ data \in Seq(V)
    BY <2>2 DEF StreamInv, SequencesOf
  <2> DEFINE x == SubSeq(data, 1, k)
             y == SubSeq(data, k + 1, Len(data))
  <2>4. x \in Seq(V) /\ y \in Seq(V)
    BY <2>3
  <2>5. data = x \o y /\ (k = Len(data) => data = x)
    BY <2>3
  <2>6. Received' = got \o (outq \o x)
    BY <2>1, <2>2 DEF Received
  <2> HIDE DEF x, y
  <2>7. got \o (outq \o x) = (got \o outq) \o x
    <3>1. got \in Seq(V)
      BY <1>1
    <3>2. outq \in Seq(V)
      BY <1>1
    <3>3. x \in Seq(V)
      BY <2>4
    <3> QED BY <1>7, <3>1, <3>2, <3>3, Zenon
  <2>8. Received' = Received \o x
    BY <2>6, <2>7, Zenon DEF Received
  <2>9. Received \o (x \o y) = (Received \o x) \o y
    <3>1. Received \in Seq(V)
      BY <1>1
    <3>2. x \in Seq(V)
      BY <2>4
    <3>3. y \in Seq(V)
      BY <2>4
    <3> QED BY <1>7, <3>1, <3>2, <3>3, Zenon
  <2>10. Flat(answers) = Received' \o y
    BY <2>3, <2>5, <2>8, <2>9, Zenon
  <2>11. Received' \in Seq(V)
    BY <1>1, <2>4, <2>8
  <2>12. IsPrefix(Received', Flat(answers'))
    BY <2>2, <2>4, <2>10, <2>11, PrefixOfMore
  <2>13. CASE k = Len(data) /\ op' = NoOp
    <3>1. Received' = Flat(answers')
      BY <2>2, <2>3, <2>5, <2>8, <2>13, Zenon
    <3> QED BY <2>2, <2>12, <2>13, <3>1 DEF StreamInv, NoOp
  <2>14. CASE op' = op /\ bpc' = bpc /\ bpc # "idle" /\ data' = y
    BY <2>2, <2>10, <2>12, <2>14 DEF StreamInv
  <2> QED BY <2>1, <2>13, <2>14 DEF y
<1>4. CASE Arrives
  <2>1. got' \o outq' = got \o outq
    BY <1>1, <1>4 DEF Arrives
  <2> QED BY <1>4, <2>1 DEF Arrives, StreamInv, Received
<1>5. CASE Silent
  BY <1>5 DEF Silent, StreamInv, Received
<1> QED BY <1>2, <1>3, <1>4, <1>5 DEF Stream, Resets
------------------------------------------------------------------------------
\* All of it.
ResponseInv == PlaceInv /\ AnswersInv /\ Sequences /\ StreamInv

LEMMA ResponseInit == Init => ResponseInv
<1> SUFFICES ASSUME Init PROVE ResponseInv
  OBVIOUS
<1>1. /\ op = NoOp /\ bpc = "idle" /\ outq = <<>> /\ at = "care" /\ got = <<>>
      /\ handled = <<>> /\ answers = <<>>
  BY Zenon DEF Init, FileInit
<1>2. PlaceInv /\ AnswersInv
  BY <1>1 DEF PlaceInv, AnswersInv, NoOp
<1>3. SequencesOf({"end"})
  BY <1>1 DEF SequencesOf, NoOp
<1>4. Flat(<<>>) = <<>>
  <2>1. [i \in DOMAIN <<>> |-> Response(<<>>[i])] = <<>>
    OBVIOUS
  <2> QED BY <2>1, FlattenEmpty DEF Flat
<1>5. Received = <<>> /\ IsPrefix(<<>>, <<>>)
  BY <1>1 DEF Received, IsPrefix
<1>6. StreamInv
  BY <1>1, <1>4, <1>5, Zenon DEF StreamInv, NoOp
<1> QED BY <1>2, <1>3, <1>6 DEF ResponseInv, Sequences

LEMMA HandledSteps == [Next]_vars => handled' \in {handled, Append(handled, line)}
<1>1. Care => handled' \in {handled, Append(handled, line)}
  BY DEF Care, Idle, Begin, ReadTitle, ReadHeaders, ReadBody, ReadKeeps, Take, Respond, Written,
         LetGo, history
<1>2. Fire \/ FireCancels \/ ShutFlag \/ Main => UNCHANGED handled
  BY DEF Fire, FireCancels, ShutFlag, Main, ShutSwap, ShutCancel, ShutTimers, ShutWioe, history
<1> QED BY <1>1, <1>2 DEF Next, CareKeeps, Client, Elsewhere, history, vars

LEMMA ResponseSteps ==
  ASSUME FileInv, ResponseInv, [Next]_vars
  PROVE  ResponseInv'
<1>1. PlaceInv' /\ AnswersInv'
  BY PlaceSteps, AnswersSteps DEF ResponseInv
<1>2. SeqData
  BY DEF ResponseInv, Sequences, SequencesOf, SeqData
<1>3. Stream /\ handled' \in {handled, Append(handled, line)}
  BY <1>2, StreamSteps, HandledSteps DEF ResponseInv
<1>4. PICK V : line \in V /\ <<"408">> \in V /\ <<"400">> \in V
               /\ SequencesOf(V) /\ SequencesOf(V)'
  BY <1>3, SequencesStep DEF ResponseInv
<1>5. StreamInv'
  BY <1>3, <1>4, StreamKeeps DEF ResponseInv
<1>6. Sequences'
  BY <1>4 DEF Sequences
<1> QED BY <1>1, <1>5, <1>6 DEF ResponseInv

------------------------------------------------------------------------------
\* The search of a pattern finds the end of its first occurrence.
LEMMA FirstFound ==
  ASSUME NEW p, NEW buff, Occurrences(p, buff) \subseteq Nat \ {0}
  PROVE  \/ PatternEnd(p, buff) = 0 /\ Occurrences(p, buff) = {}
         \/ /\ PatternEnd(p, buff) \in Occurrences(p, buff)
            /\ \A j \in Occurrences(p, buff) : PatternEnd(p, buff) <= j
<1> DEFINE S == Occurrences(p, buff)
<1>1. CASE S = {}
  BY <1>1 DEF PatternEnd
<1>2. CASE S # {}
  <2>1. \E m \in S : \A n \in S : m <= n
    <3>1. S \in SUBSET Nat
      OBVIOUS
    <3> HIDE DEF S
    <3>2. PICK m \in S : \A n \in S : ~(n < m)
      BY <1>2, <3>1, LeastElement
    <3>3. \A n \in S : m <= n
      BY <3>1, <3>2
    <3> QED BY <3>3
  <2>2. PatternEnd(p, buff) = Min(S)
    BY <1>2 DEF PatternEnd
  <2>3. Min(S) \in S /\ \A n \in S : Min(S) <= n
    <3> HIDE DEF S
    <3> QED BY <2>1 DEF Min
  <2> QED BY <2>2, <2>3
<1> QED BY <1>1, <1>2

\* Where a pattern of one unit is, and of two that are the same.
LEMMA OneFound ==
  ASSUME NEW V, NEW buff \in Seq(V), NEW c
  PROVE  Occurrences(<<c>>, buff) = {j \in 1 .. Len(buff) : buff[j] = c}
<1>1. Len(<<c>>) = 1
  OBVIOUS
<1>2. ASSUME NEW j \in 1 .. Len(buff)
      PROVE  SubSeq(buff, j - Len(<<c>>) + 1, j) = <<c>> <=> buff[j] = c
  <2> DEFINE x == SubSeq(buff, j, j)
  <2>1. x \in Seq(V) /\ Len(x) = 1 /\ x[1] = buff[j]
    OBVIOUS
  <2>2. x = <<buff[j]>>
    <3> HIDE DEF x
    <3> QED BY <2>1
  <2>3. j - Len(<<c>>) + 1 = j
    OBVIOUS
  <2> QED BY <2>2, <2>3
<1> QED BY <1>1, <1>2 DEF Occurrences

LEMMA TwoFound ==
  ASSUME NEW V, NEW buff \in Seq(V), NEW c
  PROVE  Occurrences(<<c, c>>, buff) = {j \in 2 .. Len(buff) : buff[j - 1] = c /\ buff[j] = c}
<1>1. Len(<<c, c>>) = 2
  OBVIOUS
<1>2. ASSUME NEW j \in 2 .. Len(buff)
      PROVE  SubSeq(buff, j - Len(<<c, c>>) + 1, j) = <<c, c>> <=> buff[j - 1] = c /\ buff[j] = c
  <2> DEFINE x == SubSeq(buff, j - 1, j)
  <2>1. x \in Seq(V) /\ Len(x) = 2
    OBVIOUS
  <2>4. x[1] = buff[j - 1] /\ x[2] = buff[j - 1 + 1] /\ j - 1 + 1 = j
    OBVIOUS
  <2>2. x = <<buff[j - 1], buff[j]>>
    <3> HIDE DEF x
    <3> QED BY <2>1, <2>4
  <2>3. j - Len(<<c, c>>) + 1 = j - 1
    OBVIOUS
  <2> QED BY <2>2, <2>3
<1> QED BY <1>1, <1>2 DEF Occurrences

\* What each operation leaves in the buffer, and its result.
LEMMA PeekOutcome ==
  ASSUME NEW n, NEW buff, NEW rd
  PROVE  /\ Outcome(Peek(n), buff, rd).left = buff \o rd
         /\ Outcome(Peek(n), buff, rd).result = Up(Shorter(n, buff \o rd), buff \o rd)
BY DEF Outcome, Peek

LEMMA UptoOutcome ==
  ASSUME NEW n, NEW buff, NEW rd
  PROVE  Outcome(Upto(n), buff, rd).left = Past(Shorter(n, buff \o rd), buff \o rd)
BY DEF Outcome, Upto

LEMMA PatternOutcome ==
  ASSUME NEW p, NEW buff, NEW rd, Outcome(ToPattern(p), buff, rd).ok
  PROVE  /\ PatternEnd(p, buff \o rd) # 0
         /\ Outcome(ToPattern(p), buff, rd).left = Past(PatternEnd(p, buff \o rd), buff \o rd)
         /\ Outcome(ToPattern(p), buff, rd).result = Up(PatternEnd(p, buff \o rd), buff \o rd)
BY DEF Outcome, ToPattern

\* Nothing is taken off.
LEMMA PastNone ==
  ASSUME NEW V, NEW s \in Seq(V)
  PROVE  s \o <<>> = s /\ Past(0, s) = s
<1>1. s \o <<>> = s
  OBVIOUS
<1>2. Past(0, s) = SubSeq(s, 1, Len(s))
  BY DEF Past
<1>3. SubSeq(s, 1, Len(s)) = s
  OBVIOUS
<1> QED BY <1>1, <1>2, <1>3

LEMMA HeadOfUp ==
  ASSUME NEW V, NEW s \in Seq(V), NEW e \in 1 .. Len(s)
  PROVE  Head(Up(e, s)) = s[1]
<1>1. Up(e, s) \in Seq(V) /\ Len(Up(e, s)) = e /\ Up(e, s)[1] = s[1]
  BY DEF Up
<1>2. Up(e, s) # <<>>
  BY <1>1
<1> QED BY <1>1, <1>2
------------------------------------------------------------------------------
\* Where the n-th request ends.
Mark(n) == IF n = 0 THEN 0 ELSE EndOf[n]

\* The assumption, in terms of these places.
LEMMA WireFacts ==
  /\ Wire \in Seq(Unit) /\ Len(Wire) \in Nat /\ Len(EndOf) \in Nat
  /\ \A n \in 0 .. Len(EndOf) : Mark(n) \in 0 .. Len(Wire)
  /\ \A n \in 0 .. Len(EndOf) - 1 :
       /\ Mark(n) + 5 <= Mark(n + 1)
       /\ Wire[Mark(n) + 1] # CRLF /\ Wire[Mark(n) + 2] = CRLF
       /\ Wire[Mark(n) + 3] # CRLF /\ Wire[Mark(n) + 4] = CRLF /\ Wire[Mark(n) + 5] = CRLF
       /\ Length[Wire[Mark(n) + 3]] = Mark(n + 1) - Mark(n) - 5
  /\ \A j \in 1 .. Len(Wire) - 1 :
       j > Mark(Len(EndOf)) => ~(Wire[j] = CRLF /\ Wire[j + 1] = CRLF)
<1>1. /\ Wire \in Seq(Unit) /\ Len(Wire) \in Nat /\ Len(EndOf) \in Nat
      /\ \A n \in 1 .. Len(EndOf) : EndOf[n] \in 0 .. Len(Wire)
  BY WireAssumption
<1>2. \A n \in 0 .. Len(EndOf) : Mark(n) \in 0 .. Len(Wire)
  BY <1>1 DEF Mark
<1>3. ASSUME NEW n \in 0 .. Len(EndOf) - 1
      PROVE  /\ Mark(n) + 5 <= Mark(n + 1)
             /\ Wire[Mark(n) + 1] # CRLF /\ Wire[Mark(n) + 2] = CRLF
             /\ Wire[Mark(n) + 3] # CRLF /\ Wire[Mark(n) + 4] = CRLF /\ Wire[Mark(n) + 5] = CRLF
             /\ Length[Wire[Mark(n) + 3]] = Mark(n + 1) - Mark(n) - 5
  <2>1. n + 1 \in 1 .. Len(EndOf)
    BY <1>1
  <2>2. Mark(n) = (IF n + 1 = 1 THEN 0 ELSE EndOf[n + 1 - 1]) /\ Mark(n + 1) = EndOf[n + 1]
    BY DEF Mark
  <2> QED BY <2>1, <2>2, WireAssumption
<1>4. Mark(Len(EndOf)) = IF EndOf = <<>> THEN 0 ELSE Last(EndOf)
  BY WireAssumption DEF Mark, Last
<1> QED BY <1>1, <1>2, <1>3, <1>4, WireAssumption

\* What was taken from the kernel and not from the buffer, and all that was taken.
In == IF op.kind = "read" THEN data ELSE IF Reads THEN Bytes ELSE <<>>
All == readbuff \o In

\* What is read is sequences of what the wire carries.
ByteTypes ==
  /\ inq \in Seq(Unit) /\ res.data \in Seq(Unit) /\ sent \in 0 .. Len(Wire)
  /\ op.kind = "read" => data \in Seq(Unit)

\* What is asked of the resource at each place, and that it is read for only while the buffer
\* does not have it.
AskedInv ==
  /\ at = "peek" => asked = Peek(1)
  /\ at = "title" => asked = ToPattern(<<CRLF>>)
  /\ at = "headers" => asked = ToPattern(<<CRLF, CRLF>>)
  /\ at = "body" => asked = Upto(Length[Last(line)])
  /\ op.kind = "read" => ~NoRead /\ res.ok

\* Nothing that was read is lost: no read has failed, and no error is answered.
Intact ==
  \/ at \in {"care", "serve"}
  \/ Reads /\ ~Failed
  \/ at = "read" /\ answer = "none"
  \/ at = "write" /\ kal

\* The next request begins at `from`, unless the client has ended inside of the n-th.
Reached(n, from) == from = Least(Mark(n), sent) /\ (sent < Mark(n) => peer # "open")

\* A body ends before its length only with the data.
Lengthy ==
  /\ op.kind = "read" => op.n = asked.n - Len(readbuff)
  /\ op.kind # "read" => Len(All) >= asked.n \/ (peer # "open" /\ inq = <<>>)

\* What begins at `from`: the title, the headers or the body of the request that follows those
\* that were handled, or, once it was read, what is behind it.
PlacedAt(from) ==
  LET n == Len(handled) IN
  /\ n <= Len(EndOf)
  /\ \A i \in 1 .. n : handled[i] = <<Wire[Mark(i - 1) + 1], Wire[Mark(i - 1) + 3]>>
  /\ at \in {"care", "peek", "serve", "write"} => Reached(n, from)
  /\ at = "title" => from = Mark(n)
  /\ at = "headers" =>
       from >= Mark(n) /\ (n < Len(EndOf) => from = Mark(n) + 2 /\ line = <<Wire[Mark(n) + 1]>>)
  /\ at \in {"body", "read"} => n < Len(EndOf) /\ line = <<Wire[Mark(n) + 1], Wire[Mark(n) + 3]>>
  /\ at = "body" => from = Mark(n) + 5 /\ Lengthy
  /\ at = "read" => Reached(n + 1, from)

\* What is held is the wire from there to what was sent.
Holds(from) ==
  /\ from \in 0 .. sent /\ readbuff \in Seq(Unit)
  /\ Joins(All, inq, Slice(Wire, from, sent))
PositionInv == peer # "reset" /\ Intact => \E from : Holds(from) /\ PlacedAt(from)

BytesInv == PlaceInv /\ AnswersInv /\ Sequences /\ ByteTypes /\ AskedInv /\ PositionInv
------------------------------------------------------------------------------
\* What a call of ::read() makes of the kernel's bytes, the operation's and the result's.
LEMMA ReadResult ==
  ASSUME ByteTypes, ReadCall, op.kind = "read"
  PROVE  /\ inq' \in Seq(Unit) /\ res'.data \in Seq(Unit)
         /\ op'.kind = "read" => data' \in Seq(Unit) /\ res' = res
         /\ sent' = sent => ByteTypes'
<1> DEFINE k == Least(BufferSize, Len(inq))
           c == SubSeq(inq, 1, k)
           rest == SubSeq(inq, k + 1, Len(inq))
<1>1. inq \in Seq(Unit) /\ data \in Seq(Unit) /\ res.data \in Seq(Unit)
  BY DEF ByteTypes
<1>2. k \in 0 .. Len(inq)
  BY <1>1, FileAssumption DEF Least
<1>3. c \in Seq(Unit) /\ rest \in Seq(Unit) /\ data \o c \in Seq(Unit)
  BY <1>1, <1>2
<1>4. inq' \in {inq, rest}
  BY DEF ReadCall, kernelVars
<1>5. \/ \E bytes \in {data \o c, data} : Succeeds(bytes)
      \/ \E why : Fails(why)
      \/ data' \in {data \o c, data} /\ UNCHANGED <<op, res>>
  BY DEF ReadCall, Rearm, Continues
<1> HIDE DEF c, rest
<1>6. inq' \in Seq(Unit)
  BY <1>1, <1>3, <1>4
<1>7. CASE \E bytes \in {data \o c, data} : Succeeds(bytes)
  <2>1. PICK bytes \in Seq(Unit) : Succeeds(bytes)
    BY <1>1, <1>3, <1>7
  <2> QED BY <1>6, <2>1 DEF Succeeds, Ends, NoOp, ByteTypes
<1>8. CASE \E why : Fails(why)
  <2>1. res'.data = <<>> /\ op'.kind = "none"
    BY <1>8 DEF Fails, Ends, NoOp
  <2> QED BY <1>6, <2>1 DEF ByteTypes
<1>9. CASE data' \in {data \o c, data} /\ UNCHANGED <<op, res>>
  BY <1>1, <1>3, <1>6, <1>9 DEF ByteTypes
<1> QED BY <1>5, <1>7, <1>8, <1>9

LEMMA SubmitTypes ==
  ASSUME ByteTypes, Started, NEW o, NEW bytes \in Seq(Unit), Submit(o, bytes), sent' = sent
  PROVE  ByteTypes'
BY DEF ByteTypes, Started, Submit, kernelVars, NoResult

LEMMA RestTypes == ByteTypes /\ Rest /\ sent' = sent => ByteTypes'
BY DEF Rest, fileVars, kernelVars, bodyVars, ByteTypes

LEMMA ByteTypesSteps ==
  ASSUME FileInv, PlaceInv, ByteTypes, [Next]_vars
  PROVE  ByteTypes'
<1>1. ASSUME UNCHANGED <<inq, res, sent, op, data>> PROVE ByteTypes'
  BY <1>1 DEF ByteTypes
<1>2. ASSUME NEW why, Fails(why), UNCHANGED <<inq, sent>> PROVE ByteTypes'
  BY <1>2 DEF Fails, Ends, NoOp, ByteTypes
<1>3. CASE Body /\ CareKeeps
  <2>1. UNCHANGED sent
    BY <1>3 DEF CareKeeps, clientVars
  <2>2. CASE ReadCall
    <3>1. op.kind = "read"
      BY <2>2 DEF ReadCall, Reading
    <3> QED BY <2>1, <2>2, <3>1, ReadResult
  <2>3. CASE WriteCall
    <3>1. op.kind # "read" /\ UNCHANGED inq
      BY <2>3 DEF WriteCall, Reading
    <3>2. \/ op'.kind # "read" /\ res'.data = <<>>
          \/ op' = op /\ res' = res
      BY <2>3 DEF WriteCall, Succeeds, Fails, Ends, NoOp, Rearm, Continues
    <3>3. CASE op'.kind # "read" /\ res'.data = <<>>
      BY <2>1, <3>1, <3>3 DEF ByteTypes
    <3>4. CASE op' = op /\ res' = res
      BY <2>1, <3>1, <3>4 DEF ByteTypes
    <3> QED BY <3>2, <3>3, <3>4
  <2>4. CASE Enter \/ Check \/ Note
    BY <1>1, <2>1, <2>4 DEF Enter, Check, Note, Continues, kernelVars
  <2>5. CASE Look
    BY <1>1, <1>2, <2>1, <2>5 DEF Look, Rearm, Continues, kernelVars
  <2> QED BY <1>3, <2>2, <2>3, <2>4, <2>5 DEF Body
<1>4. Epoll /\ CareKeeps => UNCHANGED <<inq, res, sent, op, data>>
  BY Zenon DEF Epoll, CareKeeps, clientVars, kernelVars, bodyVars, EpollWait, EpollSet, EpollNotify,
         EpollStops
<1>5. Fire \/ FireCancels \/ ShutFlag \/ Main \/ UNCHANGED vars => UNCHANGED <<inq, res, sent, op, data>>
  BY Zenon DEF Fire, FireCancels, ShutFlag, Main, ShutSwap, ShutCancel, ShutTimers, ShutWioe,
         fileVars, kernelVars, bodyVars, clientVars, Cancel, Wioe, vars
<1>6. CASE Client
  <2>1. UNCHANGED <<res, op, data>>
    BY <1>6 DEF Client, Elsewhere, PeerKeeps, bodyVars
  <2>2. CASE ClientSends
    <3>1. PICK k \in 0 .. Len(Wire) : sent < k /\ PeerSends(SubSeq(Wire, sent + 1, k)) /\ sent' = k
      BY <2>2, WireAssumption DEF ClientSends
    <3>2. SubSeq(Wire, sent + 1, k) \in Seq(Unit) /\ inq \in Seq(Unit)
      BY WireAssumption DEF ByteTypes
    <3>3. inq \o SubSeq(Wire, sent + 1, k) \in Seq(Unit)
      BY <3>2
    <3> QED BY <2>1, <3>1, <3>3 DEF PeerSends, ByteTypes
  <2>3. CASE ClientReceives \/ ClientEnds
    BY <1>1, <2>1, <2>3 DEF ClientReceives, ClientEnds, PeerReceives, PeerEnds, clientVars
  <2>4. CASE ClientResets
    <3>1. inq' = <<>> /\ sent' = sent
      BY <2>4 DEF ClientResets, PeerResets, clientVars
    <3> QED BY <2>1, <3>1 DEF ByteTypes
  <2> QED BY <1>6, <2>2, <2>3, <2>4 DEF Client
<1>7. CASE Care
  <2>0. <<>> \in Seq(Unit)
    OBVIOUS
  <2>1. UNCHANGED sent
    BY <1>7 DEF Care, Idle, Begin, ReadTitle, ReadHeaders, ReadBody, ReadKeeps, Take, Respond,
                Written, LetGo, clientVars
  <2>2. ASSUME NEW q, NEW buff, NEW place, Asks(q, buff, place) PROVE ByteTypes'
    BY <2>0, <2>1, <2>2, RestTypes, SubmitTypes DEF Asks
  <2>3. ASSUME ReadsOn PROVE ByteTypes'
    BY <2>0, <2>1, <2>3, SubmitTypes DEF ReadsOn
  <2>4. ASSUME NEW a, Replies(a) PROVE ByteTypes'
    BY <2>1, <2>4 DEF Replies, Started, Submit, kernelVars, NoResult, ByteTypes
  <2>5. ASSUME NEW verdict, Concludes(verdict) PROVE ByteTypes'
    BY <2>1, <2>5, RestTypes DEF Concludes
  <2>6. Rest \/ Drops => ByteTypes'
    BY <2>1, RestTypes DEF Drops
  <2>7. CASE Idle \/ Begin
    BY <2>2, <2>4, <2>6, <2>7 DEF Idle, Begin
  <2>8. CASE ReadTitle \/ ReadHeaders \/ ReadBody
    BY <2>2, <2>3, <2>5, <2>6, <2>8 DEF ReadTitle, ReadHeaders, ReadBody
  <2>9. CASE Take \/ Respond \/ Written
    BY <2>4, <2>6, <2>9 DEF Take, Respond, Written
  <2>10. CASE LetGo
    BY <1>1, <2>1, <2>10 DEF LetGo, Release, kernelVars, bodyVars
  <2> QED BY <1>7, <2>7, <2>8, <2>9, <2>10 DEF Care
<1> QED BY <1>1, <1>3, <1>4, <1>5, <1>6, <1>7 DEF Next
------------------------------------------------------------------------------
\* Whether an operation has to read depends on the operation and on the buffer alone.
LEMMA NoReadSame == UNCHANGED <<asked, readbuff>> => UNCHANGED NoRead
BY DEF NoRead

LEMMA AskedSteps ==
  ASSUME FileInv, PlaceInv, AskedInv, [Next]_vars
  PROVE  AskedInv'
<1>0. bpc = "idle" => op = NoOp
  BY DEF FileInv, OperationInv
<1>1. ASSUME UNCHANGED <<at, asked, readbuff, line>>,
             UNCHANGED <<op, res>> \/ op' = NoOp
      PROVE  AskedInv'
  BY <1>1, NoReadSame DEF AskedInv, NoOp
<1>2. Body => UNCHANGED <<op, res>> \/ op' = NoOp
  BY DEF Body, Enter, Look, ReadCall, WriteCall, Check, Note, Continues, Rearm, Succeeds, Fails, Ends
<1>3. Epoll \/ Cancel \/ Wioe \/ PeerKeeps => UNCHANGED <<op, res>>
  BY Zenon DEF Epoll, EpollWait, EpollSet, EpollNotify, EpollStops, Cancel, Wioe, PeerKeeps, bodyVars
<1>4. Fire \/ FireCancels \/ ShutFlag \/ Main \/ UNCHANGED vars
        => UNCHANGED <<at, asked, readbuff, line, op, res>>
  BY <1>3, Zenon DEF Fire, FireCancels, ShutFlag, Main, ShutSwap, ShutCancel, ShutTimers, ShutWioe,
         careVars, fileVars, bodyVars, vars
<1>5. CareKeeps \/ Client => UNCHANGED <<at, asked, readbuff, line>>
  BY Zenon DEF CareKeeps, Client, Elsewhere, careVars
<1>6. Client => UNCHANGED <<op, res>>
  BY <1>3, Zenon DEF Client, Elsewhere
<1>7. CASE Care
  <2>1. ASSUME NEW q, NEW buff, NEW place, op = NoOp, Asks(q, buff, place)
        PROVE  /\ at' = place /\ asked' = q
               /\ op'.kind = "read" => ~NoRead' /\ res'.ok
    BY <2>1 DEF Asks, Rest, fileVars, bodyVars, NoOp, Started, Submit, NoRead, NoResult
  <2>2. ASSUME NEW a, Replies(a) PROVE at' = "write" /\ op'.kind = "write"
    BY <2>2 DEF Replies, Submit
  <2>3. Rest /\ op = NoOp => op' = NoOp
    BY DEF Rest, fileVars, bodyVars
  <2>4. ASSUME NEW verdict, Concludes(verdict), op = NoOp PROVE at' = "read" /\ op' = NoOp
    BY <2>3, <2>4 DEF Concludes
  <2>5. ASSUME ReadsOn, at \in {"title", "headers"} PROVE AskedInv'
    <3>1. UNCHANGED <<at, asked, line>> /\ res'.ok
      BY <2>5 DEF ReadsOn, Submit, NoResult
    <3>2. asked.kind = "pattern"
      BY <2>5 DEF AskedInv, ToPattern
    <3>3. ~Satisfied(asked, readbuff, Bytes) /\ readbuff' = readbuff \o Bytes
      BY <2>5 DEF ReadsOn, Ended
    <3>4. PatternEnd(asked.p, readbuff') = 0
      BY <3>2, <3>3 DEF Satisfied
    <3>5. ~NoRead'
      BY <3>1, <3>2, <3>4 DEF NoRead, Buffered
    <3> QED BY <2>5, <3>1, <3>5 DEF AskedInv
  <2>6. CASE Idle
    BY <1>0, <2>1, <2>6 DEF Idle, OnWorker, AskedInv
  <2>7. CASE Begin
    <3>1. \/ at' = "title" /\ asked' = ToPattern(<<CRLF>>) /\ (op'.kind = "read" => ~NoRead' /\ res'.ok)
          \/ at' = "write" /\ op'.kind = "write"
          \/ at' = "done" /\ op' = NoOp
      BY <1>0, <2>1, <2>2, <2>3, <2>7 DEF Begin, OnWorker, Drops
    <3> QED BY <3>1 DEF AskedInv, NoOp
  <2>8. CASE ReadTitle
    <3>1. \/ ReadsOn /\ at = "title"
          \/ at' = "headers" /\ asked' = ToPattern(<<CRLF, CRLF>>) /\ (op'.kind = "read" => ~NoRead' /\ res'.ok)
          \/ at' = "read" /\ op' = NoOp
      BY <1>0, <2>1, <2>4, <2>8 DEF ReadTitle, At, OnWorker
    <3> QED BY <2>5, <3>1 DEF AskedInv, NoOp
  <2>9. CASE ReadHeaders
    <3>1. \/ ReadsOn /\ at = "headers"
          \/ /\ at' = "body" /\ asked' = Upto(Length[Last(line')])
             /\ op'.kind = "read" => ~NoRead' /\ res'.ok
          \/ at' = "read" /\ op' = NoOp
      BY <1>0, <2>1, <2>3, <2>4, <2>9 DEF ReadHeaders, At, OnWorker
    <3> QED BY <2>5, <3>1 DEF AskedInv, NoOp
  <2>10. CASE ReadBody
    BY <1>0, <2>4, <2>10 DEF ReadBody, At, OnWorker, AskedInv, NoOp
  <2>11. CASE Take \/ Respond \/ Written
    <3>1. \/ at' \in {"serve", "care", "done"} /\ op' = NoOp
          \/ at' = "write" /\ op'.kind = "write"
      BY <1>0, <2>2, <2>3, <2>11 DEF Take, Respond, Written, At, OnWorker, Drops
    <3> QED BY <3>1 DEF AskedInv, NoOp
  <2>12. CASE LetGo
    BY <1>1, <2>12 DEF LetGo, Release, bodyVars, careVars
  <2> QED BY <1>7, <2>6, <2>7, <2>8, <2>9, <2>10, <2>11, <2>12 DEF Care
<1>8. CASE (Body \/ Epoll) /\ CareKeeps
  BY <1>1, <1>2, <1>3, <1>5, <1>8
<1> QED BY <1>1, <1>4, <1>5, <1>6, <1>7, <1>8 DEF Next
------------------------------------------------------------------------------
\* Taking units off the front of a part of the wire leaves the part behind them.
LEMMA PastSlice ==
  ASSUME NEW V, NEW w \in Seq(V), NEW b \in 0 .. Len(w), NEW a \in 0 .. b, NEW e \in 0 .. b - a
  PROVE  Past(e, Slice(w, a, b)) = Slice(w, a + e, b)
<1> DEFINE x == Slice(w, a, b)
           y == SubSeq(x, e + 1, Len(x))
           m == a + e
<1>1. x \in Seq(V) /\ Len(x) = b - a /\ \A i \in 1 .. b - a : x[i] = w[a + i]
  BY SliceIs
<1>2. m \in 0 .. b
  OBVIOUS
<1> HIDE DEF x
<1>3. y \in Seq(V) /\ Len(y) = b - m /\ \A i \in 1 .. b - m : y[i] = x[e + i]
  <2>1. x \in Seq(V) /\ e \in 0 .. Len(x)
    BY <1>1
  <2>2. y \in Seq(V) /\ Len(y) = Len(x) - e
    BY <2>1
  <2>3. \A i \in 1 .. Len(x) - e : y[i] = x[e + i]
    BY <2>1
  <2>4. Len(x) - e = b - m
    BY <1>1
  <2> QED BY <2>2, <2>3, <2>4
<1>4. ASSUME NEW i \in 1 .. b - m PROVE y[i] = w[m + i]
  <2>1. e + i \in 1 .. b - a /\ a + (e + i) = m + i
    OBVIOUS
  <2> QED BY <1>1, <1>3, <2>1
<1> HIDE DEF y, m
<1>5. y = Slice(w, m, b)
  BY <1>2, <1>3, <1>4, IsSlice
<1> QED BY <1>5 DEF x, y, m, Past

LEMMA AllTypes ==
  ASSUME ByteTypes, readbuff \in Seq(Unit)
  PROVE  In \in Seq(Unit) /\ All \in Seq(Unit) /\ Len(All) = Len(readbuff) + Len(In)
<1>1. <<>> \in Seq(Unit)
  OBVIOUS
<1>2. In \in Seq(Unit)
  BY <1>1 DEF In, Bytes, ByteTypes
<1> QED BY <1>2 DEF All

LEMMA HeldParts ==
  ASSUME ByteTypes, NEW from, Holds(from)
  PROVE  /\ All \in Seq(Unit) /\ from \in 0 .. sent /\ sent \in 0 .. Len(Wire)
         /\ from + Len(All) \in from .. sent
         /\ All = Slice(Wire, from, from + Len(All))
         /\ inq = Slice(Wire, from + Len(All), sent)
<1>1. All \in Seq(Unit) /\ inq \in Seq(Unit) /\ from \in 0 .. sent /\ sent \in 0 .. Len(Wire)
  BY AllTypes DEF Holds, ByteTypes
<1>2. Joins(All, inq, Slice(Wire, from, sent)) /\ Wire \in Seq(Unit)
  BY WireAssumption DEF Holds
<1> QED BY <1>1, <1>2, SliceSplit

\* What is taken from the front of what is held is what is next on the wire.
LEMMA Advance ==
  ASSUME ByteTypes, NEW from, Holds(from), NEW e \in 0 .. Len(All),
         readbuff' = Past(e, All), In' = <<>>, UNCHANGED <<inq, sent>>
  PROVE  Holds(from + e)'
<1> DEFINE m == from + Len(All)
           to == from + e
           x == Slice(Wire, to, m)
<1>1. /\ All \in Seq(Unit) /\ from \in 0 .. sent /\ sent \in 0 .. Len(Wire) /\ m \in from .. sent
      /\ All = Slice(Wire, from, m) /\ inq = Slice(Wire, m, sent) /\ Wire \in Seq(Unit)
  BY HeldParts, WireAssumption
<1>2. to \in 0 .. m /\ m \in 0 .. sent /\ m \in 0 .. Len(Wire) /\ from \in 0 .. m /\ to \in 0 .. sent
      /\ e \in 0 .. m - from
  BY <1>1
<1>3. Past(e, All) = x
  <2> HIDE DEF m
  <2>1. Past(e, Slice(Wire, from, m)) = Slice(Wire, from + e, m)
    BY <1>1, <1>2, PastSlice
  <2> QED BY <1>1, <2>1
<1> HIDE DEF m, to
<1>4. x \in Seq(Unit)
  BY <1>1, <1>2, SliceIs
<1>5. x \o inq = Slice(Wire, to, sent)
  BY <1>1, <1>2, SliceJoin
<1> HIDE DEF x
<1>6. All' = x
  <2>1. All' = x \o <<>>
    BY <1>3 DEF All
  <2> QED BY <1>4, <2>1
<1>7. readbuff' = x
  BY <1>3
<1>8. Joins(All, inq, Slice(Wire, to, sent))'
  BY <1>5, <1>6 DEF Joins
<1>9. Holds(to)'
  BY <1>2, <1>4, <1>7, <1>8 DEF Holds
<1> QED BY <1>9 DEF to
------------------------------------------------------------------------------
LEMMA UnitsRegroup ==
  \A x, y, u \in Seq(Unit) : x \o (y \o u) = (x \o y) \o u
<1> SUFFICES ASSUME NEW x \in Seq(Unit), NEW y \in Seq(Unit), NEW u \in Seq(Unit)
             PROVE  x \o (y \o u) = (x \o y) \o u
  OBVIOUS
<1> QED OBVIOUS

LEMMA UnitsAssoc ==
  \A x, y, u, v \in Seq(Unit) : (x \o (y \o u)) \o v = (x \o y) \o (u \o v)
<1> SUFFICES ASSUME NEW x \in Seq(Unit), NEW y \in Seq(Unit), NEW u \in Seq(Unit), NEW v \in Seq(Unit)
             PROVE  (x \o (y \o u)) \o v = (x \o y) \o (u \o v)
  OBVIOUS
<1>1. x \o (y \o u) = (x \o y) \o u
  BY UnitsRegroup, Zenon
<1>2. x \o y \in Seq(Unit)
  OBVIOUS
<1>3. (x \o y) \o (u \o v) = ((x \o y) \o u) \o v
  BY <1>2, UnitsRegroup, Zenon
<1> QED BY <1>1, <1>3, Zenon

\* The length of the next body.
BodyLength(n) == Mark(n + 1) - Mark(n) - 5

LEMMA HandledLength == Sequences => Len(handled) \in Nat
BY DEF Sequences, SequencesOf

\* A body is asked for by the length that its headers say.
LEMMA AskedLength ==
  ASSUME Sequences, AskedInv, NEW from, PlacedAt(from), at = "body"
  PROVE  asked = Upto(BodyLength(Len(handled))) /\ BodyLength(Len(handled)) \in Nat
<1> DEFINE n == Len(handled)
<1>1. n \in 0 .. Len(EndOf) - 1 /\ line = <<Wire[Mark(n) + 1], Wire[Mark(n) + 3]>>
  BY HandledLength, WireFacts DEF PlacedAt
<1>2. Last(line) = Wire[Mark(n) + 3]
  BY <1>1 DEF Last
<1> HIDE DEF n
<1>3. Length[Last(line)] = BodyLength(n) /\ BodyLength(n) \in Nat
  <2>1. Mark(n) \in Nat /\ Mark(n + 1) \in Nat
    BY <1>1, WireFacts
  <2>2. /\ Length[Wire[Mark(n) + 3]] = Mark(n + 1) - Mark(n) - 5
        /\ Mark(n) + 5 <= Mark(n + 1)
    BY <1>1, WireFacts
  <2> QED BY <1>2, <2>1, <2>2 DEF BodyLength
<1> QED BY <1>3 DEF AskedInv, n

\* A step of the resource moves bytes from the kernel to the operation and from there to its
\* result, and does not disturb their order.
LEMMA BodyPosition ==
  ASSUME FileInv, PlaceInv, Sequences, ByteTypes, AskedInv, PositionInv, Body, CareKeeps
  PROVE  PositionInv'
<1> SUFFICES ASSUME peer' # "reset", Intact' PROVE \E from : Holds(from)' /\ PlacedAt(from)'
  BY DEF PositionInv
<1>1. UNCHANGED <<at, asked, readbuff, line, answer, kal, sent, handled>>
  BY DEF CareKeeps, careVars, clientVars, history
<1>2. UNCHANGED <<peer, NoRead>>
  BY <1>1, NoReadSame DEF Body, Enter, Look, ReadCall, WriteCall, Check, Note, kernelVars
<1>3. bpc = "idle" => op = NoOp
  BY DEF FileInv, OperationInv
\* What is in the hands of the body changes only by the bytes it takes.
<1>4. ASSUME NEW c \in Seq(Unit), NEW rest \in Seq(Unit), inq = c \o rest, inq' = rest,
             op.kind = "read", In' = data \o c, Intact,
             at = "body" => Lengthy'
      PROVE  \E from : Holds(from)' /\ PlacedAt(from)'
  <2>1. PICK from : Holds(from) /\ PlacedAt(from)
    BY <1>2, <1>4 DEF PositionInv
  <2>2. In = data /\ readbuff \in Seq(Unit) /\ data \in Seq(Unit)
    BY <1>4, <2>1 DEF In, ByteTypes, Holds
  <2>3. (readbuff \o (data \o c)) \o rest = (readbuff \o data) \o (c \o rest)
    <3>5. c \in Seq(Unit)
      OBVIOUS
    <3>2. readbuff \in Seq(Unit)
      BY <2>2
    <3>3. data \in Seq(Unit)
      BY <2>2
    <3>4. rest \in Seq(Unit)
      OBVIOUS
    <3>6. \A y, u, v \in Seq(Unit) : (readbuff \o (y \o u)) \o v = (readbuff \o y) \o (u \o v)
      BY <3>2, UnitsAssoc, Zenon
    <3>7. \A u, v \in Seq(Unit) : (readbuff \o (data \o u)) \o v = (readbuff \o data) \o (u \o v)
      BY <3>3, <3>6, Zenon
    <3>8. \A v \in Seq(Unit) : (readbuff \o (data \o c)) \o v = (readbuff \o data) \o (c \o v)
      BY <3>5, <3>7, Zenon
    <3> QED BY <3>4, <3>8, Zenon
  <2>4. All' \o inq' = All \o inq
    BY <1>1, <1>4, <2>2, <2>3, Zenon DEF All
  <2>5. Holds(from)'
    BY <1>1, <2>1, <2>4 DEF Holds, Joins
  <2>6. PlacedAt(from)'
    BY <1>1, <1>2, <1>4, <2>1 DEF PlacedAt, Reached
  <2> QED BY <2>5, <2>6
<1>5. ASSUME UNCHANGED <<inq, In>>, ~Reads \/ UNCHANGED <<op, res>>
      PROVE  \E from : Holds(from)' /\ PlacedAt(from)'
  <2>1. Intact
    BY <1>1, <1>2, <1>5 DEF Intact, Reads, Failed
  <2>2. PICK from : Holds(from) /\ PlacedAt(from)
    BY <1>2, <2>1 DEF PositionInv
  <2>3. Holds(from)'
    BY <1>1, <1>5, <2>2 DEF Holds, All
  <2>4. at = "body" => Lengthy'
    BY <1>1, <1>2, <1>5, <2>2 DEF PlacedAt, Lengthy, All, Reads
  <2>5. PlacedAt(from)'
    BY <1>1, <1>2, <2>2, <2>4 DEF PlacedAt, Reached
  <2> QED BY <2>3, <2>5
<1>6. ASSUME UNCHANGED <<inq, op, data, res>> PROVE \E from : Holds(from)' /\ PlacedAt(from)'
  <2>1. UNCHANGED In
    BY <1>1, <1>2, <1>6 DEF In, Reads, Bytes, Failed
  <2> QED BY <1>5, <1>6, <2>1
<1>7. ASSUME NEW why, Fails(why), UNCHANGED inq, op.kind \in {"read", "write"}
      PROVE  \E from : Holds(from)' /\ PlacedAt(from)'
  <2>1. op' = NoOp /\ res'.ok = FALSE
    BY <1>7 DEF Fails, Ends
  <2>2. CASE op.kind = "read"
    <3>1. Reads /\ ~NoRead
      BY <2>2 DEF PlaceInv, Reads, AskedInv
    <3>2. ~Intact'
      BY <1>1, <1>2, <2>1, <3>1 DEF Intact, Reads, Failed
    <3> QED BY <3>2
  <2>3. CASE op.kind = "write"
    <3>1. at = "write"
      BY <2>3 DEF PlaceInv
    <3>2. UNCHANGED In /\ ~Reads
      BY <1>1, <2>1, <2>3, <3>1 DEF In, Reads, NoOp
    <3> QED BY <1>5, <1>7, <3>2
  <2> QED BY <1>7, <2>2, <2>3
<1>8. bpc # "idle" => op.kind \in {"read", "write"}
  BY DEF FileInv, OperationInv
<1>9. CASE Enter \/ Check \/ Note
  BY <1>6, <1>9 DEF Enter, Check, Note, Continues, kernelVars
<1>10. CASE Look
  BY <1>6, <1>7, <1>8, <1>10 DEF Look, Rearm, Continues, kernelVars
<1>11. CASE WriteCall
  <2>1. op.kind = "write" /\ at = "write" /\ UNCHANGED inq
    BY <1>8, <1>11 DEF WriteCall, Reading, PlaceInv
  <2>2. op'.kind # "read"
    BY <2>1, <1>11 DEF WriteCall, Succeeds, Fails, Ends, NoOp, Rearm, Continues
  <2>3. UNCHANGED In /\ ~Reads
    BY <1>1, <2>1, <2>2 DEF In, Reads
  <2> QED BY <1>5, <2>1, <2>3
<1>12. CASE ReadCall
  <2>1. op.kind = "read" /\ Reads /\ ~NoRead /\ res.ok
    BY <1>12 DEF ReadCall, Reading, PlaceInv, Reads, AskedInv
  <2>2. Intact
    BY <2>1 DEF Intact, Failed
  <2>3. PICK from : Holds(from) /\ PlacedAt(from)
    BY <1>2, <2>2 DEF PositionInv
  <2>4. inq \in Seq(Unit) /\ data \in Seq(Unit) /\ readbuff \in Seq(Unit) /\ <<>> \in Seq(Unit)
    BY <2>1, <2>3 DEF ByteTypes, Holds
  <2>5. at = "body" => op.n = asked.n - Len(readbuff) /\ asked.n \in Int
    <3> SUFFICES ASSUME at = "body" PROVE op.n = asked.n - Len(readbuff) /\ asked.n \in Int
      OBVIOUS
    <3>1. op.n = asked.n - Len(readbuff)
      BY <2>1, <2>3 DEF PlacedAt, Lengthy
    <3>2. asked.n = BodyLength(Len(handled)) /\ BodyLength(Len(handled)) \in Nat
      BY <2>3, AskedLength DEF Upto
    <3> QED BY <3>1, <3>2
  <2> DEFINE k == Least(BufferSize, Len(inq))
             c == SubSeq(inq, 1, k)
             rest == SubSeq(inq, k + 1, Len(inq))
             all == data \o c
  <2>6. c \in Seq(Unit) /\ rest \in Seq(Unit) /\ inq = c \o rest
    <3>1. k \in 0 .. Len(inq)
      BY <2>4, FileAssumption DEF Least
    <3> HIDE DEF k
    <3> QED BY <2>4, <3>1, CutSeq
  <2>7. all \in Seq(Unit)
    BY <2>4, <2>6
  <2>8. ASSUME NEW bytes \in Seq(Unit), Succeeds(bytes) PROVE In' = bytes /\ op' = NoOp
    <3>1. op' = NoOp /\ res' = [ok |-> TRUE, why |-> "none", data |-> bytes]
      BY <2>8 DEF Succeeds, Ends
    <3>2. ~NoRead' /\ ~Failed' /\ Reads' /\ res'.data = bytes
      BY <1>1, <1>2, <2>1, <3>1 DEF Failed, Reads
    <3> QED BY <3>1, <3>2 DEF In, Bytes, NoOp
  <2>9. CASE inq # <<>> /\ inq' = rest /\ op.n > 0 /\ Len(all) >= op.n /\ Succeeds(all)
    <3>1. In' = data \o c /\ op' = NoOp
      BY <2>7, <2>8, <2>9
    <3>2. at = "body" => Lengthy'
      <4> SUFFICES ASSUME at = "body" PROVE Len(All') >= asked.n
        BY <1>1, <3>1 DEF Lengthy, NoOp
      <4>1. Len(readbuff \o all) = Len(readbuff) + Len(all)
        BY <2>4, <2>7
      <4>2. Len(readbuff) \in Nat /\ Len(all) \in Nat
        BY <2>4, <2>7
      <4>3. All' = readbuff \o all
        BY <1>1, <3>1 DEF All
      <4> HIDE DEF all
      <4>4. op.n = asked.n - Len(readbuff) /\ Len(all) >= op.n
        BY <2>5, <2>9
      <4>5. asked.n \in Int
        BY <2>5
      <4> QED BY <4>1, <4>2, <4>3, <4>4, <4>5
    <3> QED BY <1>4, <2>1, <2>2, <2>6, <2>9, <3>1, <3>2
  <2>10. CASE inq # <<>> /\ inq' = rest /\ data' = all /\ UNCHANGED <<op, res>>
    <3>1. In' = data \o c
      BY <2>1, <2>10 DEF In
    <3>2. at = "body" => Lengthy'
      BY <1>1, <2>1, <2>5, <2>10 DEF Lengthy
    <3> QED BY <1>4, <2>1, <2>2, <2>6, <2>10, <3>1, <3>2
  <2>11. CASE inq = <<>> /\ peer = "closed" /\ Succeeds(data) /\ UNCHANGED inq
    <3>1. In' = data \o <<>> /\ op' = NoOp
      BY <2>4, <2>8, <2>11
    <3>2. at = "body" => Lengthy'
      BY <1>1, <1>2, <2>11, <3>1 DEF Lengthy, NoOp
    <3>3. <<>> = <<>> \o <<>>
      OBVIOUS
    <3> QED BY <1>4, <2>1, <2>2, <2>4, <2>11, <3>1, <3>2, <3>3
  <2>12. CASE Fails("read") /\ UNCHANGED inq
    BY <1>7, <2>1, <2>12
  <2>13. CASE Rearm /\ UNCHANGED inq
    BY <1>6, <1>7, <2>1, <2>13 DEF Rearm, Continues
  <2> QED BY <1>12, <2>9, <2>10, <2>11, <2>12, <2>13 DEF ReadCall
<1> QED BY <1>9, <1>10, <1>11, <1>12 DEF Body

\* The connection may be closed, as far as this invariant goes.
LEMMA PositionFrame ==
  ASSUME PositionInv,
         UNCHANGED <<at, asked, readbuff, line, answer, kal, sent, handled, inq, op, data, res>>,
         peer' # "reset" => peer # "reset" /\ (peer # "open" => peer' # "open")
  PROVE  PositionInv'
<1> SUFFICES ASSUME peer' # "reset", Intact' PROVE \E from : Holds(from)' /\ PlacedAt(from)'
  BY DEF PositionInv
<1>1. UNCHANGED <<NoRead, Failed, Reads>>
  BY NoReadSame DEF Failed, Reads
<1>2. UNCHANGED <<In, All>>
  BY <1>1 DEF In, All, Bytes
<1>3. Intact
  BY <1>1 DEF Intact
<1>4. PICK from : Holds(from) /\ PlacedAt(from)
  BY <1>3 DEF PositionInv
<1>5. Holds(from)'
  BY <1>2, <1>4 DEF Holds
<1>6. at = "body" => Lengthy'
  BY <1>2, <1>4 DEF PlacedAt, Lengthy
<1>7. PlacedAt(from)'
  BY <1>4, <1>6 DEF PlacedAt, Reached
<1> QED BY <1>5, <1>7

\* What the client sends comes behind what is held.
LEMMA SendsPosition ==
  ASSUME ByteTypes, Sequences, PositionInv, ClientSends, Elsewhere
  PROVE  PositionInv'
<1> SUFFICES ASSUME Intact' PROVE \E from : Holds(from)' /\ PlacedAt(from)'
  BY DEF PositionInv
<1>0. UNCHANGED <<at, asked, readbuff, line, answer, kal, handled, op, data, res>>
  BY DEF Elsewhere, PeerKeeps, bodyVars, careVars, history
<1>1. PICK k \in 0 .. Len(Wire) :
        /\ sent < k /\ sent' = k
        /\ inq' = inq \o SubSeq(Wire, sent + 1, k) /\ peer = "open" /\ peer' = "open"
  BY WireAssumption DEF ClientSends, PeerSends
<1>2. UNCHANGED <<NoRead, Failed, Reads>>
  BY <1>0, NoReadSame DEF Failed, Reads
<1>3. UNCHANGED <<In, All>>
  BY <1>0, <1>2 DEF In, All, Bytes
<1>4. PICK from : Holds(from) /\ PlacedAt(from)
  BY <1>0, <1>1, <1>2 DEF PositionInv, Intact
<1> DEFINE s == SubSeq(Wire, sent + 1, k)
<1>5. sent \in 0 .. Len(Wire) /\ sent \in 0 .. k /\ from \in 0 .. sent /\ from \in 0 .. k
      /\ inq \in Seq(Unit) /\ All \in Seq(Unit) /\ Wire \in Seq(Unit)
  BY <1>1, <1>4, HeldParts, WireAssumption DEF ByteTypes
<1>6. s = Slice(Wire, sent, k) /\ s \in Seq(Unit)
  BY <1>5, SliceIs DEF Slice
<1>7. Slice(Wire, from, sent) \o Slice(Wire, sent, k) = Slice(Wire, from, k)
  BY <1>5, SliceJoin
<1> HIDE DEF s
<1>8. All \o (inq \o s) = (All \o inq) \o s
  <2>1. \A y, u \in Seq(Unit) : All \o (y \o u) = (All \o y) \o u
    BY <1>5, UnitsRegroup
  <2> QED BY <1>5, <1>6, <2>1
<1>9. All \o inq = Slice(Wire, from, sent)
  BY <1>4 DEF Holds, Joins
<1>10. Joins(All', inq', Slice(Wire, from, k))
  BY <1>1, <1>3, <1>6, <1>7, <1>8, <1>9, Zenon DEF Joins, s
<1>11. Holds(from)'
  BY <1>0, <1>1, <1>4, <1>5, <1>10 DEF Holds
<1>12. at = "body" => Lengthy'
  BY <1>0, <1>1, <1>3, <1>4 DEF PlacedAt, Lengthy
<1>13. ASSUME NEW n \in 0 .. Len(EndOf), Reached(n, from) PROVE Reached(n, from)'
  <2>1. Mark(n) \in Nat /\ sent >= Mark(n)
    BY <1>1, <1>5, <1>13, WireFacts DEF Reached
  <2> QED BY <1>1, <1>5, <1>13, <2>1 DEF Reached, Least
<1>14. Len(handled) \in Nat /\ Len(EndOf) \in Nat
  BY HandledLength, WireFacts
<1>15. PlacedAt(from)'
  BY <1>0, <1>4, <1>12, <1>13, <1>14 DEF PlacedAt
<1> QED BY <1>11, <1>15

LEMMA OthersPosition ==
  ASSUME ByteTypes, Sequences, PositionInv, [Next]_vars, ~Care, ~(Body /\ CareKeeps)
  PROVE  PositionInv'
<1> DEFINE same == UNCHANGED <<at, asked, readbuff, line, answer, kal, sent, handled, inq, op, data, res>>
<1>1. Epoll /\ CareKeeps => same /\ UNCHANGED peer
  BY Zenon DEF Epoll, CareKeeps, careVars, clientVars, history, kernelVars, bodyVars, EpollWait,
         EpollSet, EpollNotify, EpollStops
<1>2. Fire \/ FireCancels \/ ShutFlag \/ Main \/ UNCHANGED vars => same /\ UNCHANGED peer
  BY Zenon DEF Fire, FireCancels, ShutFlag, Main, ShutSwap, ShutCancel, ShutTimers, ShutWioe,
         careVars, fileVars, kernelVars, bodyVars, clientVars, history, Cancel, Wioe, vars
<1>3. CASE same /\ UNCHANGED peer
  BY <1>3, PositionFrame
<1>4. CASE Client
  <2>1. UNCHANGED <<at, asked, readbuff, line, answer, kal, handled, op, data, res>> /\ Elsewhere
    BY <1>4 DEF Client, Elsewhere, PeerKeeps, bodyVars, careVars, history
  <2>2. CASE ClientReceives \/ ClientEnds
    BY <2>1, <2>2, PositionFrame
       DEF ClientReceives, ClientEnds, PeerReceives, PeerEnds, clientVars
  <2>3. CASE ClientResets
    BY <2>3 DEF ClientResets, PeerResets, PositionInv
  <2> QED BY <1>4, <2>1, <2>2, <2>3, SendsPosition DEF Client
<1> HIDE DEF same
<1> QED BY <1>1, <1>2, <1>3, <1>4 DEF Next
------------------------------------------------------------------------------
\* After an operation was asked for nothing is in its hands.
LEMMA AsksEmpty ==
  ASSUME op = NoOp, NEW q, NEW buff, NEW place, Asks(q, buff, place),
         place \in {"peek", "title", "headers", "body"}
  PROVE  /\ In' = <<>> /\ UNCHANGED <<inq, peer>>
         /\ readbuff' = buff /\ at' = place /\ asked' = q
         /\ op'.kind = "read" => op'.n = Request(q, buff)
         /\ op'.kind # "read" => Buffered(q, buff)
<1>1. readbuff' = buff /\ at' = place /\ asked' = q
  BY DEF Asks
<1>2. Reads'
  BY <1>1 DEF Reads
<1>3. CASE Buffered(q, buff)
  <2>1. NoRead' /\ UNCHANGED <<inq, peer, op>>
    BY <1>1, <1>3 DEF Asks, Rest, fileVars, kernelVars, bodyVars, NoRead
  <2>2. Bytes' = <<>> /\ op'.kind = "none"
    BY <2>1 DEF Bytes, NoOp
  <2> QED BY <1>1, <1>2, <1>3, <2>1, <2>2 DEF In
<1>4. CASE ~Buffered(q, buff)
  <2>1. /\ UNCHANGED <<inq, peer>> /\ data' = <<>>
        /\ op' = [kind |-> "read", n |-> Request(q, buff)]
    BY <1>4 DEF Asks, Started, kernelVars, Submit
  <2> QED BY <1>1, <1>2, <2>1 DEF In
<1> QED BY <1>3, <1>4

\* Between operations nothing is in the hands of one.
LEMMA NothingIn == op = NoOp /\ ~Reads => In = <<>>
BY DEF In, NoOp

LEMMA RestsIn ==
  ASSUME op = NoOp, Rest, at' \notin {"peek", "title", "headers", "body"}
  PROVE  In' = <<>> /\ UNCHANGED <<inq, peer, op>>
BY DEF Rest, fileVars, kernelVars, bodyVars, In, Reads, NoOp

\* Where the reading has come to, in terms of the wire.
LEMMA AllIs ==
  ASSUME ByteTypes, NEW from, Holds(from)
  PROVE  /\ All \in Seq(Unit) /\ Len(All) \in Nat /\ from \in Nat /\ sent \in Nat
         /\ from + Len(All) <= sent /\ sent <= Len(Wire)
         /\ \A i \in 1 .. Len(All) : All[i] = Wire[from + i]
         /\ inq = <<>> => from + Len(All) = sent
<1> DEFINE m == from + Len(All)
<1>1. /\ All \in Seq(Unit) /\ from \in 0 .. sent /\ sent \in 0 .. Len(Wire) /\ m \in from .. sent
      /\ All = Slice(Wire, from, m) /\ inq = Slice(Wire, m, sent) /\ Wire \in Seq(Unit)
  BY HeldParts, WireAssumption
<1>2. Len(All) \in Nat /\ m - from = Len(All)
  BY <1>1
<1>3. from \in 0 .. m /\ m \in 0 .. Len(Wire) /\ m \in 0 .. sent
  BY <1>1, <1>2
<1> HIDE DEF m
<1>4. \A i \in 1 .. m - from : Slice(Wire, from, m)[i] = Wire[from + i]
  BY <1>1, <1>3, SliceIs
<1>5. Len(Slice(Wire, m, sent)) = sent - m
  BY <1>1, <1>3, SliceIs
<1>6. inq = <<>> => Len(inq) = 0
  OBVIOUS
<1>7. inq = <<>> => m = sent
  BY <1>1, <1>3, <1>5, <1>6
<1> QED BY <1>1, <1>2, <1>3, <1>4, <1>7 DEF m

\* The care waits for the first byte of a request, and begins to read it.
LEMMA IdlePosition ==
  ASSUME FileInv, ByteTypes, PositionInv, Idle
  PROVE  PositionInv'
<1> SUFFICES ASSUME peer' # "reset", Intact' PROVE \E from : Holds(from)' /\ PlacedAt(from)'
  BY DEF PositionInv
<1>1. op = NoOp /\ at = "care" /\ Asks(Peek(1), readbuff, "peek") /\ UNCHANGED <<line, sent, handled>>
  BY DEF Idle, OnWorker, FileInv, OperationInv, clientVars
<1>2. In' = <<>> /\ UNCHANGED <<inq, peer>> /\ readbuff' = readbuff /\ at' = "peek"
  BY <1>1, AsksEmpty
<1>3. PICK from : Holds(from) /\ PlacedAt(from)
  BY <1>1, <1>2 DEF PositionInv, Intact
<1>4. In = <<>>
  BY <1>1, NothingIn DEF Reads
<1>5. Holds(from)'
  BY <1>1, <1>2, <1>3, <1>4 DEF Holds, All
<1>6. PlacedAt(from)'
  BY <1>1, <1>2, <1>3 DEF PlacedAt, Reached
<1> QED BY <1>5, <1>6

LEMMA BeginPosition ==
  ASSUME FileInv, Sequences, ByteTypes, AskedInv, PositionInv, Begin
  PROVE  PositionInv'
<1> SUFFICES ASSUME peer' # "reset", Intact' PROVE \E from : Holds(from)' /\ PlacedAt(from)'
  BY DEF PositionInv
<1>1. /\ op = NoOp /\ at = "peek" /\ kal' = FALSE /\ asked = Peek(1)
      /\ UNCHANGED <<line, sent, handled>>
  BY DEF Begin, OnWorker, FileInv, OperationInv, AskedInv, clientVars
<1>2. ~Failed /\ Read.result # <<>> /\ Asks(ToPattern(<<CRLF>>), Left, "title")
  <2>1. at' \in {"write", "done"} => ~Intact'
    BY <1>1 DEF Intact, Reads
  <2> QED BY <2>1 DEF Begin, Replies, Drops
<1>3. In' = <<>> /\ UNCHANGED <<inq, peer>> /\ readbuff' = Left /\ at' = "title"
  BY <1>1, <1>2, AsksEmpty
<1>4. PICK from : Holds(from) /\ PlacedAt(from)
  BY <1>1, <1>2, <1>3 DEF PositionInv, Intact, Reads
<1>5. In = Bytes /\ All = readbuff \o Bytes
  BY <1>1 DEF In, All, Reads, NoOp
<1>6. Left = All /\ Read.result = Up(Shorter(1, All), All)
  <2>1. Left = Outcome(Peek(1), readbuff, Bytes).left /\ Read = Outcome(Peek(1), readbuff, Bytes)
    BY <1>1, <1>2 DEF Left, Read
  <2>2. /\ Outcome(Peek(1), readbuff, Bytes).left = All
        /\ Outcome(Peek(1), readbuff, Bytes).result = Up(Shorter(1, All), All)
    BY <1>5, PeekOutcome
  <2> QED BY <2>1, <2>2
<1>7. All \in Seq(Unit) /\ Len(All) \in Nat /\ from \in Nat /\ sent \in Nat /\ from + Len(All) <= sent
  BY <1>4, AllIs
<1>8. Len(All) >= 1
  <2>1. Len(All) = 0 => Up(Shorter(1, All), All) = <<>>
    BY <1>7 DEF Up, Shorter
  <2> QED BY <1>2, <1>6, <1>7, <2>1
<1>9. Past(0, All) = All
  BY <1>7, PastNone
<1>10. Holds(from + 0)'
  BY <1>1, <1>3, <1>4, <1>6, <1>7, <1>9, Advance
<1>11. from + 0 = from
  BY <1>7
<1>12. from = Mark(Len(handled))
  <2>1. Reached(Len(handled), from) /\ Len(handled) \in 0 .. Len(EndOf)
    BY <1>1, <1>4, HandledLength, WireFacts DEF PlacedAt
  <2> QED BY <1>7, <1>8, <2>1, WireFacts DEF Reached, Least
<1>13. PlacedAt(from)'
  BY <1>1, <1>3, <1>4, <1>12 DEF PlacedAt
<1> QED BY <1>10, <1>11, <1>13

\* What has come is kept while the pattern is missing.
LEMMA ReadsOnPosition ==
  ASSUME FileInv, ByteTypes, PositionInv, ReadsOn, bpc = "idle", at \in {"title", "headers"},
         UNCHANGED <<sent, handled>>
  PROVE  PositionInv'
<1> SUFFICES ASSUME peer' # "reset", Intact' PROVE \E from : Holds(from)' /\ PlacedAt(from)'
  BY DEF PositionInv
<1>1. /\ op = NoOp /\ UNCHANGED <<at, asked, line, inq, peer>> /\ readbuff' = readbuff \o Bytes
      /\ op'.kind = "read" /\ data' = <<>>
  BY DEF ReadsOn, Started, Submit, kernelVars, FileInv, OperationInv
<1>2. In' = <<>> /\ In = Bytes
  BY <1>1 DEF In, Reads, NoOp
<1>3. Intact
  BY DEF ReadsOn, Ended, Intact, Reads
<1>4. PICK from : Holds(from) /\ PlacedAt(from)
  BY <1>1, <1>3 DEF PositionInv
<1>5. All \in Seq(Unit) /\ Len(All) \in Nat /\ from \in Nat
  BY <1>4, AllIs
<1>6. Past(0, All) = All
  BY <1>5, PastNone
<1>7. Holds(from + 0)'
  BY <1>1, <1>2, <1>4, <1>5, <1>6, Advance DEF All
<1>8. from + 0 = from
  BY <1>5
<1>9. PlacedAt(from)'
  BY <1>1, <1>4 DEF PlacedAt
<1> QED BY <1>7, <1>8, <1>9

\* Where a request that is on the wire has its title and its headers.
LEMMA TitleFound ==
  ASSUME ByteTypes, NEW from, Holds(from), NEW n \in 0 .. Len(EndOf), from = Mark(n),
         NEW e, e = PatternEnd(<<CRLF>>, All), e # 0
  PROVE  /\ e \in 1 .. Len(All) /\ All[1] = Wire[from + 1]
         /\ n < Len(EndOf) => e = 2
<1>1. /\ All \in Seq(Unit) /\ Len(All) \in Nat /\ from \in Nat /\ sent \in Nat
      /\ \A i \in 1 .. Len(All) : All[i] = Wire[from + i]
  BY AllIs
<1>2. Occurrences(<<CRLF>>, All) = {j \in 1 .. Len(All) : All[j] = CRLF}
  BY <1>1, OneFound
<1>3. e \in 1 .. Len(All) /\ All[e] = CRLF /\ \A j \in 1 .. Len(All) : All[j] = CRLF => e <= j
  <2>1. Occurrences(<<CRLF>>, All) \subseteq Nat \ {0}
    BY <1>1, <1>2
  <2> QED BY <1>2, <2>1, FirstFound
<1>4. ASSUME n < Len(EndOf) PROVE e = 2
  <2>0. n \in 0 .. Len(EndOf) - 1
    BY <1>4, WireFacts
  <2>1. Wire[from + 1] # CRLF /\ Wire[from + 2] = CRLF
    BY <2>0, WireFacts
  <2>2. All[1] # CRLF
    BY <1>1, <1>3, <2>1
  <2>3. e >= 2 /\ 2 \in 1 .. Len(All)
    BY <1>1, <1>3, <2>2
  <2>4. All[2] = CRLF
    BY <1>1, <2>1, <2>3
  <2> QED BY <1>1, <1>3, <2>3, <2>4
<1> QED BY <1>1, <1>3, <1>4

LEMMA HeadersFound ==
  ASSUME ByteTypes, NEW from, Holds(from), NEW n \in 0 .. Len(EndOf), from >= Mark(n),
         n < Len(EndOf) => from = Mark(n) + 2,
         NEW e, e = PatternEnd(<<CRLF, CRLF>>, All), e # 0
  PROVE  n < Len(EndOf) /\ e = 3 /\ e \in 1 .. Len(All) /\ All[1] = Wire[Mark(n) + 3]
<1>1. /\ All \in Seq(Unit) /\ Len(All) \in Nat /\ from \in Nat /\ sent \in Nat
      /\ from + Len(All) <= sent /\ sent <= Len(Wire)
      /\ \A i \in 1 .. Len(All) : All[i] = Wire[from + i]
  BY AllIs
<1>2. Occurrences(<<CRLF, CRLF>>, All) = {j \in 2 .. Len(All) : All[j - 1] = CRLF /\ All[j] = CRLF}
  BY <1>1, TwoFound
<1>3. /\ e \in 2 .. Len(All) /\ All[e - 1] = CRLF /\ All[e] = CRLF
      /\ \A j \in 2 .. Len(All) : All[j - 1] = CRLF /\ All[j] = CRLF => e <= j
  <2>1. Occurrences(<<CRLF, CRLF>>, All) \subseteq Nat \ {0}
    BY <1>1, <1>2
  <2> QED BY <1>2, <2>1, FirstFound
<1>4. Mark(n) \in Nat /\ Len(Wire) \in Nat /\ Len(EndOf) \in Nat
  BY WireFacts
<1>5. n < Len(EndOf)
  <2> SUFFICES ASSUME n = Len(EndOf) PROVE FALSE
    BY <1>4
  <2>1. PICK j \in Int : j = from + (e - 1)
    BY <1>1, <1>3
  <2>0. e \in Nat /\ 2 <= e /\ e <= Len(All)
    BY <1>1, <1>3
  <2>2. j \in 1 .. Len(Wire) - 1 /\ j > Mark(n) /\ j + 1 = from + e
    <3>1. from >= Mark(n) /\ from + e <= Len(Wire)
      BY <1>1, <1>4, <2>0
    <3> QED BY <1>1, <1>4, <2>0, <2>1, <3>1
  <2>3. e - 1 \in 1 .. Len(All) /\ e \in 1 .. Len(All)
    BY <1>1, <1>3
  <2>4. Wire[j] = CRLF /\ Wire[j + 1] = CRLF
    BY <1>1, <1>3, <2>1, <2>2, <2>3
  <2> QED BY <2>2, <2>4, WireFacts
<1>6. /\ Wire[Mark(n) + 3] # CRLF /\ Wire[Mark(n) + 4] = CRLF /\ Wire[Mark(n) + 5] = CRLF
      /\ from = Mark(n) + 2
  BY <1>5, WireFacts
<1>7. from + 1 = Mark(n) + 3 /\ from + 2 = Mark(n) + 4 /\ from + 3 = Mark(n) + 5
  BY <1>4, <1>6
<1>8. e \in Nat /\ 2 <= e /\ e <= Len(All)
  BY <1>1, <1>3
<1>9. All[1] = Wire[Mark(n) + 3] /\ All[2] = CRLF
  <2>1. 1 \in 1 .. Len(All) /\ 2 \in 1 .. Len(All)
    BY <1>1, <1>8
  <2>2. All[1] = Wire[from + 1] /\ All[2] = Wire[from + 2]
    BY <1>1, <2>1
  <2> QED BY <1>6, <1>7, <2>2
<1>10. e # 2
  BY <1>3, <1>6, <1>9
<1>11. 3 \in 2 .. Len(All) /\ 3 \in 1 .. Len(All) /\ e >= 3
  BY <1>1, <1>8, <1>10
<1>12. All[3] = CRLF /\ All[3 - 1] = CRLF
  <2>1. All[3] = Wire[from + 3]
    BY <1>1, <1>11
  <2> QED BY <1>6, <1>7, <1>9, <2>1
<1>13. e = 3
  BY <1>3, <1>8, <1>11, <1>12
<1> QED BY <1>5, <1>9, <1>11, <1>13
------------------------------------------------------------------------------
\* A read that has failed, or that has brought an error, keeps nothing.
LEMMA NotConcluded ==
  ASSUME NEW verdict, Concludes(verdict), verdict # "none"
  PROVE  ~Intact'
BY DEF Concludes, Intact, Reads

LEMMA OnErrorIs == OnError # "none"
BY DEF OnError

\* A pattern was found where an operation ends with success.
LEMMA FoundPattern ==
  ASSUME op = NoOp, Reads, Ended, ~Failed, NEW p, asked = ToPattern(p), Read.ok
  PROVE  /\ In = Bytes /\ PatternEnd(p, All) # 0
         /\ Left = Past(PatternEnd(p, All), All) /\ Read.result = Up(PatternEnd(p, All), All)
<1>1. In = Bytes /\ All = readbuff \o Bytes
  BY DEF In, All, NoOp
<1>2. Read = Outcome(ToPattern(p), readbuff, Bytes)
  BY DEF Read
<1>3. Outcome(ToPattern(p), readbuff, Bytes).ok
  BY <1>2
<1>4. /\ PatternEnd(p, All) # 0
      /\ Outcome(ToPattern(p), readbuff, Bytes).left = Past(PatternEnd(p, All), All)
      /\ Outcome(ToPattern(p), readbuff, Bytes).result = Up(PatternEnd(p, All), All)
  BY <1>1, <1>3, PatternOutcome
<1>5. Left = Read.left
  BY DEF Left
<1> QED BY <1>1, <1>2, <1>4, <1>5

\* The headers that were found are those of the next request.
LEMMA HeadersTaken ==
  ASSUME FileInv, Sequences, ByteTypes, AskedInv, PositionInv, At("headers"), Found, peer # "reset"
  PROVE  /\ Len(handled) < Len(EndOf) /\ line = <<Wire[Mark(Len(handled)) + 1]>>
         /\ Head(Read.result) = Wire[Mark(Len(handled)) + 3]
<1>1. op = NoOp /\ Reads /\ asked = ToPattern(<<CRLF, CRLF>>) /\ Ended /\ ~Failed /\ Read.ok
  BY DEF At, OnWorker, FileInv, OperationInv, AskedInv, Reads, Found
<1>2. PICK e, n : e = PatternEnd(<<CRLF, CRLF>>, All) /\ n = Len(handled)
  OBVIOUS
<1>3. e # 0 /\ Read.result = Up(e, All)
  BY <1>1, <1>2, FoundPattern
<1>4. PICK from : Holds(from) /\ PlacedAt(from)
  BY <1>1 DEF PositionInv, Intact
<1>5. /\ n \in 0 .. Len(EndOf) /\ from >= Mark(n)
      /\ n < Len(EndOf) => from = Mark(n) + 2 /\ line = <<Wire[Mark(n) + 1]>>
  BY <1>2, <1>4, HandledLength, WireFacts DEF PlacedAt, At
<1>6. n < Len(EndOf) /\ e \in 1 .. Len(All) /\ All[1] = Wire[Mark(n) + 3]
  BY <1>2, <1>3, <1>4, <1>5, HeadersFound
<1>7. Head(Up(e, All)) = All[1]
  BY <1>4, <1>6, AllIs, HeadOfUp
<1> QED BY <1>2, <1>3, <1>5, <1>6, <1>7

\* The title and its end are taken off, ...
LEMMA TitlePosition ==
  ASSUME FileInv, Sequences, ByteTypes, AskedInv, PositionInv, ReadTitle
  PROVE  PositionInv'
<1>0. UNCHANGED <<sent, handled>> /\ at = "title" /\ bpc = "idle"
  BY DEF ReadTitle, ReadKeeps, At, OnWorker, clientVars, history
<1>1. CASE ReadsOn
  BY <1>0, <1>1, ReadsOnPosition
<1>2. CASE ~ReadsOn
  <2> SUFFICES ASSUME peer' # "reset", Intact' PROVE \E from : Holds(from)' /\ PlacedAt(from)'
    BY DEF PositionInv
  <2>1. /\ Found /\ Ended /\ ~Failed /\ Read.ok
        /\ Asks(ToPattern(<<CRLF, CRLF>>), Left, "headers") /\ line' = <<Head(Read.result)>>
    BY <1>2, NotConcluded, OnErrorIs DEF ReadTitle, Found
  <2>2. op = NoOp /\ Reads /\ asked = ToPattern(<<CRLF>>)
    BY <1>0 DEF FileInv, OperationInv, AskedInv, Reads
  <2>0. PICK e, n : e = PatternEnd(<<CRLF>>, All) /\ n = Len(handled)
    OBVIOUS
  <2>3. e # 0 /\ Left = Past(e, All) /\ Read.result = Up(e, All)
    BY <2>0, <2>1, <2>2, FoundPattern
  <2>4. In' = <<>> /\ UNCHANGED <<inq, peer>> /\ readbuff' = Past(e, All) /\ at' = "headers"
    BY <2>1, <2>2, <2>3, AsksEmpty
  <2>5. PICK from : Holds(from) /\ PlacedAt(from)
    BY <2>1, <2>2, <2>4 DEF PositionInv, Intact
  <2>6. n \in 0 .. Len(EndOf) /\ from = Mark(n)
    BY <1>0, <2>0, <2>5, HandledLength, WireFacts DEF PlacedAt
  <2>7. e \in 1 .. Len(All) /\ All[1] = Wire[from + 1] /\ (n < Len(EndOf) => e = 2)
    BY <2>0, <2>3, <2>5, <2>6, TitleFound
  <2>8. All \in Seq(Unit) /\ Len(All) \in Nat
    BY <2>5, AllIs
  <2>9. line' = <<Wire[from + 1]>>
    <3>1. Head(Up(e, All)) = All[1]
      BY <2>7, <2>8, HeadOfUp
    <3> QED BY <2>1, <2>3, <2>7, <3>1
  <2>10. Holds(from + e)'
    <3>1. e \in 0 .. Len(All)
      BY <2>7, <2>8
    <3> QED BY <1>0, <2>4, <2>5, <3>1, Advance
  <2>11. from + e >= Mark(n) /\ (n < Len(EndOf) => from + e = Mark(n) + 2)
    <3>1. Mark(n) \in Nat /\ e \in Nat
      BY <2>6, <2>7, <2>8, WireFacts
    <3> QED BY <2>6, <2>7, <3>1
  <2>12. PlacedAt(from + e)'
    BY <1>0, <2>0, <2>4, <2>5, <2>6, <2>9, <2>11 DEF PlacedAt
  <2> QED BY <2>10, <2>12
<1> QED BY <1>1, <1>2

\* ... then the headers and theirs, ...
LEMMA HeadersPosition ==
  ASSUME FileInv, Sequences, ByteTypes, AskedInv, PositionInv, ReadHeaders
  PROVE  PositionInv'
<1>0. UNCHANGED <<sent, handled>> /\ at = "headers" /\ bpc = "idle"
  BY DEF ReadHeaders, ReadKeeps, At, OnWorker, clientVars, history
<1>1. CASE ReadsOn
  BY <1>0, <1>1, ReadsOnPosition
<1>2. CASE ~ReadsOn
  <2> SUFFICES ASSUME peer' # "reset", Intact' PROVE \E from : Holds(from)' /\ PlacedAt(from)'
    BY DEF PositionInv
  <2>1. /\ Ended /\ ~Failed /\ Read.ok
        /\ line' = Append(line, Head(Read.result))
        /\ IF Length[Last(line')] > 0
           THEN Asks(Upto(Length[Last(line')]), Left, "body")
           ELSE at' = "read" /\ readbuff' = Left /\ Rest
    BY <1>2, NotConcluded, OnErrorIs DEF ReadHeaders, Found
  <2>2. op = NoOp /\ Reads /\ asked = ToPattern(<<CRLF, CRLF>>)
    BY <1>0 DEF FileInv, OperationInv, AskedInv, Reads
  <2>0. PICK e, n, N : e = PatternEnd(<<CRLF, CRLF>>, All) /\ n = Len(handled) /\ N = Length[Last(line')]
    OBVIOUS
  <2>3. e # 0 /\ Left = Past(e, All) /\ Read.result = Up(e, All)
    BY <2>0, <2>1, <2>2, FoundPattern
  <2>4. /\ In' = <<>> /\ UNCHANGED <<inq, peer>> /\ readbuff' = Past(e, All)
        /\ \/ /\ N > 0 /\ at' = "body" /\ asked' = Upto(N)
              /\ op'.kind = "read" => op'.n = N - Len(readbuff')
              /\ op'.kind # "read" => Len(readbuff') >= N
           \/ ~(N > 0) /\ at' = "read"
    <3>1. CASE N > 0
      <4>1. Asks(Upto(N), Left, "body")
        BY <2>0, <2>1, <3>1
      <4>2. /\ In' = <<>> /\ UNCHANGED <<inq, peer>> /\ readbuff' = Left /\ at' = "body" /\ asked' = Upto(N)
            /\ op'.kind = "read" => op'.n = Request(Upto(N), Left)
            /\ op'.kind # "read" => Buffered(Upto(N), Left)
        BY <2>2, <4>1, AsksEmpty
      <4>3. Request(Upto(N), Left) = N - Len(Left) /\ (Buffered(Upto(N), Left) => Len(Left) >= N)
        BY DEF Request, Buffered, Upto
      <4> QED BY <2>3, <3>1, <4>2, <4>3
    <3>2. CASE ~(N > 0)
      <4>1. Rest /\ at' = "read" /\ readbuff' = Left
        BY <2>0, <2>1, <3>2
      <4>2. In' = <<>> /\ UNCHANGED <<inq, peer>>
        BY <2>2, <4>1, RestsIn
      <4> QED BY <2>3, <3>2, <4>1, <4>2
    <3> QED BY <3>1, <3>2
  <2>5. PICK from : Holds(from) /\ PlacedAt(from)
    BY <2>1, <2>2, <2>4 DEF PositionInv, Intact
  <2>6. /\ n \in 0 .. Len(EndOf) /\ from >= Mark(n)
        /\ n < Len(EndOf) => from = Mark(n) + 2 /\ line = <<Wire[Mark(n) + 1]>>
    BY <1>0, <2>0, <2>5, HandledLength, WireFacts DEF PlacedAt
  <2>7. n < Len(EndOf) /\ e = 3 /\ e \in 1 .. Len(All) /\ All[1] = Wire[Mark(n) + 3]
    BY <2>0, <2>3, <2>5, <2>6, HeadersFound
  <2>8. All \in Seq(Unit) /\ Len(All) \in Nat
    BY <2>5, AllIs
  <2>9. line' = <<Wire[Mark(n) + 1], Wire[Mark(n) + 3]>>
    <3>1. Head(Up(e, All)) = All[1]
      BY <2>7, <2>8, HeadOfUp
    <3>2. line' = Append(<<Wire[Mark(n) + 1]>>, Wire[Mark(n) + 3])
      BY <2>1, <2>3, <2>6, <2>7, <3>1
    <3> QED BY <3>2, AppendPair, Zenon
  <2>10. Holds(from + e)'
    <3>1. e \in 0 .. Len(All)
      BY <2>7, <2>8
    <3> QED BY <1>0, <2>4, <2>5, <3>1, Advance
  <2>11. Mark(n) \in Nat /\ Mark(n + 1) \in Nat /\ n \in Nat /\ from + e = Mark(n) + 5
    <3>1. Mark(n) \in Nat /\ Mark(n + 1) \in Nat /\ n \in Nat
      BY <2>6, <2>7, WireFacts
    <3> QED BY <2>6, <2>7, <3>1
  <2>12. N = Mark(n + 1) - Mark(n) - 5 /\ Mark(n) + 5 <= Mark(n + 1)
    <3>1. Last(line') = Wire[Mark(n) + 3]
      BY <2>9 DEF Last
    <3>2. n \in 0 .. Len(EndOf) - 1
      BY <2>6, <2>7
    <3> QED BY <2>0, <3>1, <3>2, WireFacts
  <2>13. at' = "body" => Lengthy'
    <3> SUFFICES ASSUME at' = "body" PROVE Lengthy'
      OBVIOUS
    <3>1. asked'.n = N
      BY <2>4 DEF Upto
    <3>2. All' = readbuff'
      <4>1. readbuff' \in Seq(Unit)
        BY <2>10 DEF Holds
      <4> QED BY <2>4, <4>1, PastNone DEF All
    <3> QED BY <2>4, <3>1, <3>2 DEF Lengthy
  <2>14. at' = "read" => Reached(n + 1, from + e)'
    <3> SUFFICES ASSUME at' = "read" PROVE Reached(n + 1, from + e)'
      OBVIOUS
    <3>1. Mark(n + 1) = from + e
      BY <2>4, <2>11, <2>12
    <3>2. from + e <= sent /\ sent \in Nat
      BY <2>5, <2>7, <2>8, AllIs
    <3> QED BY <1>0, <2>11, <3>1, <3>2 DEF Reached, Least
  <2>15. PlacedAt(from + e)'
    BY <1>0, <2>0, <2>4, <2>5, <2>6, <2>7, <2>9, <2>11, <2>13, <2>14 DEF PlacedAt
  <2> QED BY <2>10, <2>15
<1> QED BY <1>1, <1>2

\* ... then the body, or what there is of it when the client has ended.
LEMMA BodyReadPosition ==
  ASSUME FileInv, Sequences, ByteTypes, AskedInv, PositionInv, ReadBody
  PROVE  PositionInv'
<1> SUFFICES ASSUME peer' # "reset", Intact' PROVE \E from : Holds(from)' /\ PlacedAt(from)'
  BY DEF PositionInv
<1>1. /\ UNCHANGED <<sent, handled, line>> /\ at = "body" /\ op = NoOp /\ Reads
      /\ at' = "read" /\ readbuff' = Left /\ Rest
  BY DEF ReadBody, ReadKeeps, At, OnWorker, clientVars, history, Concludes, FileInv, OperationInv,
         Reads
<1>2. ~Failed
  BY NotConcluded, OnErrorIs DEF ReadBody
<1>3. PICK from : Holds(from) /\ PlacedAt(from)
  BY <1>1, <1>2 DEF PositionInv, Intact, Rest, fileVars, kernelVars
<1>4. In' = <<>> /\ UNCHANGED <<inq, peer>>
  BY <1>1, RestsIn
<1>0. PICK n, N, e : n = Len(handled) /\ N = BodyLength(n) /\ e = Shorter(N, All)
  OBVIOUS
<1>5. asked = Upto(N) /\ N \in Nat
  BY <1>0, <1>1, <1>3, AskedLength
<1>6. In = Bytes /\ Left = Past(e, All)
  <2>1. In = Bytes /\ All = readbuff \o Bytes
    BY <1>1 DEF In, All, NoOp
  <2>2. Left = Outcome(Upto(N), readbuff, Bytes).left
    BY <1>2, <1>5 DEF Left, Read
  <2>3. Outcome(Upto(N), readbuff, Bytes).left = Past(Shorter(N, All), All)
    BY <2>1, UptoOutcome
  <2> QED BY <1>0, <2>1, <2>2, <2>3
<1>7. /\ n < Len(EndOf) /\ from = Mark(n) + 5 /\ (Len(All) >= N \/ (peer # "open" /\ inq = <<>>))
      /\ line = <<Wire[Mark(n) + 1], Wire[Mark(n) + 3]>>
  <2>1. asked.n = N /\ op.kind # "read"
    BY <1>1, <1>5 DEF Upto, NoOp
  <2> QED BY <1>0, <1>1, <1>3, <2>1 DEF PlacedAt, Lengthy
<1>8. n \in Nat /\ Mark(n) \in Nat /\ Mark(n + 1) \in Nat /\ N = Mark(n + 1) - Mark(n) - 5
  BY <1>0, <1>7, HandledLength, WireFacts DEF BodyLength
<1>9. /\ Len(All) \in Nat /\ from \in Nat /\ sent \in Nat /\ from + Len(All) <= sent
      /\ inq = <<>> => from + Len(All) = sent
  BY <1>3, AllIs
<1>10. e \in 0 .. Len(All)
  BY <1>0, <1>5, <1>9 DEF Shorter
<1>11. Holds(from + e)'
  <2>1. readbuff' = Past(e, All)
    BY <1>1, <1>6
  <2> QED BY <1>1, <1>3, <1>4, <1>10, <2>1, Advance
<1>12. Reached(n + 1, from + e)'
  <2>1. CASE Len(All) >= N
    <3>1. e = N
      BY <1>0, <1>5, <1>9, <2>1 DEF Shorter
    <3>2. from + e = Mark(n + 1) /\ from + e <= sent
      <4>1. from + N = Mark(n + 1)
        BY <1>7, <1>8
      <4>2. from + N <= sent
        BY <1>5, <1>9, <2>1
      <4> QED BY <3>1, <4>1, <4>2
    <3>3. sent' = sent
      BY <1>1
    <3> QED BY <1>8, <1>9, <3>2, <3>3 DEF Reached, Least
  <2>2. CASE ~(Len(All) >= N)
    <3>1. e = Len(All) /\ from + Len(All) = sent /\ peer # "open"
      BY <1>0, <1>5, <1>7, <1>9, <2>2 DEF Shorter
    <3>2. from + e = sent /\ sent < Mark(n + 1)
      <4>1. from + N = Mark(n + 1)
        BY <1>7, <1>8
      <4>2. from + Len(All) < from + N
        BY <1>5, <1>9, <2>2
      <4> QED BY <3>1, <4>1, <4>2
    <3>3. sent' = sent /\ peer' # "open"
      BY <1>1, <1>4, <3>1
    <3> QED BY <1>8, <1>9, <3>2, <3>3 DEF Reached, Least
  <2> QED BY <2>1, <2>2
<1>13. PlacedAt(from + e)'
  BY <1>0, <1>1, <1>3, <1>7, <1>12 DEF PlacedAt
<1> QED BY <1>11, <1>13

\* The request is handled, answered, and the next one is waited for.
LEMMA TakePosition ==
  ASSUME FileInv, AnswersInv, Sequences, ByteTypes, PositionInv, Take
  PROVE  PositionInv'
<1> SUFFICES ASSUME peer' # "reset", Intact' PROVE \E from : Holds(from)' /\ PlacedAt(from)'
  BY DEF PositionInv
<1>1. at = "read" /\ op = NoOp /\ UNCHANGED <<readbuff, line, sent, kal>> /\ kal = FALSE
  BY DEF Take, At, OnWorker, FileInv, OperationInv, AnswersInv, clientVars
<1>2. answer = "none" /\ handled' = Append(handled, line) /\ at' = "serve" /\ Rest
  <2>1. at' \in {"write", "done"} => ~Intact'
    BY <1>1 DEF Intact, Reads
  <2> QED BY <2>1 DEF Take, Replies, Drops
<1>3. In' = <<>> /\ In = <<>> /\ UNCHANGED <<inq, peer>>
  BY <1>1, <1>2, RestsIn, NothingIn DEF Reads
<1>4. PICK from : Holds(from) /\ PlacedAt(from)
  BY <1>1, <1>2, <1>3 DEF PositionInv, Intact
<1>5. Holds(from)'
  BY <1>1, <1>3, <1>4 DEF Holds, All
<1>0. PICK n : n = Len(handled)
  OBVIOUS
<1>6. Len(handled') = n + 1 /\ n \in Nat /\ handled'[n + 1] = line
      /\ \A i \in 1 .. n : handled'[i] = handled[i]
  <2>1. PICK V : SequencesOf(V)
    BY DEF Sequences
  <2>2. handled \in Seq(V \cup {line}) /\ line \in V \cup {line}
    <3>1. SequencesOf(V \cup {line})
      BY <2>1, SequencesMore
    <3> QED BY <3>1 DEF SequencesOf
  <2> QED BY <1>0, <1>2, <2>2
<1>7. n < Len(EndOf) /\ line = <<Wire[Mark(n) + 1], Wire[Mark(n) + 3]>> /\ Reached(n + 1, from)
  BY <1>0, <1>1, <1>4 DEF PlacedAt
<1>8. \A i \in 1 .. n : handled[i] = <<Wire[Mark(i - 1) + 1], Wire[Mark(i - 1) + 3]>>
  BY <1>0, <1>4 DEF PlacedAt
<1>9. ASSUME NEW i \in 1 .. n + 1
      PROVE  handled'[i] = <<Wire[Mark(i - 1) + 1], Wire[Mark(i - 1) + 3]>>
  <2>1. CASE i \in 1 .. n
    BY <1>6, <1>8, <2>1
  <2>2. CASE i = n + 1
    <3>1. i - 1 = n
      BY <1>6, <2>2
    <3> QED BY <1>6, <1>7, <2>2, <3>1
  <2> QED BY <1>6, <2>1, <2>2
<1>10. Reached(n + 1, from)'
  BY <1>1, <1>3, <1>7 DEF Reached
<1>11. n + 1 <= Len(EndOf)
  BY <1>6, <1>7, WireFacts
<1>12. PlacedAt(from)'
  BY <1>2, <1>6, <1>9, <1>10, <1>11 DEF PlacedAt
<1> QED BY <1>5, <1>12

LEMMA AnswerPosition ==
  ASSUME FileInv, ByteTypes, PositionInv, Respond \/ Written
  PROVE  PositionInv'
<1> SUFFICES ASSUME peer' # "reset", Intact' PROVE \E from : Holds(from)' /\ PlacedAt(from)'
  BY DEF PositionInv
<1>1. /\ op = NoOp /\ UNCHANGED <<readbuff, line, sent, handled>>
      /\ \/ at = "serve" /\ at' = "write"
         \/ at = "write" /\ kal /\ at' = "care"
  <2>1. CASE Respond
    BY <2>1 DEF Respond, At, OnWorker, FileInv, OperationInv, Replies, clientVars
  <2>2. CASE Written
    <3>1. at' = "done" => ~Intact'
      BY DEF Intact, Reads
    <3> QED BY <2>2, <3>1 DEF Written, At, OnWorker, FileInv, OperationInv, Drops, clientVars
  <2> QED BY <2>1, <2>2
<1>2. UNCHANGED <<inq, peer>> /\ op'.kind # "read"
  BY <1>1 DEF Respond, Written, Replies, Drops, Rest, fileVars, bodyVars, kernelVars, Started, Submit,
         NoOp
<1>3. In' = <<>> /\ In = <<>>
  BY <1>1, <1>2 DEF In, Reads, NoOp
<1>4. PICK from : Holds(from) /\ PlacedAt(from)
  BY <1>1, <1>2 DEF PositionInv, Intact
<1>5. Holds(from)'
  BY <1>1, <1>2, <1>3, <1>4 DEF Holds, All
<1>6. PlacedAt(from)'
  BY <1>1, <1>2, <1>4 DEF PlacedAt, Reached
<1> QED BY <1>5, <1>6

LEMMA CarePosition ==
  ASSUME FileInv, AnswersInv, Sequences, ByteTypes, AskedInv, PositionInv, Care
  PROVE  PositionInv'
<1>1. LetGo => ~Intact'
  BY DEF LetGo, careVars, Intact, Reads
<1>2. LetGo => PositionInv'
  BY <1>1 DEF PositionInv
<1> QED BY <1>2, IdlePosition, BeginPosition, TitlePosition, HeadersPosition, BodyReadPosition,
           TakePosition, AnswerPosition DEF Care
------------------------------------------------------------------------------
LEMMA BytesInit == Init => BytesInv
<1> SUFFICES ASSUME Init PROVE BytesInv
  OBVIOUS
<1>1. PlaceInv /\ AnswersInv /\ Sequences
  BY ResponseInit DEF ResponseInv
<1>2. /\ op = NoOp /\ at = "care" /\ readbuff = <<>> /\ handled = <<>> /\ inq = <<>>
      /\ res = NoResult /\ sent = 0 /\ peer = "open"
  BY Zenon DEF Init, FileInit
<1>3. ByteTypes /\ AskedInv
  BY <1>2, WireFacts DEF ByteTypes, AskedInv, NoOp, NoResult
<1>4. In = <<>>
  BY <1>2 DEF In, NoOp, Reads
<1>5. <<>> \o <<>> = <<>> /\ SubSeq(Wire, 1, 0) = <<>>
  BY WireFacts
<1>6. Holds(0)
  BY <1>2, <1>4, <1>5 DEF Holds, Joins, All, Slice
<1>7. PlacedAt(0)
  BY <1>2, WireFacts DEF PlacedAt, Reached, Mark, Least
<1> QED BY <1>1, <1>3, <1>6, <1>7 DEF BytesInv, PositionInv

LEMMA BytesSteps ==
  ASSUME FileInv, ResponseInv, BytesInv, [Next]_vars
  PROVE  BytesInv'
<1>1. PlaceInv' /\ AnswersInv' /\ Sequences'
  BY ResponseSteps DEF ResponseInv
<1>2. ByteTypes' /\ AskedInv'
  BY ByteTypesSteps, AskedSteps DEF BytesInv
<1>3. PositionInv'
  BY BodyPosition, CarePosition, OthersPosition DEF BytesInv
<1> QED BY <1>1, <1>2, <1>3 DEF BytesInv

------------------------------------------------------------------------------
\* The request that is next has headers that are refused.
NextIsMalformed == Len(handled) < Len(EndOf) /\ Wire[Mark(Len(handled)) + 3] \in Malformed

\* A 400 is to be written, or was.
Refusing ==
  \/ at = "read" /\ answer = "400"
  \/ at \in {"write", "done"} /\ answers = Append(handled, <<"400">>)

\* Headers are refused where they are malformed, and nowhere else.
RefusalInv ==
  peer # "reset" =>
    /\ Refusing => NextIsMalformed
    /\ at = "body" \/ (at = "read" /\ answer = "none") => Last(line) \notin Malformed
    /\ \A i \in 1 .. Len(handled) : Last(handled[i]) \notin Malformed

\* One more answer is one more, and the last.
LEMMA Appended ==
  ASSUME NEW V, NEW s \in Seq(V), NEW a, NEW b
  PROVE  Append(s, a) # s /\ (Append(s, a) = Append(s, b) => a = b) /\ Last(Append(s, a)) = a
<1>1. s \in Seq(V \cup {a, b}) /\ a \in V \cup {a, b} /\ b \in V \cup {a, b}
  OBVIOUS
<1>2. /\ Append(s, a) \in Seq(V \cup {a, b}) /\ Len(Append(s, a)) = Len(s) + 1
      /\ Append(s, a)[Len(s) + 1] = a /\ Append(s, b)[Len(s) + 1] = b /\ Len(s) \in Nat
  BY <1>1
<1> QED BY <1>2 DEF Last

LEMMA Errors == <<"408">> # <<"400">>
<1>1. <<"408">>[1] = "408" /\ <<"400">>[1] = "400"
  OBVIOUS
<1> QED BY <1>1

LEMMA RefusalOfHeaders ==
  ASSUME FileInv, Sequences, ByteTypes, AskedInv, PositionInv, RefusalInv, ReadHeaders,
         peer # "reset"
  PROVE  RefusalInv'
<1>1. UNCHANGED handled /\ at = "headers" /\ At("headers")
  BY DEF ReadHeaders, ReadKeeps, At, history
<1>2. \A i \in 1 .. Len(handled) : Last(handled[i]) \notin Malformed
  BY DEF RefusalInv
<1>3. CASE ReadsOn \/ (Missed /\ Concludes(OnError))
  <2>1. ~Refusing' /\ at' # "body" /\ ~(at' = "read" /\ answer' = "none")
    BY <1>1, <1>3 DEF ReadsOn, Concludes, OnError, Refusing
  <2> QED BY <1>1, <1>2, <2>1 DEF RefusalInv
<1>4. CASE Found /\ Refused /\ Concludes("400")
  <2>1. NextIsMalformed
    BY <1>1, <1>4, HeadersTaken DEF Refused, NextIsMalformed
  <2>2. NextIsMalformed' /\ at' = "read" /\ answer' = "400"
    BY <1>1, <1>4, <2>1 DEF NextIsMalformed, Concludes
  <2> QED BY <1>1, <1>2, <2>2 DEF RefusalInv
<1>5. CASE /\ Found /\ ~Refused /\ line' = Append(line, Head(Read.result))
           /\ at' = "body" \/ (at' = "read" /\ answer' = "none")
  <2>1. PICK t : line = <<t>>
    BY <1>1, <1>5, HeadersTaken
  <2>2. Last(line') = Head(Read.result)
    BY <1>5, <2>1 DEF Last
  <2> QED BY <1>1, <1>2, <1>5, <2>2 DEF RefusalInv, Refused, Refusing
<1> QED BY <1>3, <1>4, <1>5 DEF ReadHeaders, Asks

LEMMA RefusalOfCare ==
  ASSUME FileInv, BytesInv, RefusalInv, Care, peer # "reset"
  PROVE  RefusalInv'
<1>1. PICK V : handled \in Seq(V)
  BY DEF BytesInv, Sequences, SequencesOf
<1>2. \A a, b : Append(handled, a) # handled /\ (Append(handled, a) = Append(handled, b) => a = b)
  BY <1>1, Appended
<1>3. \A i \in 1 .. Len(handled) : Last(handled[i]) \notin Malformed
  BY DEF RefusalInv
<1>4. ASSUME UNCHANGED handled, ~Refusing', at' # "body", ~(at' = "read" /\ answer' = "none")
      PROVE  RefusalInv'
  BY <1>3, <1>4 DEF RefusalInv
<1>5. CASE Idle
  BY <1>4, <1>5 DEF Idle, Asks, Refusing
<1>6. CASE Begin
  <2>1. answers = handled
    BY <1>6 DEF Begin, BytesInv, AnswersInv
  <2>2. /\ UNCHANGED handled
        /\ \/ at' = "title"
           \/ at' = "write" /\ answers' = Append(handled, <<"408">>)
           \/ at' = "done" /\ answers' = handled
    BY <1>6, <2>1 DEF Begin, Asks, Replies, Drops
  <2> QED BY <1>2, <1>4, <2>2, Errors DEF Refusing
<1>7. CASE ReadTitle
  <2>1. UNCHANGED handled /\ (at' \in {"title", "headers"} \/ (at' = "read" /\ answer' \in {"408", "drop"}))
    BY <1>7 DEF ReadTitle, ReadKeeps, history, ReadsOn, At, Asks, Concludes, OnError
  <2> QED BY <1>4, <2>1 DEF Refusing
<1>8. CASE ReadHeaders
  BY <1>8, RefusalOfHeaders DEF BytesInv
<1>9. CASE ReadBody
  <2>1. /\ UNCHANGED <<handled, line>> /\ at = "body" /\ at' = "read"
        /\ answer' \in {"none", "408", "drop"}
    BY <1>9 DEF ReadBody, ReadKeeps, history, At, Concludes, OnError
  <2> QED BY <1>3, <2>1 DEF RefusalInv, Refusing
<1>10. CASE Take
  <2>1. answers = handled /\ at = "read"
    BY <1>10 DEF Take, At, BytesInv, AnswersInv
  <2>2. \/ at' = "serve" /\ answer = "none" /\ handled' = Append(handled, line)
        \/ at' = "write" /\ UNCHANGED handled /\ answers' = Append(handled, <<"408">>)
        \/ at' = "write" /\ UNCHANGED handled /\ answer = "400"
        \/ at' = "done" /\ UNCHANGED handled /\ answers' = handled
    BY <1>10, <2>1 DEF Take, Replies, Drops
  <2>3. CASE at' = "serve" /\ answer = "none" /\ handled' = Append(handled, line)
    <3>1. Last(line) \notin Malformed
      BY <2>1, <2>3 DEF RefusalInv
    <3>2. \A i \in 1 .. Len(handled') : Last(handled'[i]) \notin Malformed
      <4>1. handled \in Seq(V \cup {line}) /\ line \in V \cup {line}
        BY <1>1
      <4>2. /\ Len(handled') = Len(handled) + 1 /\ Len(handled) \in Nat
            /\ \A i \in 1 .. Len(handled) : handled'[i] = handled[i]
            /\ handled'[Len(handled) + 1] = line
        BY <2>3, <4>1
      <4>3. ASSUME NEW i \in 1 .. Len(handled') PROVE Last(handled'[i]) \notin Malformed
        <5>1. i \in 1 .. Len(handled) \/ i = Len(handled) + 1
          BY <4>2
        <5> QED BY <1>3, <3>1, <4>2, <5>1
      <4> QED BY <4>3
    <3> QED BY <2>3, <3>2 DEF RefusalInv, Refusing
  <2>4. CASE at' = "write" /\ UNCHANGED handled /\ answer = "400"
    <3>1. NextIsMalformed
      BY <2>1, <2>4 DEF RefusalInv, Refusing
    <3>2. NextIsMalformed'
      BY <2>4, <3>1 DEF NextIsMalformed
    <3> QED BY <1>3, <2>4, <3>2 DEF RefusalInv
  <2> QED BY <1>2, <1>4, <2>2, <2>3, <2>4, Errors DEF Refusing
<1>11. CASE Respond
  <2>1. handled = Append(answers, line) /\ at' = "write" /\ answers' = Append(answers, line)
        /\ UNCHANGED handled
    BY <1>11 DEF Respond, At, Replies, BytesInv, AnswersInv
  <2> QED BY <1>2, <1>4, <2>1 DEF Refusing
<1>12. CASE Written \/ LetGo
  <2>1. /\ UNCHANGED <<handled, answers>> /\ at \in {"write", "done"} /\ at' \in {"care", "done"}
    BY <1>12 DEF Written, LetGo, At, Drops, careVars, history
  <2>2. Refusing' => Refusing
    BY <2>1 DEF Refusing
  <2> QED BY <1>3, <2>1, <2>2 DEF RefusalInv, NextIsMalformed
<1> QED BY <1>5, <1>6, <1>7, <1>8, <1>9, <1>10, <1>11, <1>12 DEF Care

LEMMA RefusalSteps ==
  ASSUME FileInv, BytesInv, RefusalInv, [Next]_vars
  PROVE  RefusalInv'
<1>1. peer' # "reset" => peer # "reset"
  <2>1. SeqData
    BY DEF BytesInv, Sequences, SequencesOf, SeqData
  <2> QED BY <2>1, StreamSteps DEF BytesInv, Stream, Begins, Pushes, Arrives, Silent, Resets
<1>2. CASE Care
  BY <1>1, <1>2, RefusalOfCare DEF RefusalInv
<1>3. CASE ~Care
  <2>1. UNCHANGED <<at, answer, line, handled, answers>>
    BY <1>3, Zenon DEF Next, CareKeeps, Fire, FireCancels, ShutFlag, Main, ShutSwap, ShutCancel,
                       ShutTimers, ShutWioe, Client, Elsewhere, careVars, history, vars
  <2> QED BY <1>1, <2>1 DEF RefusalInv, Refusing, NextIsMalformed
<1> QED BY <1>2, <1>3
------------------------------------------------------------------------------
LEMMA BytesGive ==
  ASSUME TypeOK, FileInv, BytesInv, RefusalInv
  PROVE  BytesAreKept
<1> SUFFICES ASSUME at \notin {"read", "write", "done"}, Sound, peer # "reset"
             PROVE  /\ IsSuffix(Held, SubSeq(Wire, 1, sent))
                    /\ at \in {"care", "peek"} => sent = Taken + Len(Held)
                    /\ \A i \in DOMAIN handled :
                         LET begin == IF i = 1 THEN 1 ELSE EndOf[i - 1] + 1
                         IN /\ handled[i] = <<Wire[begin], Wire[begin + 2]>>
                            /\ Wire[begin + 2] \notin Malformed
  BY DEF BytesAreKept
<1>1. Intact
  <2>1. CASE bpc = "idle"
    BY <2>1 DEF TypeOK, Sound, Intact, Reads
  <2>2. CASE bpc # "idle"
    <3>1. Reads => ~Failed
      BY <2>2 DEF FileInv, OperationInv, BytesInv, PlaceInv, AskedInv, Reads, Failed
    <3> QED BY <3>1 DEF TypeOK, Intact, Reads
  <2> QED BY <2>1, <2>2
<1>2. PICK from : Holds(from) /\ PlacedAt(from)
  BY <1>1 DEF BytesInv, PositionInv
<1>3. Held = Slice(Wire, from, sent)
  <2>1. All \o inq = Slice(Wire, from, sent)
    BY <1>2 DEF Holds, Joins
  <2>2. Held = All \o inq
    BY Zenon DEF Held, All, In
  <2> QED BY <2>1, <2>2
<1>4. Wire \in Seq(Unit) /\ sent \in 0 .. Len(Wire) /\ from \in 0 .. sent
  BY <1>2, WireFacts DEF BytesInv, ByteTypes, Holds
<1>5. IsSuffix(Held, SubSeq(Wire, 1, sent))
  <2>1. IsSuffix(Slice(Wire, from, sent), Slice(Wire, 0, sent))
    BY <1>4, SliceSuffix
  <2>2. Slice(Wire, 0, sent) = SubSeq(Wire, 1, sent)
    BY DEF Slice
  <2> QED BY <1>3, <2>1, <2>2
<1>6. Len(Held) = sent - from
  BY <1>3, <1>4, SliceIs
<1>7. PICK n : n = Len(handled)
  OBVIOUS
<1>8. n \in 0 .. Len(EndOf) /\ (n = 0 <=> handled = <<>>) /\ DOMAIN handled = 1 .. n
  <2>1. PICK V : handled \in Seq(V)
    BY DEF BytesInv, Sequences, SequencesOf
  <2> QED BY <1>2, <1>7, <2>1, WireFacts DEF PlacedAt
<1>9. at \in {"care", "peek"} => sent = Taken + Len(Held)
  <2> SUFFICES ASSUME at \in {"care", "peek"} PROVE sent = Taken + Len(Held)
    OBVIOUS
  <2>1. from = Least(Mark(n), sent)
    BY <1>2, <1>7 DEF PlacedAt, Reached
  <2>2. Taken = from
    <3>1. CASE n = 0
      BY <1>4, <1>8, <2>1, <3>1 DEF Taken, Mark, Least
    <3>2. CASE n # 0
      BY <1>7, <1>8, <2>1, <3>2 DEF Taken, Mark
    <3> QED BY <3>1, <3>2
  <2> QED BY <1>4, <1>6, <2>2
<1>10. ASSUME NEW i \in DOMAIN handled, NEW begin, begin = IF i = 1 THEN 1 ELSE EndOf[i - 1] + 1
       PROVE  handled[i] = <<Wire[begin], Wire[begin + 2]>> /\ Wire[begin + 2] \notin Malformed
  <2>1. i \in 1 .. n /\ i - 1 \in 0 .. Len(EndOf)
    BY <1>8, <1>10, WireFacts
  <2>2. handled[i] = <<Wire[Mark(i - 1) + 1], Wire[Mark(i - 1) + 3]>>
    BY <1>2, <1>7, <2>1 DEF PlacedAt
  <2>3. Mark(i - 1) \in Nat
    BY <2>1, WireFacts
  <2>4. begin = Mark(i - 1) + 1
    BY <1>10, <2>1 DEF Mark
  <2>5. begin + 2 = Mark(i - 1) + 3
    BY <2>3, <2>4
  <2>6. handled[i] = <<Wire[begin], Wire[begin + 2]>>
    BY <2>2, <2>4, <2>5
  <2>7. Last(handled[i]) \notin Malformed
    BY <1>7, <2>1 DEF RefusalInv
  <2>8. Last(handled[i]) = Wire[begin + 2]
    BY <2>6 DEF Last
  <2> QED BY <2>6, <2>7, <2>8
<1> QED BY <1>5, <1>9, <1>10

LEMMA ResponseGives ==
  ASSUME ResponseInv, RefusalInv
  PROVE  ResponsesInOrder
<1>1. PICK V : SequencesOf(V)
  BY DEF ResponseInv, Sequences
<1>2. handled \in Seq(V) /\ answers \in Seq(V)
  BY <1>1 DEF SequencesOf
<1>3. peer # "reset" => IsPrefix(got \o outq, Flat(answers))
  BY DEF ResponseInv, StreamInv, Received
<1> DEFINE done == IF at = "serve" THEN Front(handled) ELSE handled
<1>4. CASE at = "serve"
  <2>1. Front(Append(answers, line)) = answers
    BY <1>2 DEF Front
  <2>2. done = answers
    BY <1>4, <2>1 DEF ResponseInv, AnswersInv
  <2> QED BY <1>2, <1>3, <2>2, PrefixOfMore DEF ResponsesInOrder
<1>5. CASE at # "serve" /\ answers = handled
  BY <1>2, <1>3, <1>5, PrefixOfMore DEF ResponsesInOrder
<1>6. CASE at # "serve" /\ answers # handled
  <2>1. PICK error \in {"408", "400"} : answers = Append(handled, <<error>>) /\ at \in {"write", "done"}
    BY <1>6 DEF ResponseInv, AnswersInv
  <2>2. IsPrefix(handled, Append(handled, <<error>>))
    BY <1>2 DEF IsPrefix
  <2>3. ASSUME Last(answers) = <<"400">>, peer # "reset"
        PROVE  /\ Len(handled) < Len(EndOf)
               /\ Wire[(IF handled = <<>> THEN 0 ELSE EndOf[Len(handled)]) + 3] \in Malformed
    <3>1. <<error>> = <<"400">>
      BY <1>2, <2>1, <2>3, Appended
    <3>2. Refusing
      BY <2>1, <3>1 DEF Refusing
    <3>3. Mark(Len(handled)) = IF handled = <<>> THEN 0 ELSE EndOf[Len(handled)]
      BY <1>2 DEF Mark
    <3> QED BY <2>3, <3>2, <3>3 DEF RefusalInv, NextIsMalformed
  <2>4. done = handled
    BY <1>6
  <2> QED BY <1>3, <2>1, <2>2, <2>3, <2>4 DEF ResponsesInOrder
<1> QED BY <1>4, <1>5, <1>6

\* All of it, of requests and responses.
ExchangeInv == ResponseInv /\ BytesInv /\ RefusalInv
LEMMA ExchangeInvariance == Spec => []ExchangeInv
<1>1. Init => ExchangeInv
  <2> SUFFICES ASSUME Init PROVE ExchangeInv
    OBVIOUS
  <2>1. at = "care" /\ Len(handled) = 0
    BY DEF Init
  <2>2. RefusalInv
    BY <2>1 DEF RefusalInv, Refusing
  <2> QED BY <2>2, ResponseInit, BytesInit DEF ExchangeInv
<1>2. FileInv /\ ExchangeInv /\ [Next]_vars => ExchangeInv'
  BY ResponseSteps, BytesSteps, RefusalSteps DEF ExchangeInv
<1> QED BY <1>1, <1>2, FileInvariance, PTL DEF Spec, SafeSpec

\* The client receives the responses to its requests, each once, whole and in the order of the
\* requests, and an error only as the last, 400 only where the headers of that request are
\* malformed: whatever the wire, the pieces in which requests come and responses are written,
\* the timers and the shutdown (preqh.cpp 86-122, rr.cpp 37-38).
THEOREM AnswersInOrder == Spec => []ResponsesInOrder
<1>1. ExchangeInv => ResponsesInOrder
  BY ResponseGives DEF ExchangeInv
<1> QED BY <1>1, ExchangeInvariance, PTL

\* Of what the client sends nothing is lost, doubled or read out of order between the kernel, the
\* body of _read and readbuff, however it comes in pieces: each request that is handled has its
\* own title and headers, which were not refused, and the next one begins at its first byte
\* (io.cpp 294-331, rr.cpp 29-53).
THEOREM BytesInOrder == Spec => []BytesAreKept
<1>1. TypeOK /\ FileInv /\ ExchangeInv => BytesAreKept
  BY BytesGive DEF ExchangeInv
<1> QED BY <1>1, ConnectionTypeOK, FileInvariance, ExchangeInvariance, PTL
==============================================================================
