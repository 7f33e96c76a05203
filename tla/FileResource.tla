----------------------------- MODULE FileResource -----------------------------
(***************************************************************************)
(* yasync/io.cpp: a resource with a file descriptor, the epoll thread of   *)
(* the I/O engine, and its tickets.  A read or write of the resource is a  *)
(* generator that does system calls while they succeed and awaits `engif`  *)
(* when they would block.  The epoll thread completes engif with what it   *)
(* was told; cancel(), from a timer or from main, completes it with HUP.   *)
(*                                                                         *)
(* Bodies run on the one worker of main's engine.  An action is a body up  *)
(* to where another thread can see it: one system call, one access to      *)
(* engif.  The kernel and the peer are external.                           *)
(***************************************************************************)
EXTENDS Naturals, Sequences

CONSTANTS Pollable,   \* the descriptor supports epoll: it is not a regular file
          Blocking,   \* the descriptor is not O_NONBLOCK: it comes from accept()
          BufferSize, \* `buffer`, 4096 bytes in the code
          Capacity    \* of the kernel's send buffer

ASSUME FileAssumption ==
  /\ Pollable \in BOOLEAN /\ Blocking \in BOOLEAN
  /\ BufferSize \in Nat \ {0} /\ Capacity \in Nat \ {0}

NoEvent == "none"
Events == {"in", "out", "hup", "mixed"}  \* one flag of epoll, or several
NoOp == [kind |-> "none", n |-> 0]
NoResult == [ok |-> TRUE, why |-> "none", data |-> <<>>]

VARIABLES inq, outq, \* bytes the kernel has for us, and from us
          peer,      \* "open", "closed" or "reset"
          interest,  \* what epoll reports of the descriptor: "new", "off", "in", "out", "never"
          epc, event, \* the epoll thread, and the event it has in hand
          engif, ev, \* engif: "running" or "completed", and its result
          notes,     \* notifications of engif in the engine's queue
          bpc,       \* the generator: "idle", "enter", "io", "check" or "await"
          op, data,  \* the operation, and what it has read or has still to write
          res,       \* what the last operation came to
          alive,     \* the resource exists
          tickets, wpc, \* tickets, and where main is in wioe()
          \* history
          wrong,     \* a body was told of the wrong event
          dangling,  \* what the epoll thread has called of a resource that was gone: the
                     \* two halves of notify(), "completed" and "notify"
          pending,   \* a cancelled operation has not ended: "no", "yes", "overwritten"
          cut        \* how many operations have ended on a cancellation

kernelVars == <<inq, outq, peer>>
epollVars == <<epc, event>>
engineVars == <<engif, ev, notes>>
bodyVars == <<bpc, op, data, res>>
ticketVars == <<alive, tickets, wpc>>
fileVars == <<kernelVars, interest, epollVars, engineVars, bodyVars, ticketVars,
              wrong, dangling, pending, cut>>

FileInit ==
  /\ inq = <<>> /\ outq = <<>> /\ peer = "open"
  /\ interest = "new"
  /\ epc = "wait" /\ event = NoEvent
  /\ engif = "running" /\ ev = NoEvent /\ notes = 0
  /\ bpc = "idle" /\ op = NoOp /\ data = <<>> /\ res = NoResult
  /\ alive = TRUE /\ tickets = 1 /\ wpc = "up"
  /\ wrong = FALSE /\ dangling = {} /\ pending = "no" /\ cut = 0

Reading == op.kind = "read"
Wanted == IF Reading THEN "in" ELSE "out"
Go(place) == bpc' = place
------------------------------------------------------------------------------
\* _read and _write: the generator that is returned, when it is first resumed.
Submit(o, bytes) ==
  /\ bpc = "idle" /\ alive
  /\ op' = o /\ data' = bytes /\ res' = NoResult
  /\ Go("enter")

Ends(result) ==
  /\ res' = result
  /\ op' = NoOp /\ data' = <<>>
  /\ pending' = "no"
  /\ Go("idle")
Succeeds(bytes) == Ends([ok |-> TRUE, why |-> "none", data |-> bytes])
Fails(why) == Ends([ok |-> FALSE, why |-> why, data |-> <<>>])
Continues == UNCHANGED <<op, data, res, pending>>

\* lazyEpollReg(): the first operation registers the descriptor and waits; a regular file
\* cannot be registered and is taken to be ready.  Later ones go on.
Enter ==
  /\ bpc = "enter" /\ interest = "new"
  /\ IF Pollable THEN /\ interest' = Wanted
                      /\ Go("check")
                      /\ UNCHANGED <<engif, ev>>
     ELSE /\ interest' = "never"
          /\ engif' = "completed" /\ ev' = Wanted
          /\ UNCHANGED bpc
  /\ Continues
  /\ UNCHANGED <<kernelVars, epollVars, notes, ticketVars, wrong, dangling, cut>>

\* Mutant: EPOLLIN whatever the operation is.
RearmForReading ==
  IF interest = "never" THEN Fails("rearm") /\ UNCHANGED interest
  ELSE interest' = "in" /\ Go("check") /\ Continues

\* epollRearm(), and on to `return AFuture(engif)`.
Rearm ==
  IF interest = "never" THEN Fails("rearm") /\ UNCHANGED interest
  ELSE interest' = Wanted /\ Go("check") /\ Continues

\* `if(engif->state() == Completed)`: running() takes the event.
Look ==
  /\ bpc = "enter" /\ interest # "new"
  /\ IF engif = "completed"
     THEN /\ engif' = "running" /\ ev' = NoEvent
          /\ \/ ev = Wanted /\ Go("io") /\ Continues /\ UNCHANGED <<wrong, cut>>
             \/ ev = "hup" /\ Fails("cancelled") /\ cut' = cut + 1 /\ UNCHANGED wrong
             \/ /\ ev \notin {Wanted, "hup"} /\ Fails("event")
                /\ wrong' = (wrong \/ ev # "mixed") /\ UNCHANGED cut
          /\ UNCHANGED interest
     ELSE Rearm /\ UNCHANGED <<engif, ev, wrong, cut>>
  /\ UNCHANGED <<kernelVars, epollVars, notes, ticketVars, dangling>>

\* ::read() in its loop: bytes, as many as are wanted or not; end of file; a reset; or
\* nothing yet, and a blocking descriptor keeps the worker until there is.
Least(a, b) == IF a < b THEN a ELSE b
ReadCall ==
  /\ bpc = "io" /\ Reading
  /\ LET k == Least(BufferSize, Len(inq))
         got == data \o SubSeq(inq, 1, k)
     IN \/ /\ inq # <<>> /\ inq' = SubSeq(inq, k + 1, Len(inq))
           /\ IF op.n > 0 /\ Len(got) >= op.n THEN Succeeds(got)
              ELSE data' = got /\ UNCHANGED <<bpc, op, res, pending>>
           /\ UNCHANGED interest
        \/ inq = <<>> /\ peer = "closed" /\ Succeeds(data) /\ UNCHANGED <<inq, interest>>
        \/ inq = <<>> /\ peer = "reset" /\ Fails("read") /\ UNCHANGED <<inq, interest>>
        \/ inq = <<>> /\ peer = "open" /\ ~Blocking /\ Rearm /\ UNCHANGED inq
  /\ UNCHANGED <<outq, peer, epollVars, engineVars, ticketVars, wrong, dangling, cut>>

\* ::write() in its loop: what there is room for, nothing, or a reset.
WriteCall ==
  /\ bpc = "io" /\ ~Reading
  /\ LET k == Least(Capacity - Len(outq), Len(data))
         left == SubSeq(data, k + 1, Len(data))
     IN \/ peer = "reset" /\ Fails("write") /\ UNCHANGED <<outq, interest>>
        \/ /\ peer # "reset" /\ k > 0 /\ outq' = outq \o SubSeq(data, 1, k)
           /\ IF left = <<>> THEN Succeeds(<<>>)
              ELSE data' = left /\ UNCHANGED <<bpc, op, res, pending>>
           /\ UNCHANGED interest
        \/ peer # "reset" /\ k = 0 /\ ~Blocking /\ Rearm /\ UNCHANGED outq
  /\ UNCHANGED <<inq, peer, epollVars, engineVars, ticketVars, wrong, dangling, cut>>

\* The engine reads the state of engif, returned by the body, and resumes it or registers it.
Check ==
  /\ bpc = "check"
  /\ Go(IF engif = "completed" THEN "enter" ELSE "await")
  /\ Continues
  /\ UNCHANGED <<kernelVars, interest, epollVars, engineVars, ticketVars, wrong,
                 dangling, cut>>

\* The engine takes a notification of engif: whoever awaits it is resumed if it is complete.
Note ==
  /\ notes > 0 /\ bpc \in {"idle", "await"}
  /\ notes' = notes - 1
  /\ Go(IF bpc = "await" /\ engif = "completed" THEN "enter" ELSE bpc)
  /\ Continues
  /\ UNCHANGED <<kernelVars, interest, epollVars, engif, ev, ticketVars, wrong,
                 dangling, cut>>
------------------------------------------------------------------------------
\* epoll_wait returns an event, at most once for each time the interest was stated.
Ready == \/ interest = "in" /\ (inq # <<>> \/ peer # "open")
         \/ interest = "out" /\ (Len(outq) < Capacity \/ peer = "reset")
\* Mutant: without EPOLLONESHOT.
EpollWaitAgain ==
  /\ epc = "wait" /\ Ready
  /\ event' = IF peer = "reset" THEN "mixed" ELSE interest
  /\ epc' = "set"
  /\ UNCHANGED <<kernelVars, interest, engineVars, bodyVars, ticketVars, wrong, dangling,
                 pending, cut>>
EpollWait ==
  /\ epc = "wait" /\ Ready
  /\ event' = IF peer = "reset" THEN "mixed" ELSE interest
  /\ interest' = "off"
  /\ epc' = "set"
  /\ UNCHANGED <<kernelVars, engineVars, bodyVars, ticketVars, wrong, dangling,
                 pending, cut>>

\* notify(), by the epoll thread and by cancel(): engif->completed(), ...
Complete(e) ==
  /\ engif' = "completed" /\ ev' = e
  /\ pending' = IF pending = "yes" /\ e # "hup" THEN "overwritten" ELSE pending

EpollSet ==
  /\ epc = "set"
  /\ IF alive THEN Complete(event) /\ UNCHANGED dangling
     ELSE dangling' = dangling \cup {"completed"} /\ UNCHANGED <<engif, ev, pending>>
  /\ epc' = "notify" /\ event' = NoEvent
  /\ UNCHANGED <<kernelVars, interest, notes, bodyVars, ticketVars, wrong, cut>>

\* ... then engine->notify(engif): both members are read from the resource, which nothing
\* keeps while the first half lets the worker go on.  Of one that is gone the thread finds
\* what was there, or something that notifies nobody.
EpollNotify ==
  /\ epc = "notify" /\ epc' = "wait"
  /\ IF alive THEN notes' = notes + 1 /\ UNCHANGED dangling
     ELSE notes' \in {notes, notes + 1} /\ dangling' = dangling \cup {"notify"}
  /\ UNCHANGED <<kernelVars, interest, event, engif, ev, bodyVars, ticketVars,
                 wrong, pending, cut>>

\* Mutant: the engine is not notified.
CancelQuietly ==
  /\ alive
  /\ engif' = "completed" /\ ev' = "hup"
  /\ pending' = IF op # NoOp THEN "yes" ELSE pending
  /\ UNCHANGED <<kernelVars, interest, epollVars, notes, bodyVars, ticketVars, wrong,
                 dangling, cut>>

\* cancel(): the same, in one step, as who calls it keeps the resource and nobody can tell
\* the queued notification from one that is about to be queued.
Cancel ==
  /\ alive
  /\ engif' = "completed" /\ ev' = "hup"
  /\ notes' = notes + 1
  /\ pending' = IF op # NoOp THEN "yes" ELSE pending
  /\ UNCHANGED <<kernelVars, interest, epollVars, bodyVars, ticketVars, wrong, dangling, cut>>
------------------------------------------------------------------------------
\* Mutant: nobody wakes wioe().
ReleaseQuietly ==
  /\ alive /\ bpc = "idle"
  /\ alive' = FALSE
  /\ interest' = "off"
  /\ tickets' = tickets - 1
  /\ UNCHANGED <<kernelVars, epollVars, engineVars, bodyVars, wpc, wrong, dangling,
                 pending, cut>>

\* Mutant: what is closed may be closed again.
ReleaseAgain ==
  /\ bpc = "idle"
  /\ alive' = FALSE
  /\ interest' = "off"
  /\ tickets' = tickets - 1
  /\ wpc' = IF tickets = 1 /\ wpc = "asleep" THEN "wioe" ELSE wpc
  /\ UNCHANGED <<kernelVars, epollVars, engineVars, bodyVars, wrong, dangling,
                 pending, cut>>

\* The last reference is dropped: the descriptor is closed and the ticket is returned,
\* which wakes wioe() when it was the last one.
Release ==
  /\ alive /\ bpc = "idle"
  /\ alive' = FALSE
  /\ interest' = "off"
  /\ tickets' = tickets - 1
  /\ wpc' = IF tickets = 1 /\ wpc = "asleep" THEN "wioe" ELSE wpc
  /\ UNCHANGED <<kernelVars, epollVars, engineVars, bodyVars, wrong, dangling,
                 pending, cut>>

\* wioe(): waits for the tickets, closes the pipe that epoll watches, joins the thread.
Wioe ==
  /\ wpc \in {"up", "wioe"}
  /\ wpc' = IF tickets > 0 THEN "asleep" ELSE "stop"
  /\ UNCHANGED <<kernelVars, interest, epollVars, engineVars, bodyVars, alive,
                 tickets, wrong, dangling, pending, cut>>

EpollStops ==
  /\ wpc = "stop" /\ epc = "wait"
  /\ epc' = "exit" /\ wpc' = "down"
  /\ UNCHANGED <<kernelVars, interest, event, engineVars, bodyVars, alive,
                 tickets, wrong, dangling, pending, cut>>
------------------------------------------------------------------------------
\* The peer and the kernel.
PeerSends(bytes) ==
  /\ peer = "open"
  /\ inq' = inq \o bytes
  /\ UNCHANGED <<outq, peer>>
PeerReceives ==
  /\ peer # "reset" /\ outq # <<>>
  /\ outq' = <<>>
  /\ UNCHANGED <<inq, peer>>
PeerEnds ==
  /\ peer = "open"
  /\ peer' = "closed"
  /\ UNCHANGED <<inq, outq>>
PeerResets ==
  /\ peer = "open"
  /\ peer' = "reset"
  /\ inq' = <<>> /\ outq' = <<>>
PeerKeeps == UNCHANGED <<interest, epollVars, engineVars, bodyVars, ticketVars,
                         wrong, dangling, pending, cut>>

Body == Enter \/ Look \/ ReadCall \/ WriteCall \/ Check \/ Note
Epoll == EpollWait \/ EpollSet \/ EpollNotify \/ EpollStops
==============================================================================
