------------------------------- MODULE IOI2Way --------------------------------
(***************************************************************************)
(* yasync/iompls.cpp: two ends of a virtual connection.  End e reads       *)
(* channel e and writes channel 1 - e.  A channel is a buffer under a lock, *)
(* the flag of the end that writes it and the future of a reader that      *)
(* waits for it.                                                           *)
(*                                                                         *)
(* An action is the critical section under the lock of a channel, with the *)
(* reset of `notifi` that comes just before it in _read: all bodies run on *)
(* one worker, as in the test of TLS that uses this connection.            *)
(***************************************************************************)
EXTENDS Naturals, Sequences

Ends == {0, 1}
WriteChannel(e) == 1 - e

VARIABLES buff,  \* buff[c]: the bytes in channel c
          exi,   \* exi[c]: the end that writes channel c exists
          notifi, \* notifi[c]: a reader's future waits for channel c ...
          fut     \* fut[c]: ... and is "running", or was and is "completed"

ioiVars == <<buff, exi, notifi, fut>>

IOIInit ==
  /\ buff = [c \in Ends |-> <<>>]
  /\ exi = [c \in Ends |-> TRUE]
  /\ notifi = [c \in Ends |-> FALSE]
  /\ fut = [c \in Ends |-> "none"]

\* The body of _read(n) is done, with what is in the channel: it has enough, or there
\* will be no more.  What it took before an earlier await is not there any more.
CanRead(e, n) == (n > 0 /\ Len(buff[e]) >= n) \/ ~exi[e]
ReadNow(e) ==
  /\ buff' = [buff EXCEPT ![e] = <<>>]
  /\ notifi' = [notifi EXCEPT ![e] = FALSE]
  /\ fut' = [fut EXCEPT ![e] = "none"]
  /\ UNCHANGED exi

\* It takes what there is and waits on a new future.
ReadAwaits(e) ==
  /\ buff' = [buff EXCEPT ![e] = <<>>]
  /\ notifi' = [notifi EXCEPT ![e] = TRUE]
  /\ fut' = [fut EXCEPT ![e] = "running"]
  /\ UNCHANGED exi

\* notify(): completes the future of the reader, who is resumed by the engine.
Notified(c) == IF notifi[c] THEN [fut EXCEPT ![c] = "completed"] ELSE fut

Write(e, data) ==
  LET c == WriteChannel(e)
  IN /\ buff' = [buff EXCEPT ![c] = @ \o data]
     /\ fut' = Notified(c)
     /\ UNCHANGED <<exi, notifi>>

\* Mutant: an end takes what it has written with it.
CloseEmpties(e) ==
  LET c == WriteChannel(e)
  IN /\ exi' = [exi EXCEPT ![c] = FALSE]
     /\ fut' = Notified(c)
     /\ notifi' = [notifi EXCEPT ![e] = FALSE]
     /\ buff' = [buff EXCEPT ![c] = <<>>]

\* ~IOI: end of transmission for the other end; its own reading side is cleaned up.
Close(e) ==
  LET c == WriteChannel(e)
  IN /\ exi' = [exi EXCEPT ![c] = FALSE]
     /\ fut' = Notified(c)
     /\ notifi' = [notifi EXCEPT ![e] = FALSE]
     /\ UNCHANGED buff
==============================================================================
