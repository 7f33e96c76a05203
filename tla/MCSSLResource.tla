---------------------------- MODULE MCSSLResource -----------------------------
(* Instances of SSLResource for TLC: the exchanges of test/sslhandshake.cpp.   *)
EXTENDS SSLResource

Blank == <<8, 9>>
Long == <<1, 2, 3>> \o Blank
Short == <<4>> \o Blank

\* One way, both ways, and until the end of data, with the client on either side.
OneWay == <<<<Put(Long)>>, <<ToPattern(Blank)>>>>
BothWays == <<<<Put(Long), ToPattern(Blank)>>, <<ToPattern(Blank), Put(Short)>>>>
UntilEnd == <<<<Put(Short), Put(Long)>>, <<Peek(1), ToPattern(Blank), ToEnd>>>>
InTwo == <<<<Put(<<1, 2>>), Put(<<3>> \o Blank)>>, <<ToPattern(Blank), Upto(1)>>>>
\* The other end is gone before the handshake, or sends something else.
Silent == <<<<Put(Short)>>, <<>>>>
NoPattern == <<<<Put(<<1, 2, 3>>)>>, <<ToPattern(Blank)>>>>

Sides(p) == {[e \in Ends |-> p[e + 1]], [e \in Ends |-> p[2 - e]]}
Exchanges == UNION {Sides(p) : p \in {OneWay, BothWays, UntilEnd, InTwo, Silent, NoPattern}}

\* The exchange that the test leaves out: as many bytes as were written.
Exactly == Sides(<<<<Put(Long), Upto(3)>>, <<Upto(5), Put(Short)>>>>)
==============================================================================
