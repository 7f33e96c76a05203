--------------------------- MODULE MCConnectionCare ---------------------------
(***************************************************************************)
(* A client sends a request with a body and then one whose headers are     *)
(* malformed; it may stop after the headers of the first.  The buffer is   *)
(* smaller than title and headers, which come in two reads.                *)
(***************************************************************************)
EXTENDS ConnectionCare

MCWire == <<"post", "crlf", "one", "crlf", "crlf", "body",
            "get", "crlf", "bad", "crlf", "crlf">>
MCCuts == {5, 11}
MCEndOf == <<6, 11>>
MCLength == [one |-> 1, bad |-> 0]
MCMalformed == {"bad"}
==============================================================================
