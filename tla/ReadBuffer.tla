------------------------------ MODULE ReadBuffer ------------------------------
(***************************************************************************)
(* yasync/io.cpp 294-331 and io.hpp 227-265: what IAIOResource does with   *)
(* its `readbuff` on top of `_read` of the resource under it.  Every       *)
(* operation is a request for some bytes of _read, or none, and a step     *)
(* that divides what is buffered and what was read between the result and  *)
(* the buffer.  A byte is any value.                                       *)
(***************************************************************************)
EXTENDS Naturals, Sequences, FiniteSetsExt

Up(n, s) == SubSeq(s, 1, n)
Past(n, s) == SubSeq(s, n + 1, Len(s))
Shorter(n, s) == IF n < Len(s) THEN n ELSE Len(s)

\* The search loop of read_(): 0, or where the first occurrence of the pattern ends.
Occurrences(pattern, buff) ==
  {j \in Len(pattern) .. Len(buff) : SubSeq(buff, j - Len(pattern) + 1, j) = pattern}
PatternEnd(pattern, buff) ==
  LET ends == Occurrences(pattern, buff) IN IF ends = {} THEN 0 ELSE Min(ends)

\* An operation: read() until the end of data, read(upto), peek(upto), read(pattern).
ToEnd == [kind |-> "toend"]
Upto(n) == [kind |-> "upto", n |-> n]
Peek(n) == [kind |-> "peek", n |-> n]
ToPattern(p) == [kind |-> "pattern", p |-> p]

\* The operation has its result in the buffer and does not read.
Buffered(q, buff) ==
  CASE q.kind = "toend" -> FALSE
    [] q.kind \in {"upto", "peek"} -> Len(buff) >= q.n
    [] q.kind = "pattern" -> PatternEnd(q.p, buff) # 0

\* What it asks _read for otherwise; 0 is everything.
Request(q, buff) ==
  CASE q.kind = "toend" -> 0
    [] q.kind \in {"upto", "peek"} -> q.n - Len(buff)
    [] q.kind = "pattern" -> 1

\* The operation ends now that _read has returned rd; a pattern that is still missing
\* is read for again, unless nothing more came.
Satisfied(q, buff, rd) ==
  q.kind = "pattern" => PatternEnd(q.p, buff \o rd) # 0 \/ rd = <<>>

\* Mutant: peek takes what it has seen out of the buffer.
PeekConsumes(q, buff, rd) ==
  LET all == buff \o rd
      end == CASE q.kind = "toend" -> Len(all)
               [] q.kind \in {"upto", "peek"} -> Shorter(q.n, all)
               [] q.kind = "pattern" -> PatternEnd(q.p, all)
      ok == q.kind # "pattern" \/ end # 0
  IN [ok |-> ok, result |-> Up(end, all), left |-> IF ok THEN Past(end, all) ELSE all]

\* The result and what is left in the buffer; "Reached EOF and didn't meet pattern!".
Outcome(q, buff, rd) ==
  LET all == buff \o rd
      end == CASE q.kind = "toend" -> Len(all)
               [] q.kind \in {"upto", "peek"} -> Shorter(q.n, all)
               [] q.kind = "pattern" -> PatternEnd(q.p, all)
      ok == q.kind # "pattern" \/ end # 0
  IN [ok |-> ok,
      result |-> Up(end, all),
      left |-> IF q.kind = "peek" \/ ~ok THEN all ELSE Past(end, all)]
==============================================================================
