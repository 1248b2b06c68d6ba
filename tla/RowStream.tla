------------------------------- MODULE RowStream ------------------------------
(* What the fetch methods of a result set promise, without pages, tokens and *)
(* header rows: the data rows 1..n are handed out in order, each to one      *)
(* call; a call returns the rows it took, or fails and they are gone; the    *)
(* end of the data is reported only when nothing is left, or after close().  *)
EXTENDS Naturals, Sequences

VARIABLES
  n,          \* number of data rows
  pos,        \* rows handed out so far
  taken,      \* the rows the call in progress has taken
  delivered,  \* the rows all calls have returned, in order
  ended,      \* the last call that returned reported the end of the data
  closed      \* close() was called

streamVars == <<n, pos, taken, delivered, ended, closed>>

Init ==
  /\ n \in Nat
  /\ pos = 0 /\ taken = <<>> /\ delivered = <<>>
  /\ ended = FALSE /\ closed = FALSE

Take ==
  /\ pos < n /\ ~closed
  /\ pos' = pos + 1
  /\ taken' = Append(taken, pos + 1)
  /\ UNCHANGED <<n, delivered, ended, closed>>

Return ==
  /\ delivered' = delivered \o taken
  /\ taken' = <<>>
  /\ ended' \in {FALSE, pos = n \/ closed}
  /\ UNCHANGED <<n, pos, closed>>

Fail ==
  /\ taken' = <<>>
  /\ UNCHANGED <<n, pos, delivered, ended, closed>>

Close ==
  /\ closed' = TRUE
  /\ UNCHANGED <<n, pos, taken, delivered, ended>>

Next == Take \/ Return \/ Fail \/ Close

Spec == Init /\ [][Next]_streamVars
===============================================================================
