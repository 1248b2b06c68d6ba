------------------------------- MODULE MCCursor ------------------------------
(* Constants for the runs of Cursor.                                         *)
EXTENDS Cursor, TLC

CONSTANTS c1, c2, q1, q2, s1, s2

OneCursor == {c1}
OtherCursor == {c2}
TwoCursors == {c1, c2}
TwoQueries == {q1, q2}
OneStatement == {s1}
TwoStatements == {s1, s2}
OneCount == {1}
TwoCounts == {-1, 1}

(* Query ids are interchangeable in the safety run. *)
QuerySymmetry == Permutations(QueryIds)
==============================================================================
