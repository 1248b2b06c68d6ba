---------------------------- MODULE MCAsyncCursor -----------------------------
(* Constants for the run of AsyncCursor.                                     *)
EXTENDS AsyncCursor

CONSTANTS q1, s1

OneQuery == {q1}
OneStatement == {s1}
===============================================================================
