----------------------------- MODULE MCSparkCursor -----------------------------
(* Constants for the runs of the Spark cursors.                              *)
EXTENDS AsyncSparkCursor

CONSTANTS c1, c2, a1, s1, k1, k2

AllCursors == {c1, c2, a1}
Killing == {c1}
OneSession == {s1}
TwoCalcs == {k1, k2}

(* c1 executes twice and is alone, but for the thread that cancels or closes *)
(* it.  c2 executes nothing: it may share the session of a1, and either      *)
(* closes it on the other.                                                   *)
OneAndPair == {{c1}, {a1, c2}}
OnlyAsync == {a1}
Alone == {{a1}}
Never == [c \in Cursors |-> 0]
TwiceAndNever == [c \in Cursors |-> IF c = c1 THEN 2 ELSE 0]
================================================================================
