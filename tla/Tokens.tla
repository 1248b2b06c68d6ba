--------------------------------- MODULE Tokens --------------------------------
(* Texts that the parsers of PyAthena cut up, as sequences of tokens: a      *)
(* bracket, a comma, or a whole name or value, never its letters.            *)
EXTENDS Naturals, Sequences, FiniteSetsExt, SequencesExt, TLC

Has(s, token) == token \in ToSet(s)

(* How many of these brackets are open after the first i tokens. *)
Depth(s, i, open, close) ==
  Quantify(1..i, LAMBDA k : s[k] = open) - Quantify(1..i, LAMBDA k : s[k] = close)

(* s cut at the positions P, which belong to no piece. *)
SplitAt(s, P) ==
  LET cuts == SetToSortSeq({0, Len(s) + 1} \cup P, <)
  IN [i \in 1..(Len(cuts) - 1) |-> SubSeq(s, cuts[i] + 1, cuts[i + 1] - 1)]

(* The pieces with one of these tokens in between. *)
Join(pieces, separator) ==
  FlattenSeq([i \in DOMAIN pieces |-> IF i = 1 THEN pieces[i] ELSE separator \o pieces[i]])

Strip(s, blanks) ==
  LET kept == {i \in DOMAIN s : s[i] \notin blanks}
  IN IF kept = {} THEN <<>> ELSE SubSeq(s, Min(kept), Max(kept))

Inner(s) == SubSeq(s, 2, Len(s) - 1)
Within(s, open, close) == Len(s) > 1 /\ Head(s) = open /\ Last(s) = close
================================================================================
