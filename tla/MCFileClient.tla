----------------------------- MODULE MCFileClient ------------------------------
(* Constants for the run of FileClient: those of MCFileCursor, and the       *)
(* inputs of the conversions.                                                *)
EXTENDS FileClient, MCFileCursor, TLC

TS == INSTANCE TypeSignature

Strings(letters, n) == TS!SeqOf(letters, n)

(* A header and a row of two values with up to two letters, or two rows with *)
(* up to one.                                                                *)
Letters == {"a", ",", "\"", "\n", "\r"}
Cells(n) == {NULL} \cup Strings(Letters, n)
Header == <<<<"a">>, <<"a">>>>
SmallTables ==
  {<<Header, row>> : row \in Cells(2) \X Cells(2)}
  \cup {<<Header>> \o rows : rows \in [1..2 -> Cells(1) \X Cells(1)]}

Leaf(name) == TS!TypeNode(name, <<>>, <<>>)
ArrayOf(t) == TS!TypeNode("array", <<t>>, <<>>)
MapTo(t) == TS!TypeNode("map", <<Leaf("varchar"), t>>, <<>>)
RowOf(types) == TS!TypeNode("row", types, SubSeq(<<<<"a">>, <<"b">>>>, 1, Len(types)))

Integer == Leaf("integer")
Varchar == Leaf("varchar")
Decimal == Leaf("decimal")
Boolean == Leaf("boolean")
Pair == RowOf(<<Integer, Varchar>>)

NestedTypes == {
  ArrayOf(Integer), ArrayOf(Varchar), ArrayOf(Decimal), ArrayOf(Boolean), MapTo(Integer), MapTo(Varchar), Pair,
  RowOf(<<Decimal, Integer>>), MapTo(Decimal),
  ArrayOf(ArrayOf(Integer)), ArrayOf(ArrayOf(Varchar)), ArrayOf(Pair), ArrayOf(MapTo(Integer)),
  MapTo(ArrayOf(Varchar)), MapTo(RowOf(<<Integer>>)), MapTo(MapTo(Varchar)),
  RowOf(<<ArrayOf(Varchar), Integer>>), RowOf(<<Pair, Integer>>), RowOf(<<MapTo(Varchar), Integer>>),
  ArrayOf(RowOf(<<Integer, ArrayOf(Integer)>>)), RowOf(<<ArrayOf(Pair)>>),
  RowOf(<<ArrayOf(ArrayOf(Varchar))>>), ArrayOf(ArrayOf(Decimal)), MapTo(ArrayOf(Boolean))}

(* Strings that are JSON, and some that are not; a decimal with more digits  *)
(* than a float has.                                                         *)
MixedNames == {"x", "1.10", "true"}
Digits20 == "0.10000000000000000555"
MixedDecimals == {"1", Digits20}
Floats == ("1.10" :> "1.1") @@ (Digits20 :> "0.1")

TwoStrings == TS!SeqOf(Strings({"x", "'", "\\", "\n", "\r", "\t"}, 2), 2) \ {<<>>}
================================================================================
