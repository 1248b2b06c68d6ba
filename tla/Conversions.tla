------------------------------- MODULE Conversions -----------------------------
(* The conversions of PyAthena, each of one input to one result, and what    *)
(* they promise: a value that goes through Athena's text, or a parameter     *)
(* through a literal, is the value it was.                                   *)
EXTENDS Tokens

CONSTANTS
  NULL, MARKER,
  Numbers,       \* texts of integers
  FloatText,     \* of texts of other numbers: that of the float they become
  Decimals,      \* texts of decimals
  Names,         \* texts of strings; one that says null, in any case, is left
                 \* out: Athena's text does not tell it from a NULL, or the
                 \* converters do not
  Tables,        \* tables of values, which are NULL or sequences of letters
  Types,         \* the type hints, as trees
  Parameters     \* sequences of strings, which are sequences of letters

VARIABLES
  input,  \* what is converted, its kind is the conversion
  result  \* what comes out, NULL before

vars == <<input, result>>

CSV == INSTANCE AthenaCSV
TS == INSTANCE TypeSignature
TV == INSTANCE TypedValues
L == INSTANCE Literals

(* The values of a type, as in the database: NULL, a text, a sequence of     *)
(* elements or of fields, a function of the texts of keys.  At most two      *)
(* elements and one key.                                                     *)
RECURSIVE Values(_)
Values(t) ==
  LET Nested(c) == {NULL} \cup Values(c) IN
  CASE t.type_name = "integer" -> {<<n>> : n \in Numbers}
    [] t.type_name = "varchar" -> {<<>>} \cup {<<n>> : n \in Names}
    [] t.type_name = "decimal" -> {<<n>> : n \in Decimals}
    [] t.type_name = "boolean" -> {<<"true">>, <<"false">>}
    [] t.type_name = "array" -> SeqOf(Nested(t.children[1]), 2)
    [] t.type_name = "row" ->
         IF Len(t.children) = 1 THEN {<<v>> : v \in Nested(t.children[1])}
         ELSE {<<v, w>> : v \in Nested(t.children[1]), w \in Nested(t.children[2])}
    [] t.type_name = "map" ->
         {<<>>} \cup UNION {[{k} -> Nested(t.children[2])] : k \in Values(t.children[1])}

(* How Athena writes a value, external; rows with the names of their fields  *)
(* or without.                                                               *)
RECURSIVE ValueText(_, _, _)
ValueText(v, t, named) ==
  LET Element(i) == ValueText(v[i], t.children[1], named)
      Field(i) == (IF named THEN t.field_names[i] \o <<"=">> ELSE <<>>)
                  \o ValueText(v[i], t.children[i], named)
      Entry(k) == k \o <<"=">> \o ValueText(v[k], t.children[2], named)
      keys == SetToSeq(DOMAIN v)
  IN IF v = NULL THEN <<"null">>
     ELSE CASE t.type_name = "array" ->
                 <<"[">> \o Join([i \in DOMAIN v |-> Element(i)], <<",">>) \o <<"]">>
            [] t.type_name = "row" ->
                 <<"{">> \o Join([i \in DOMAIN v |-> Field(i)], <<",">>) \o <<"}">>
            [] t.type_name = "map" ->
                 <<"{">> \o Join([i \in DOMAIN keys |-> Entry(keys[i])], <<",">>) \o <<"}">>
            [] OTHER -> v

Inputs ==
  [kind : {"csv"}, table : Tables]
  \cup [kind : {"type"}, type : Types, style : {"trino", "hive"}]
  \cup UNION {[kind : {"value"}, type : {t}, value : Values(t), hint : BOOLEAN, named : BOOLEAN]
                : t \in Types}
  \cup [kind : {"literal"}, statement : L!Statements, parameters : Parameters]

Init == input \in Inputs /\ result = NULL

Result(r) == result = NULL /\ result' = [is |-> r] /\ UNCHANGED input

(* AthenaCSVReader as S3FSCursor opens the file, and a reader of what        *)
(* BinaryCSVReader makes of it with any columns binary.                      *)
ReadCsv ==
  /\ input.kind = "csv"
  /\ LET file == CSV!WriteRows(input.table) IN
     Result([plain |-> CSV!ReadRows(CSV!UniversalNewlines(file)),
             binary |-> [columns \in SUBSET DOMAIN input.table[1] |->
                           CSV!ReadRows(CSV!BinaryCsv(file, columns))]])

ParseTypeHint ==
  /\ input.kind = "type"
  /\ Result(TS!ParseTypeHint(TS!TypeText(input.type, input.style)))

(* DefaultTypeConverter.convert, with result_set_type_hints or without. *)
ConvertValue ==
  /\ input.kind = "value"
  /\ LET text == ValueText(input.value, input.type, input.named) IN
     Result(IF input.hint THEN TV!ConvertWithHint(text, input.type)
            ELSE TV!Untyped(input.type.type_name, text))

FormatParameter ==
  /\ input.kind = "literal"
  /\ Result(L!FormatSeq(input.statement, input.parameters))

Next == ReadCsv \/ ParseTypeHint \/ ConvertValue \/ FormatParameter

Spec == Init /\ [][Next]_vars

Converted(kind) == input.kind = kind /\ result # NULL
--------------------------------------------------------------------------------
(* A result file is read back as it was written: NULL is not the empty       *)
(* string, quotes, delimiters and newlines within a value stay its own; the  *)
(* marker for a NULL stands where a binary column has a NULL, nowhere else.  *)
(* But S3FSCursor reads a line end of any kind within a value as \n.         *)
TableIsReadBack ==
  Converted("csv") =>
    /\ result.is.plain = [i \in DOMAIN input.table |-> [j \in DOMAIN input.table[i] |->
         LET v == input.table[i][j] IN IF v = NULL THEN NULL ELSE CSV!UniversalNewlines(v)]]
    /\ \A columns \in DOMAIN result.is.binary : \A i \in DOMAIN input.table :
         \A j \in DOMAIN input.table[i] :
           result.is.binary[columns][i][j] =
             IF i > 1 /\ j \in columns /\ input.table[i][j] = NULL THEN <<MARKER>>
             ELSE input.table[i][j]

(* The type hint that Trino or Hive writes for a type is read as that type,  *)
(* but that Hive's struct keeps its name.                                    *)
RECURSIVE SameType(_, _)
SameType(t, u) ==
  /\ t.type_name = u.type_name \/ (t.type_name = "struct" /\ u.type_name = "row")
  /\ t.field_names = u.field_names
  /\ Len(t.children) = Len(u.children)
  /\ \A i \in DOMAIN u.children : SameType(t.children[i], u.children[i])

TypeIsReadBack == Converted("type") => SameType(result.is, input.type)

Whole == ValueText(input.value, input.type, input.named)

(* An array of arrays in the native format: it stays the text it was, and is *)
(* None if it is within another value and there is a type hint.              *)
ArrayOfArrays(text, t) == t.type_name = "array" /\ Has(Tail(text), "[") /\ ~TV!IsJson(text)

(* An array that json.loads reads: without a type hint it is what json.loads *)
(* makes of it; with one an element is converted from what json.loads has    *)
(* made of it, which is a float's text for a decimal, Python's for a bool.   *)
ReadByJson(text, t) ==
  /\ t.type_name = "array"
  /\ IF input.hint THEN TV!ReadsAsJson(text) ELSE text = Whole /\ TV!IsJson(text)

ScalarIsKept(r, v, t, loaded) ==
  IF input.hint
  THEN \/ r = TV!Scalar(t.type_name, v)
       \/ (loaded /\ r = TV!Scalar(t.type_name, TV!ToJsonStr(TV!JsonScalar(v[1]))))
  ELSE r = IF loaded THEN TV!JsonScalar(v[1]) ELSE TV!Atom("str", v)

(* r is what v has become, v being of type t, in an array that is loaded by  *)
(* json.loads or not.  Without a type hint a value, or a part of it, may     *)
(* stay the text it was.                                                     *)
RECURSIVE Kept(_, _, _, _)
Kept(r, v, t, around) ==
  LET text == ValueText(v, t, input.named)
      loaded == around \/ ReadByJson(text, t)
      Name(i) == IF input.named \/ input.hint THEN t.field_names[i] ELSE <<ToString(i - 1)>>
  IN IF v = NULL THEN r = NULL
     ELSE IF r = NULL THEN ArrayOfArrays(text, t)
     ELSE \/ r = TV!Atom("str", text) /\ (ArrayOfArrays(text, t) \/ ~input.hint)
          \/ /\ t.type_name \in {"integer", "varchar", "decimal", "boolean"}
             /\ ScalarIsKept(r, v, t, around)
          \/ /\ t.type_name = "array" /\ "list" \in DOMAIN r /\ Len(r.list) = Len(v)
             /\ \A i \in DOMAIN v : Kept(r.list[i], v[i], t.children[1], loaded)
          \/ /\ t.type_name = "row" /\ "dict" \in DOMAIN r
             /\ DOMAIN r.dict = {Name(i) : i \in DOMAIN v}
             /\ \A i \in DOMAIN v : Kept(r.dict[Name(i)], v[i], t.children[i], FALSE)
          \/ /\ t.type_name = "map" /\ "dict" \in DOMAIN r /\ DOMAIN r.dict = DOMAIN v
             /\ \A k \in DOMAIN v : Kept(r.dict[k], v[k], t.children[2], FALSE)

(* An empty string among elements without names is taken for no element.     *)
RECURSIVE HasBlank(_, _)
HasBlank(v, t) ==
  /\ v # NULL
  /\ CASE t.type_name = "array" ->
            \E i \in DOMAIN v : \/ t.children[1].type_name = "varchar" /\ v[i] = <<>>
                                \/ HasBlank(v[i], t.children[1])
       [] t.type_name = "row" ->
            \E i \in DOMAIN v :
              \/ ~input.named /\ t.children[i].type_name = "varchar" /\ v[i] = <<>>
              \/ HasBlank(v[i], t.children[i])
       [] t.type_name = "map" -> \E k \in DOMAIN v : HasBlank(v[k], t.children[2])
       [] OTHER -> FALSE

(* Rows without names: the "=" of a map look like those of fields, and       *)
(* without a type hint the commas of a nested value like the row's.          *)
LooksLikeFields(text) ==
  /\ ~input.named /\ input.type.type_name = "row"
  /\ IF input.hint THEN Has(text, "=") ELSE Has(Tail(text), "{") \/ Has(text, "[")

(* The cases in which the text does not tell the value. *)
Ambiguous == HasBlank(input.value, input.type) \/ LooksLikeFields(Whole)

(* Whatever its nesting, a value that comes as Athena's text is the value it *)
(* was, with its NULLs, in its fields and under its keys, but for what       *)
(* ArrayOfArrays and ReadByJson admit.                                       *)
ValueIsKept ==
  Converted("value") /\ ~Ambiguous => Kept(result.is, input.value, input.type, FALSE)

(* The engine that runs the statement reads the very strings out of the      *)
(* literals, whatever quotes and backslashes they have, and no more or fewer *)
(* of them.  A CREATE TABLE in which the word AS occurs is out: its literals *)
(* are written for the other engine.                                         *)
LiteralsAreTheValues ==
  Converted("literal") /\ input.statement # "create table with the word AS" =>
    L!LexSeq(input.statement, result.is) = input.parameters
================================================================================
