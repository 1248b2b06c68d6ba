------------------------------- MODULE TypedValues -----------------------------
(* How arrays, maps and rows are made from the text that Athena returns:     *)
(* parser.TypedValueConverter with a type hint, converter._to_array, _to_map *)
(* and _to_struct without.  Texts are tokens, without the spaces that every  *)
(* strip() takes away, and without quotes: Athena's own form, not JSON's;    *)
(* but what is in Athena's form may be JSON as well, and is read as such.    *)
(* None is NULL; a list, a dict and what is neither are told apart.          *)
EXTENDS TypeSignature

CONSTANTS
  NULL,
  Numbers,   \* the tokens that are integers in JSON
  FloatText  \* of the tokens that are other numbers in JSON: repr(float(token))

List(s) == [list |-> s]
Dict(f) == [dict |-> f]
Atom(type, text) == [atom |-> type, text |-> text]

Varchar == TypeNode("varchar", <<>>, <<>>)

(* Mutant: commas within a nested row separate items, too. *)
SplitArrayItemsInBraces(inner) ==
  LET pieces == SplitAt(inner, {i \in DOMAIN inner :
                   inner[i] = "," /\ Depth(inner, i, "[", "]") = 0})
  IN IF Last(pieces) = <<>> THEN Front(pieces) ELSE pieces

SplitArrayItems(inner) ==
  LET pieces == SplitAt(inner, {i \in DOMAIN inner :
                   /\ inner[i] = "," /\ Depth(inner, i, "{", "}") = 0
                   /\ Depth(inner, i, "[", "]") = 0})
  IN IF Last(pieces) = <<>> THEN Front(pieces) ELSE pieces

(* str.split("=", 1) of a pair that has one, in pairs that may be used. *)
Equals(pair) == Min({i \in DOMAIN pair : pair[i] = "="})
Key(pair) == SubSeq(pair, 1, Equals(pair) - 1)
Value(pair) == SubSeq(pair, Equals(pair) + 1, Len(pair))
IsPair(pair) == Has(pair, "=") /\ ~(Has(Key(pair), "{") \/ Has(Key(pair), "}"))

Braced(s) == Within(s, "{", "}")
KeyText(x) == IF x = NULL THEN <<"None">> ELSE x.text

(* The last of several values for a key stays. *)
DictOf(keys, values) ==
  Dict([k \in ToSet(keys) |-> values[Max({i \in DOMAIN keys : keys[i] = k})]])
--------------------------------------------------------------------------------
(* JSON: what json.loads makes of a text, and json.dumps and str() of that.  *)

JsonScalars == Numbers \cup DOMAIN FloatText \cup {"true", "false", "null"}

(* Lists of scalars and lists, and empty dicts. *)
IsJson(s) ==
  \A i \in DOMAIN s : /\ s[i] \in JsonScalars \cup {"[", "]", "{", "}", ","}
                      /\ s[i] = "{" => s[i + 1] = "}"
                      /\ s[i] = "," => s[i - 1] \notin {"[", ","} /\ s[i + 1] \notin {",", "]"}

JsonScalar(token) ==
  CASE token = "null" -> NULL
    [] token \in {"true", "false"} -> Atom("bool", <<token>>)
    [] token \in Numbers -> Atom("int", <<token>>)
    [] token \in DOMAIN FloatText -> Atom("float", <<FloatText[token]>>)

RECURSIVE LoadJson(_), DumpJson(_)
LoadJson(s) ==
  IF Braced(s) THEN Dict(<<>>)
  ELSE IF ~Within(s, "[", "]") THEN JsonScalar(s[1])
  ELSE LET items == SplitArrayItems(Inner(s)) IN List([i \in DOMAIN items |-> LoadJson(items[i])])

DumpJson(x) ==
  CASE x = NULL -> <<"null">>
    [] x # NULL /\ "list" \in DOMAIN x ->
         <<"[">> \o Join([i \in DOMAIN x.list |-> DumpJson(x.list[i])], <<",">>) \o <<"]">>
    [] x # NULL /\ "dict" \in DOMAIN x -> <<"{", "}">>
    [] x # NULL /\ "atom" \in DOMAIN x -> x.text

(* _to_json_str of what is not None: str() writes a bool in Python's way. *)
ToJsonStr(x) ==
  IF "atom" \in DOMAIN x /\ x.atom = "bool"
  THEN <<IF x.text = <<"true">> THEN "True" ELSE "False">>
  ELSE DumpJson(x)
--------------------------------------------------------------------------------
(* converter.py: without a type hint.                                        *)

(* lower() == "null" *)
IsNull(s) == s \in {<<"null">>, <<"NULL">>}

ConvertValue(s) == IF IsNull(s) THEN NULL ELSE Atom("str", s)

RECURSIVE ToStruct(_)

(* _parse_named_struct: the text if a pair is not one. *)
ParseNamedStruct(inner, text) ==
  LET pairs == SelectSeq(SplitArrayItems(inner), LAMBDA p : p # <<>>)
      Converted(v) == IF Braced(v) /\ ToStruct(v) # NULL THEN ToStruct(v) ELSE ConvertValue(v)
  IN IF pairs = <<>> \/ \E i \in DOMAIN pairs : ~IsPair(pairs[i]) THEN Atom("str", text)
     ELSE DictOf([i \in DOMAIN pairs |-> Key(pairs[i])],
                 [i \in DOMAIN pairs |-> Converted(Value(pairs[i]))])

(* _parse_unnamed_struct: every comma counts. *)
ParseUnnamedStruct(inner) ==
  LET values == SplitAt(inner, {i \in DOMAIN inner : inner[i] = ","})
  IN Dict([k \in {<<ToString(i - 1)>> : i \in DOMAIN values} |->
             ConvertValue(values[CHOOSE i \in DOMAIN values : k = <<ToString(i - 1)>>])])

ToStruct(s) ==
  IF ~Braced(s) THEN NULL
  ELSE IF Inner(s) = <<>> THEN Dict(<<>>)
  ELSE IF Has(s, "=") THEN ParseNamedStruct(Inner(s), s)
  ELSE ParseUnnamedStruct(Inner(s))

(* _parse_map_native: nested braces leave the text as it is. *)
ParseMapNative(inner, text) ==
  LET pairs == SelectSeq(SplitAt(inner, {i \in DOMAIN inner : inner[i] = ","}),
                         LAMBDA p : p # <<>>)
      Bad(p) == ~IsPair(p) \/ Has(Value(p), "{") \/ Has(Value(p), "}") \/ Has(Value(p), "=")
  IN IF pairs = <<>> \/ \E i \in DOMAIN pairs : Bad(pairs[i]) THEN Atom("str", text)
     ELSE DictOf([i \in DOMAIN pairs |-> KeyText(ConvertValue(Key(pairs[i])))],
                 [i \in DOMAIN pairs |-> ConvertValue(Value(pairs[i]))])

(* _to_map: arrays within it, too. *)
ToMap(s) ==
  IF ~Braced(s) THEN NULL
  ELSE IF Inner(s) = <<>> THEN Dict(<<>>)
  ELSE IF Has(s, "[") THEN Atom("str", s)
  ELSE ParseMapNative(Inner(s), s)

(* _parse_array_native: pairs outside of braces leave the text as it is. *)
ParseArrayNative(inner, text) ==
  LET items == SelectSeq(SplitArrayItems(inner), LAMBDA x : x # <<>>)
      Item(x) == IF Braced(x) THEN ToStruct(x) ELSE ConvertValue(x)
  IN IF items = <<>> \/ \E i \in DOMAIN items : ~Braced(items[i]) /\ Has(items[i], "=")
     THEN Atom("str", text)
     ELSE List([i \in DOMAIN items |-> Item(items[i])])

(* _to_array: arrays within it, too. *)
ToArray(s) ==
  IF ~Within(s, "[", "]") THEN NULL
  ELSE IF IsJson(s) THEN LoadJson(s)
  ELSE IF Has(Inner(s), "[") THEN Atom("str", s)
  ELSE ParseArrayNative(Inner(s), s)

(* Converter.get of a type that is not nested.                               *)
Untyped(name, s) ==
  CASE name = "array" -> ToArray(s) [] name = "map" -> ToMap(s)
    [] name \in {"row", "struct"} -> ToStruct(s) [] OTHER -> Atom(name, s)
--------------------------------------------------------------------------------
(* parser.TypedValueConverter                                                *)

RECURSIVE Convert(_, _)

ConvertElement(s, node) == IF IsNull(s) THEN NULL ELSE Convert(s, node)

(* A braced value where the type may say otherwise. *)
ConvertBraced(s, node) ==
  IF node.type_name \in {"row", "struct", "map"} THEN Convert(s, node) ELSE ToStruct(s)

ConvertNested(s, node) == IF Braced(s) THEN ConvertBraced(s, node) ELSE ConvertElement(s, node)

(* JSON is tried on a text that may be nested or begins with a null.         *)
ReadsAsJson(s) == s[2] \in {"{", "[", "null"} /\ IsJson(s)

(* What json.loads made of the elements is written as text, and that is      *)
(* converted.                                                                *)
ConvertLoaded(s, node) ==
  LET loaded == LoadJson(s).list
  IN List([i \in DOMAIN loaded |->
             IF loaded[i] = NULL THEN NULL ELSE Convert(ToJsonStr(loaded[i]), node)])

ConvertTypedArray(s, node) ==
  LET items == SplitArrayItems(Inner(s))
      filled == SelectSeq(items, LAMBDA x : x # <<>>)
      element == node.children[1]
  IN IF ~Within(s, "[", "]") THEN NULL
     ELSE IF ReadsAsJson(s) THEN ConvertLoaded(s, element)
     ELSE IF Inner(s) = <<>> THEN List(<<>>)
     ELSE IF Has(Inner(s), "[") \/ filled = <<>> THEN NULL
     ELSE List([i \in DOMAIN filled |-> ConvertNested(filled[i], element)])

ConvertTypedMap(s, node) ==
  LET pairs == SelectSeq(SplitArrayItems(Inner(s)), LAMBDA p : p # <<>> /\ IsPair(p))
  IN IF ~Braced(s) THEN NULL
     ELSE IF Inner(s) = <<>> THEN Dict(<<>>)
     ELSE IF pairs = <<>> THEN NULL
     ELSE DictOf([i \in DOMAIN pairs |-> KeyText(ConvertElement(Key(pairs[i]), node.children[1]))],
                 [i \in DOMAIN pairs |-> ConvertNested(Value(pairs[i]), node.children[2])])

(* TypeNode.get_field_type, else by position. *)
GetFieldType(name, node, index) ==
  LET named == {i \in DOMAIN node.field_names : node.field_names[i] = name}
  IN IF named # {} THEN node.children[Max(named)]
     ELSE IF index \in DOMAIN node.children THEN node.children[index] ELSE Varchar

ConvertTypedStruct(s, node) ==
  LET pairs == SelectSeq(SplitArrayItems(Inner(s)), LAMBDA p : p # <<>> /\ IsPair(p))
      values == SplitArrayItems(Inner(s))
      Name(i) == IF i \in DOMAIN node.field_names THEN node.field_names[i] ELSE <<ToString(i - 1)>>
  IN IF ~Braced(s) THEN NULL
     ELSE IF Inner(s) = <<>> THEN Dict(<<>>)
     ELSE IF Has(s, "=")
     THEN IF pairs = <<>> THEN NULL
          ELSE DictOf([i \in DOMAIN pairs |-> Key(pairs[i])],
                      [i \in DOMAIN pairs |->
                         ConvertNested(Value(pairs[i]), GetFieldType(Key(pairs[i]), node, i))])
     ELSE DictOf([i \in DOMAIN values |-> Name(i)],
                 [i \in DOMAIN values |->
                    ConvertElement(values[i], IF i \in DOMAIN node.children
                                              THEN node.children[i] ELSE Varchar)])

(* The converter of a type that is not nested; strtobool is for any case.    *)
Scalar(name, s) ==
  Atom(name, IF name = "boolean" /\ s \in {<<"True">>, <<"False">>}
             THEN <<IF s = <<"True">> THEN "true" ELSE "false">> ELSE s)

Convert(s, node) ==
  CASE node.type_name = "array" -> ConvertTypedArray(s, node)
    [] node.type_name = "map" -> ConvertTypedMap(s, node)
    [] node.type_name \in {"row", "struct"} -> ConvertTypedStruct(s, node)
    [] OTHER -> Scalar(node.type_name, s)

(* DefaultTypeConverter.convert: without the hint if that gives nothing. *)
ConvertWithHint(s, node) ==
  IF Convert(s, node) # NULL THEN Convert(s, node) ELSE Untyped(node.type_name, s)
================================================================================
