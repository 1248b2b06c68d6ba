------------------------------ MODULE TypeSignature ----------------------------
(* parser.TypeSignatureParser: the tree of a type hint, which is written in  *)
(* the syntax of Trino, or in Hive's, which DefaultTypeConverter rewrites.   *)
EXTENDS Tokens

LOCAL Blank == {" "}

(* _TYPE_ALIASES *)
Alias(name) == IF name = "int" THEN "integer" ELSE name

TypeNode(name, children, field_names) ==
  [type_name |-> Alias(name), children |-> children, field_names |-> field_names]

(* _find_matching_paren: the last token if there is none. *)
FindMatchingParen(s, open) ==
  LET closing == {i \in open..Len(s) :
                    s[i] = ")" /\ Depth(s, i, "(", ")") = Depth(s, open - 1, "(", ")")}
  IN IF closing = {} THEN Len(s) ELSE Min(closing)

(* Mutant: the comma in decimal(10, 2) separates arguments, too. *)
SplitTypeArgsFlat(s) ==
  LET pieces == SplitAt(s, {i \in DOMAIN s : s[i] = ","})
  IN [i \in DOMAIN pieces |-> Strip(pieces[i], Blank)]

(* _split_type_args: at the commas outside of parentheses; nothing is no     *)
(* argument.                                                                 *)
SplitTypeArgs(s) ==
  LET pieces == SplitAt(s, {i \in DOMAIN s : s[i] = "," /\ Depth(s, i, "(", ")") = 0})
  IN [i \in DOMAIN (IF Last(pieces) = <<>> THEN Front(pieces) ELSE pieces) |->
        Strip(pieces[i], Blank)]

(* _find_field_name_boundary: the first space outside of parentheses, or 0.  *)
FindFieldNameBoundary(part) ==
  LET spaces == {i \in DOMAIN part : part[i] = " " /\ Depth(part, i, "(", ")") = 0}
  IN IF spaces = {} THEN 0 ELSE Min(spaces)

RECURSIVE Parse(_)

(* A field without a name is named by its type. *)
ParseField(part) ==
  LET space == FindFieldNameBoundary(part) IN
  IF space = 0 THEN [name |-> part, type |-> Parse(part)]
  ELSE [name |-> SubSeq(part, 1, space - 1),
        type |-> Parse(Strip(SubSeq(part, space + 1, Len(part)), Blank))]

(* parse(): other types, decimal(10, 2), keep no arguments. *)
Parse(text) ==
  LET s == Strip(text, Blank) IN
  IF ~Has(s, "(") THEN TypeNode(IF s = <<>> THEN "" ELSE Head(s), <<>>, <<>>)
  ELSE
  LET open == Min({i \in DOMAIN s : s[i] = "("})
      inner == Strip(SubSeq(s, open + 1, FindMatchingParen(s, open) - 1), Blank)
      parts == SplitTypeArgs(inner)
      name == IF open = 1 THEN "" ELSE Head(s)
  IN CASE name \in {"row", "struct"} ->
            LET fields == [i \in DOMAIN parts |-> ParseField(parts[i])]
            IN TypeNode(name, [i \in DOMAIN fields |-> fields[i].type],
                              [i \in DOMAIN fields |-> fields[i].name])
       [] name = "array" -> TypeNode(name, <<Parse(inner)>>, <<>>)
       [] name = "map" /\ Len(parts) = 2 ->
            TypeNode(name, <<Parse(parts[1]), Parse(parts[2])>>, <<>>)
       [] OTHER -> TypeNode(name, <<>>, <<>>)

(* DefaultTypeConverter._normalize_hive_syntax *)
NormalizeHiveSyntax(s) ==
  IF ~Has(s, "<") THEN s
  ELSE [i \in DOMAIN s |-> CASE s[i] = "<" -> "(" [] s[i] = ">" -> ")" [] s[i] = ":" -> " "
                             [] OTHER -> s[i]]

(* DefaultTypeConverter._parse_type_hint *)
ParseTypeHint(hint) == Parse(NormalizeHiveSyntax(hint))
--------------------------------------------------------------------------------
(* How Trino and Hive write a type.  The arguments of a decimal are numbers. *)

RECURSIVE TypeText(_, _)
TypeText(t, style) ==
  LET open == IF style = "hive" THEN <<"<">> ELSE <<"(">>
      close == IF style = "hive" THEN <<">">> ELSE <<")">>
      comma == IF style = "hive" THEN <<",">> ELSE <<",", " ">>
      colon == IF style = "hive" THEN <<":">> ELSE <<" ">>
      Field(i) == t.field_names[i] \o colon \o TypeText(t.children[i], style)
  IN CASE t.type_name = "decimal" -> <<"decimal", "(", "10", ",", "2", ")">>
       [] t.type_name \in {"row", "array", "map"} ->
            <<IF t.type_name = "row" /\ style = "hive" THEN "struct" ELSE t.type_name>>
            \o open
            \o Join([i \in DOMAIN t.children |->
                       IF t.type_name = "row" THEN Field(i) ELSE TypeText(t.children[i], style)],
                    comma)
            \o close
       [] OTHER -> <<IF style = "hive" /\ t.type_name = "integer" THEN "int" ELSE t.type_name>>
================================================================================
