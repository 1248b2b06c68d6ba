-------------------------------- MODULE Literals -------------------------------
(* formatter.DefaultParameterFormatter: a string parameter becomes a literal *)
(* of the engine that will run the statement, Hive's for DDL, Trino's for    *)
(* the rest.  A text is a sequence of letters.                               *)
EXTENDS Naturals, Sequences, FiniteSetsExt, SequencesExt

Apostrophe == "'"
Backslash == "\\"

(* A statement by its leading words, behind the comments in front of it.     *)
Ddl == {"alter table", "create database", "create table", "drop table", "msck", "show",
        "describe", "create table with the word AS"}
Statements == Ddl \cup {"select", "insert", "create table as", "create view", "drop view"}

(* _HIVE_STATEMENT_PATTERN: with AS anywhere, in a comment say, a CREATE     *)
(* TABLE is taken for a CREATE TABLE AS.                                     *)
HiveStatement(statement) == statement \in Ddl \ {"create table with the word AS"}

LOCAL Replace(text, letter, by) ==
  FlattenSeq([i \in DOMAIN text |-> IF text[i] = letter THEN by ELSE <<text[i]>>])

EscapeTrino(val) ==
  <<Apostrophe>> \o Replace(val, Apostrophe, <<Apostrophe, Apostrophe>>) \o <<Apostrophe>>

(* Mutant: the backslashes are doubled last, those of the escapes, too. *)
EscapeHiveBackslashLast(val) ==
  <<Apostrophe>>
  \o Replace(Replace(Replace(val, Apostrophe, <<Backslash, Apostrophe>>),
                     "\n", <<Backslash, "n">>),
             Backslash, <<Backslash, Backslash>>)
  \o <<Apostrophe>>

(* Letters that have a name behind a backslash, in the order of the code. *)
Controls == <<"\r", "\n", "\t">>
ControlName == [c \in ToSet(Controls) |-> CASE c = "\r" -> "r" [] c = "\n" -> "n" [] c = "\t" -> "t"]

EscapeHive(val) ==
  LET quoted == Replace(Replace(val, Backslash, <<Backslash, Backslash>>),
                        Apostrophe, <<Backslash, Apostrophe>>)
      escaped == FoldLeft(LAMBDA text, c : Replace(text, c, <<Backslash, ControlName[c]>>),
                          quoted, Controls)
  IN <<Apostrophe>> \o escaped \o <<Apostrophe>>

(* _get_escaper and _format_str *)
FormatStr(statement, val) ==
  IF HiveStatement(statement) THEN EscapeHive(val) ELSE EscapeTrino(val)

(* _format_seq: each element on its own, whatever letters it has. *)
FormatSeq(statement, vals) ==
  <<"(">> \o FlattenSeq([i \in DOMAIN vals |-> (IF i > 1 THEN <<",", " ">> ELSE <<>>)
                                               \o FormatStr(statement, vals[i])]) \o <<")">>
--------------------------------------------------------------------------------
(* How the engines read a literal, behind its first apostrophe: the value    *)
(* and what follows; NoLiteral if it does not end.                           *)
NoLiteral == [ended |-> FALSE, value |-> <<>>, rest |-> <<>>]

RECURSIVE LexTrino(_), LexHive(_)
LexTrino(s) ==
  IF s = <<>> THEN NoLiteral
  ELSE IF Head(s) # Apostrophe
  THEN LET more == LexTrino(Tail(s)) IN [more EXCEPT !.value = <<Head(s)>> \o @]
  ELSE IF Len(s) > 1 /\ s[2] = Apostrophe
  THEN LET more == LexTrino(SubSeq(s, 3, Len(s))) IN [more EXCEPT !.value = <<Apostrophe>> \o @]
  ELSE [ended |-> TRUE, value |-> <<>>, rest |-> Tail(s)]

LexHive(s) ==
  IF s = <<>> \/ s = <<Backslash>> THEN NoLiteral
  ELSE IF Head(s) = Apostrophe THEN [ended |-> TRUE, value |-> <<>>, rest |-> Tail(s)]
  ELSE IF Head(s) = Backslash
  THEN LET more == LexHive(SubSeq(s, 3, Len(s)))
           named == {c \in ToSet(Controls) : ControlName[c] = s[2]}
           letter == IF named = {} THEN s[2] ELSE CHOOSE c \in named : TRUE
       IN [more EXCEPT !.value = <<letter>> \o @]
  ELSE LET more == LexHive(Tail(s)) IN [more EXCEPT !.value = <<Head(s)>> \o @]

(* Athena runs DDL with Hive, but CREATE TABLE AS and views with Trino. *)
Lex(statement, s) == IF statement \in Ddl THEN LexHive(s) ELSE LexTrino(s)

(* The values of a sequence of literals in parentheses, NoValues if it is    *)
(* not one.                                                                  *)
NoValues == <<"not a sequence of literals">>

RECURSIVE LexSeq(_, _)
LexSeq(statement, s) ==
  IF Len(s) < 2 \/ s[2] # Apostrophe THEN NoValues
  ELSE LET lit == Lex(statement, SubSeq(s, 3, Len(s))) IN
       IF ~lit.ended \/ lit.rest = <<>> THEN NoValues
       ELSE IF lit.rest = <<")">> THEN <<lit.value>>
       ELSE IF Len(lit.rest) < 2 \/ Head(lit.rest) # "," THEN NoValues
       ELSE <<lit.value>> \o LexSeq(statement, Tail(lit.rest))
================================================================================
