-------------------------------- MODULE AthenaCSV ------------------------------
(* s3fs/reader.AthenaCSVReader, which tells an empty value from a NULL, and  *)
(* pandas/reader.BinaryCSVReader, which marks the NULLs of binary columns    *)
(* before pandas forgets the quotes.  Here letters matter: a text is a       *)
(* sequence of them.  NULL is Python's None.                                 *)
EXTENDS Naturals, Sequences, FiniteSetsExt, SequencesExt

CONSTANTS NULL, MARKER  \* what BinaryCSVReader writes for a NULL

Quote == "\""
Comma == ","
Newline == "\n"
CarriageReturn == "\r"

Odd(text) == Quantify(DOMAIN text, LAMBDA i : text[i] = Quote) % 2 = 1
LOCAL Pieces(text, ends) ==
  LET cuts == SetToSortSeq({0} \cup ends, <)
  IN [i \in 1..(Len(cuts) - 1) |-> SubSeq(text, cuts[i] + 1, cuts[i + 1])]

(* readline() of a text file: a line ends with \n, \r or both.               *)
LineEnds(file) ==
  {i \in DOMAIN file : \/ file[i] = Newline
                       \/ file[i] = CarriageReturn /\ (i = Len(file) \/ file[i + 1] # Newline)}

(* TextIOWrapper without newline="": each line end is read as \n.            *)
UniversalNewlines(file) ==
  LET crlf == {i \in DOMAIN file : file[i] = CarriageReturn /\ i \notin LineEnds(file)}
  IN FlattenSeq([i \in DOMAIN file |->
                   CASE i \in crlf -> <<>> [] i \in LineEnds(file) -> <<Newline>>
                     [] OTHER -> <<file[i]>>])

(* Mutant: a record ends with its line. *)
RecordsOfLines(file) == Pieces(file, LineEnds(file) \cup {Len(file)})

(* _read_record: lines are added up to an even number of quotes, or the end  *)
(* of the file.                                                              *)
Records(file) ==
  Pieces(file, {i \in LineEnds(file) : ~Odd(SubSeq(file, 1, i))} \cup {Len(file)})

(* rstrip("\r\n"), which takes away more than one line end. *)
RStrip(record) ==
  LET kept == {i \in DOMAIN record : record[i] \notin {Newline, CarriageReturn}}
  IN IF kept = {} THEN <<>> ELSE SubSeq(record, 1, Max(kept))

SkipDelimiter(rest) == IF rest # <<>> /\ Head(rest) = Comma THEN Tail(rest) ELSE rest

(* _parse_quoted_field, behind the opening quote. *)
RECURSIVE Quoted(_)
Quoted(s) ==
  IF s = <<>> THEN [value |-> <<>>, rest |-> <<>>]
  ELSE IF Head(s) # Quote
  THEN LET more == Quoted(Tail(s)) IN [more EXCEPT !.value = <<Head(s)>> \o @]
  ELSE IF Len(s) > 1 /\ s[2] = Quote
  THEN LET more == Quoted(SubSeq(s, 3, Len(s))) IN [more EXCEPT !.value = <<Quote>> \o @]
  ELSE [value |-> <<>>, rest |-> SkipDelimiter(Tail(s))]

(* _parse_unquoted_field *)
Unquoted(s) ==
  LET end == Min({i \in DOMAIN s : s[i] = Comma} \cup {Len(s) + 1})
  IN [value |-> SubSeq(s, 1, end - 1), rest |-> SubSeq(s, end + 1, Len(s))]

(* _parse_line: an empty field is a NULL unless it is quoted. *)
RECURSIVE Fields(_)
Fields(s) ==
  IF s = <<>> THEN <<>>
  ELSE IF Head(s) = Quote
  THEN LET f == Quoted(Tail(s)) IN <<f.value>> \o Fields(f.rest)
  ELSE LET f == Unquoted(s) IN <<(IF f.value = <<>> THEN NULL ELSE f.value)>> \o Fields(f.rest)

(* A line that ends with a delimiter has one more field. *)
ParseLine(line) ==
  IF line = <<>> THEN <<NULL>>
  ELSE Fields(line) \o IF Last(line) = Comma THEN <<NULL>> ELSE <<>>

ReadRows(file) == [i \in DOMAIN Records(file) |-> ParseLine(RStrip(Records(file)[i]))]
--------------------------------------------------------------------------------
(* BinaryCSVReader.readinto: _CSV_FIELD finds the fields between the commas  *)
(* outside of quotes; what is behind the last one is kept.                   *)
MarkNulls(record, binary_columns) ==
  LET line == RStrip(record)
      commas == SetToSortSeq({i \in DOMAIN line : line[i] = Comma /\ ~Odd(SubSeq(line, 1, i))}, <)
      starts == <<1>> \o [i \in DOMAIN commas |-> commas[i] + 1]
      end(i) == IF i = Len(starts) THEN Len(line) ELSE starts[i + 1] - 2
      field(i) == SubSeq(line, starts[i], end(i))
      marked(i) == (IF i > 1 THEN <<Comma>> ELSE <<>>)
                   \o IF i \in binary_columns /\ field(i) = <<>> THEN <<MARKER>> ELSE field(i)
  IN FlattenSeq([i \in DOMAIN starts |-> marked(i)]) \o SubSeq(record, Len(line) + 1, Len(record))

(* The first record is the header. *)
BinaryCsv(file, binary_columns) ==
  LET records == Records(file)
  IN FlattenSeq([i \in DOMAIN records |->
                   IF i = 1 THEN records[i] ELSE MarkNulls(records[i], binary_columns)])
--------------------------------------------------------------------------------
(* How Athena writes a result: every value in quotes, but a NULL not at all. *)
WriteField(v) ==
  IF v = NULL THEN <<>>
  ELSE <<Quote>> \o FlattenSeq([i \in DOMAIN v |-> IF v[i] = Quote THEN <<Quote, Quote>>
                                                   ELSE <<v[i]>>]) \o <<Quote>>

WriteRow(row) ==
  FlattenSeq([i \in DOMAIN row |-> (IF i > 1 THEN <<Comma>> ELSE <<>>) \o WriteField(row[i])])
  \o <<Newline>>

WriteRows(rows) == FlattenSeq([i \in DOMAIN rows |-> WriteRow(rows[i])])
================================================================================
