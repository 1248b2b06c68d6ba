------------------------------- MODULE ResultFiles -----------------------------
(* What the result sets of module FileCursor read: the file a query leaves   *)
(* on S3, the Parquet files of an UNLOAD, or the GetQueryResults API.  A row *)
(* is its number; 0 is the header line of a CSV file.                        *)
EXTENDS Naturals, Sequences, SequencesExt

CONSTANTS
  NULL,
  MaxRows,            \* bound: rows of a result
  LARGE_FILE_THRESHOLD, ESTIMATED_PER_ROW,   \* AthenaPandasResultSet's limits,
  AUTO_THRESHOLD_LARGE, AUTO_THRESHOLD_MEDIUM, \* scaled down: a line is a unit
  AUTO_SIZE_LARGE, AUTO_SIZE_MEDIUM

(* A SELECT writes a .csv file with a header, SHOW and the like a .txt file  *)
(* without one; MERGE, UPDATE, DELETE write a .csv that is not a result; CTAS*)
(* names a location that is neither.  No location: Athena manages results.   *)
Queries ==
  {q \in [stmt : {"select", "show", "merge", "ctas"}, n : 0..MaxRows,
          located : BOOLEAN, binary : BOOLEAN] :
     /\ q.stmt \in {"merge", "ctas"} => q.n = 0
     /\ q.binary => q.stmt = "select"}

Extension(q) ==
  IF q.stmt = "show" THEN ".txt" ELSE IF q.stmt = "ctas" THEN "" ELSE ".csv"

DataRows(q) == [i \in 1..q.n |-> i]
Lines(q) == (IF Extension(q) = ".csv" THEN <<0>> ELSE <<>>) \o DataRows(q)
ContentLength(q) == Len(Lines(q))

(* is_unload: the option is set and the statement was one to be wrapped. *)
IsUnload(q, unload) == unload /\ q.stmt = "select"

(* The data manifest lists no file if the UNLOAD had no rows. *)
DataManifest(q) == q.n > 0

(* The first page of one row: the header of a SELECT, a row of a SHOW.       *)
PreFetched(q) == IF q.stmt = "show" /\ q.n > 0 THEN <<1>> ELSE <<>>

(* _fetch_all_rows; its test for header rows is module FetchAllRows. *)
FetchAllRows(q) == DataRows(q)

(* A sequence cut into pieces of k, the last one possibly shorter. *)
Pieces(s, k) ==
  [i \in 1..((Len(s) + k - 1) \div k) |->
     SubSeq(s, (i - 1) * k + 1, IF i * k < Len(s) THEN i * k ELSE Len(s))]

(* What is read: pieces to come, rows at hand, streams left open, and        *)
(* whether a piece is fetched from S3 only when it is asked for.             *)
Content(chunks, buf, streams, lazy) ==
  [chunks |-> chunks, buf |-> buf, streams |-> streams, lazy |-> lazy]

Empty == Content(<<<<>>>>, <<>>, {}, FALSE)
--------------------------------------------------------------------------------
(* AthenaPandasResultSet *)

AutoDetermineChunksize(length) ==
  LET estimated == length \div ESTIMATED_PER_ROW IN
  IF length <= LARGE_FILE_THRESHOLD THEN NULL
  ELSE IF estimated > AUTO_THRESHOLD_LARGE THEN AUTO_SIZE_LARGE
  ELSE IF estimated > AUTO_THRESHOLD_MEDIUM THEN AUTO_SIZE_MEDIUM
  ELSE NULL

(* Mutant: a text file is taken to have a header, too. *)
PandasCsvHeaderAlways(q) == TRUE

(* The options for pandas: the first line is a header unless the file is a   *)
(* .txt file.                                                                *)
PandasCsvHeader(q) == Extension(q) # ".txt"

(* Binary columns are read through a stream of the result set's own, so that *)
(* NULL is told from an empty value: in .csv files only.                     *)
BinaryStream(q) == IF q.binary /\ Extension(q) = ".csv" THEN {"csv_stream"} ELSE {}

(* pandas.read_csv gives one frame, or a reader of chunks that goes on       *)
(* reading from the stream; the stream of a whole read is closed with it.    *)
PandasReadCsv(q, chunksize, auto) ==
  LET effective == IF chunksize = NULL /\ auto
                   THEN AutoDetermineChunksize(ContentLength(q)) ELSE chunksize
      data == IF PandasCsvHeader(q) THEN Tail(Lines(q)) ELSE Lines(q)
  IN IF Extension(q) = "" \/ q.stmt = "merge" \/ ContentLength(q) = 0 THEN Empty
     ELSE IF effective = NULL THEN Content(<<data>>, <<>>, {}, FALSE)
     ELSE Content(Pieces(data, effective), <<>>, {"reader"} \cup BinaryStream(q), TRUE)

PandasReadParquet(q) ==
  IF DataManifest(q) THEN Content(<<DataRows(q)>>, <<>>, {}, FALSE) ELSE Empty

PandasFromApi(q) ==
  IF FetchAllRows(q) = <<>> THEN Empty ELSE Content(<<FetchAllRows(q)>>, <<>>, {}, FALSE)

PandasContent(q, o) ==
  IF ~q.located THEN PandasFromApi(q)
  ELSE IF IsUnload(q, o.unload) THEN PandasReadParquet(q)
  ELSE PandasReadCsv(q, o.chunksize, o.auto)
--------------------------------------------------------------------------------
(* AthenaArrowResultSet: a table, handed out in batches of arraysize rows.   *)

ArrowReadCsv(q) ==
  IF Extension(q) = "" \/ q.stmt = "merge" \/ ContentLength(q) = 0 THEN <<>>
  ELSE IF Extension(q) = ".txt" THEN Lines(q) ELSE Tail(Lines(q))

ArrowReadParquet(q) == IF DataManifest(q) THEN DataRows(q) ELSE <<>>

ArrowFromApi(q) == FetchAllRows(q)

ArrowContent(q, o) ==
  LET table == IF ~q.located THEN ArrowFromApi(q)
               ELSE IF IsUnload(q, o.unload) THEN ArrowReadParquet(q)
               ELSE ArrowReadCsv(q)
  IN Content(Pieces(table, o.arraysize), <<>>, {}, FALSE)
--------------------------------------------------------------------------------
(* AthenaPolarsResultSet: one frame, or with a chunk size a generator that   *)
(* opens the file when the first chunk is asked for.                         *)

IsCsvReadable(q) == Extension(q) # "" /\ q.stmt # "merge" /\ ContentLength(q) # 0

PolarsReadCsv(q) ==
  IF ~IsCsvReadable(q) THEN <<>>
  ELSE IF Extension(q) = ".txt" THEN Lines(q) ELSE Tail(Lines(q))

PolarsReadParquet(q) == IF DataManifest(q) THEN DataRows(q) ELSE <<>>

PolarsIterChunks(q, o) ==
  LET data == IF IsUnload(q, o.unload) THEN PolarsReadParquet(q) ELSE PolarsReadCsv(q)
  IN Content(Pieces(data, o.chunksize), <<>>, {}, TRUE)

PolarsContent(q, o) ==
  IF ~q.located THEN Content(<<FetchAllRows(q)>>, <<>>, {}, FALSE)
  ELSE IF o.chunksize # NULL THEN PolarsIterChunks(q, o)
  ELSE IF IsUnload(q, o.unload) THEN Content(<<PolarsReadParquet(q)>>, <<>>, {}, FALSE)
  ELSE Content(<<PolarsReadCsv(q)>>, <<>>, {}, FALSE)
--------------------------------------------------------------------------------
(* AthenaS3FSResultSet: a CSV reader on the open file, a line at a time;     *)
(* without one the rows that the API gave.                                   *)

S3FSReader(q) ==
  /\ q.located /\ Extension(q) # "" /\ q.stmt # "merge" /\ ContentLength(q) # 0

(* Mutant: the header line is not skipped. *)
S3FSLinesWithHeader(q) == Lines(q)

S3FSLines(q) == IF Extension(q) = ".txt" THEN Lines(q) ELSE Tail(Lines(q))

S3FSContent(q, o) ==
  IF S3FSReader(q)
  THEN Content([i \in DOMAIN S3FSLines(q) |-> <<S3FSLines(q)[i]>>], <<>>, {"reader"}, TRUE)
  ELSE LET rows == IF q.located THEN <<>> ELSE FetchAllRows(q)
       IN Content(<<>>, IF rows = <<>> THEN PreFetched(q) ELSE rows, {}, FALSE)
================================================================================
