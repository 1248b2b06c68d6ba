# A verification project for PyAthena

PyAthena is a Python DB-API client for Amazon Athena. This directory holds TLA+
modules translated from its source, TLC configurations that model-check them on
small instances, and theorems about them that TLAPS checks. Source paths are
relative to the repository's root, `src/pyathena` being the library.

## 1. The system

| Component | State it keeps | Operations | Interacts with | Modules |
|---|---|---|---|---|
| SQL cursors `Cursor`, `AioCursor` (`cursor.py`, `aio/cursor.py`, `common.py`, `aio/common.py`, `util.py`) | `query_id`, `result_set`, `_rowcount`, attempt counters of the API call under way | `execute`, `executemany`, `cancel`, `close`, retries, `KeyboardInterrupt` / `CancelledError` | Athena (start, stop, get query), user callbacks, a second thread or task that calls `cancel()` | `AthenaService`, `Cursor`, `CursorProofs` |
| `AsyncCursor` (`async_cursor.py`) | a bounded thread pool and its queue | `execute`, `poll`, `description`, `query_execution`, `cancel`, `close(wait)`, `Future.cancel` | Athena, the pool | `ThreadPool`, `AsyncCursor`, `AsyncCursorProofs` |
| Result sets over GetQueryResults (`result_set.py`, `aio/result_set.py`) | deque of rows, next token, row number, closed | `_pre_fetch`, `fetchone/many/all`, `close`, `_fetch_all_rows` | Athena, the cursor (closes it on the next `execute`) | `QueryResults`, `RowStream`, `ResultSet`, `ResultSetProofs`, `FetchAllRows` |
| Cursors and result sets that read result files (`pandas/`, `arrow/`, `polars/`, `s3fs/` and the four under `aio/`) | the result set, its chunk iterator or batches, its buffer of rows, open streams | `execute` with `unload`, `chunksize` and the like, the fetch methods, chunk iterators, `as_pandas`/`as_polars`, `close` | S3 through `S3FileSystem`, the API fallback, a pool (`Async*`) or `asyncio.to_thread` (`Aio*`) | `CursorClasses`, `ResultFiles`, `FileCursor`, `FileCursorProofs` |
| Spark cursors (`spark/cursor.py`, `spark/common.py`, `aio/spark/`) | session id, calculation id and execution | constructor, `execute`, `cancel`, `close` | Athena for Spark, other cursors in the same session | `AthenaSpark`, `SparkCursor`, `SparkCursorProofs` |
| `AsyncSparkCursor` (`spark/async_cursor.py`) | session, thread pool | `execute`, `poll`, `calculation_execution` and the like, `cancel`, `close(wait)` | Athena for Spark, the pool, other cursors in the session | `AsyncSparkCursor`, `AsyncSparkCursorProofs` |
| `S3File` (`filesystem/s3.py`, `s3_executor.py`) | buffer, position, upload id, futures of the parts | open, `write`, `close`, `commit`, `discard`, fsspec transactions; ranged reads | S3 multipart uploads, a thread pool or the event loop's threads | `S3Storage`, `S3FileWriter`, `S3Ranges`, `S3Transfer`, `S3Client`, `S3ClientProofs` |
| `S3FileSystem`: listings, directory cache, copies, deletes (`filesystem/`) | `dircache`: HEAD results and the list of buckets under path strings, listings under `(path, delimiter)` | `info`, `exists`, `ls`, `find`; `touch`, `pipe_file`, `cp_file`, `setxattr`, `rm_file`, `rm`, `mkdir`, `rmdir`; `invalidate_cache`; multipart copy in threads and in tasks, `clear_multipart_uploads` | S3; threads that share it (`AioS3FileSystem` runs its calls in threads); `S3File` | `S3Bucket`, `S3FileSystem`, `S3FileSystemProofs`, `S3Transfer` |
| Converters, parser, formatter, CSV readers (`converter.py`, `parser.py`, `formatter.py`, `s3fs/reader.py`, `pandas/reader.py`) | none | type signatures, nested values, CSV records, parameters to literals | the result sets and cursors above | `Tokens`, `TypeSignature`, `TypedValues`, `AthenaCSV`, `Literals`, `Conversions`, `FileClient` |
| Connections (`connection.py`, `options.py`) | configuration | `cursor()`, option precedence | creates cursors | not modelled: values handed on |
| SQLAlchemy dialect | none of its own | compiles expressions, reflects tables | cursors | not modelled: a compiler to SQL text |
| Benchmarks, scripts, docs, CloudFormation | - | - | - | not part of the library |

What makes this code hard:

* **Calls that outlive their caller.** `asyncio.to_thread` cannot be cancelled
  and a `KeyboardInterrupt` may strike after a request was sent: the query
  starts, or is stopped, when `execute()` is already over.
* **Lost answers and retries.** Only throttling errors are retried, because a
  retried `start_query_execution` would run a statement twice.
* **Shared identifiers.** With result reuse several cursors hold the same query
  id, and `cancel()` stops whatever id it reads.
* **One pool for everything.** `AsyncCursor` polls and cancels on the same
  bounded pool.
* **State read before an await and used after it.** The asyncio result set
  checks its deque, awaits a page, and stores rows and token afterwards.
* **Partial failure.** A batch fails half-way, one part of an upload fails, the
  constructor of a Spark cursor fails after it has started a session.
* **A cache without an owner.** Several threads read, fill and invalidate one
  dictionary between requests to S3, and nobody holds a lock.
* **Boundaries.** Minimum and maximum part sizes, block sizes, header rows,
  ranges of a read, chunks of a result.
* **Text that has to be cut in the right place.** Quotes, commas, braces and
  backslashes within values, and one statement in two dialects.
* **Twelve cursors, one procedure.** The cursors over result files repeat one
  `execute()` with small differences in what they keep, override and raise.

The `hazards` of `PROJECT.json` list these at the lines where they bite, each
with the properties that would catch it, or with the reason why none does.

## 2. The modules

### AthenaService, Cursor

`AthenaService` is Athena's query side as the client can tell it: ids with a
state `QUEUED`, `RUNNING`, `SUCCEEDED`, `FAILED` or `CANCELLED`, the request
each was created for, and the callers whose stop request was accepted. A query
that nobody stops may run for ever; a stop request may lose the race against
the end of the query.

`Cursor` models both blocking SQL cursors, since `AioCursor` awaits exactly
where `Cursor` blocks; the constant `AioCursors` says which ones are asyncio's.
`pc[c]` names the place in `execute()`:

| `pc` | code | leaves by |
|---|---|---|
| `idle` | no call in progress | `Execute`, `ExecuteMany`, `Close` |
| `batch` | loop head of `executemany` | `NextParameters`, `FinishBatch` |
| `lookup` | `_find_previous_query_id` | `LookupHit`, `LookupMiss` |
| `start` | `start_query_execution` | `StartAnswered`, `StartAnswerLost`, `RetryApiCall` |
| `callback` | `_call_on_start_query_execution` | `CallbacksReturn` |
| `poll` | first `__poll` of `_poll` | `PollAnswered`, `RetryApiCall`, interrupts |
| `kill` | `_cancel` in the interrupt handler | `KillAnswered`, `RetryApiCall` |
| `repoll` | second `__poll`, no handler around it | `PollAnswered`, `RetryApiCall` |
| `collect` | the result set is made | `Collect` |

`RaiseError` and the interrupts leave any of them through `Fail`, which is the
exception path of `execute()` and, inside a batch, the handler of
`executemany()`. An interrupted call may leave a request behind (`LateStart`,
`LateStop`): it may for a thread, it always does for a task, whose worker
thread goes on. `cancel()` has a program counter of its own (`cpc`): a thread
checks `query_id`, reads it again and sends it, and `execute()` may take steps
in between; a task does check and read in one.

The reuse of results over several pages of `list_query_executions`, and its
expiry, are abstracted to "some succeeded query with this statement, or none".
Catalogue and schema belong to the statement. Parameters, options and requests
are abstracted to a statement.

### ThreadPool, AsyncCursor

`ThreadPool` is `concurrent.futures.ThreadPoolExecutor` (external): a FIFO
queue, a bounded set of running tasks, `shutdown`. `AsyncCursor` adds the
user's thread (`upc`), which starts queries itself and submits their polling,
and the workers. The state of a task's future and the step its worker is at
are one variable, `future[t]`. Workers are not interrupted (Python raises
`KeyboardInterrupt` in the main thread only), so the interrupt handler of
`_poll` is out of reach here.

### QueryResults, RowStream, ResultSet

`QueryResults` is what GetQueryResults may answer: pages of any size up to
`arraysize`, a possibly empty page behind the last row, and any subset of rows
that equal the column labels. `RowStream` is the abstract promise: rows come in
order, each once, and the end is only reported when nothing is left or after
`close()`. `ResultSet` is the code; an initial state chooses who fetches
(`Crowds`). With one fetcher it implements `RowStream` under the refinement
mapping `pos <- Cardinality(given)`, `taken <- got` without the header row
(`ImplementsRowStream`). With several fetchers - tasks that share an asyncio
result set - it does not (rows may be handed out twice), and the weaker
properties `EndMeansAllGiven`, `ClosedIsEmpty` and `CallEnds` are checked.

### CursorClasses, ResultFiles, FileCursor

The pandas, Arrow, Polars and S3FS cursors, each blocking, on a pool and for
asyncio, have one `execute()` with differences. `CursorClasses` names the
twelve classes by these differences: which result set they build, who runs the
build, whether they unload, which chunk options the constructor keeps and which
ones `execute()` overrides, whether an unsuccessful query raises. `ResultFiles`
says what there is to read: the CSV or text file, the Parquet files of an
`UNLOAD`, the API fallback or nothing; with or without a header line; in which
chunks (`pandas/result_set.py`'s thresholds are constants, scaled down).

`FileCursor` is a cursor of one of these classes. `job[j]` is where its j-th
execution is, `rs[j]` the result set it has built, `call["user"]` the fetch
under way and `call["lost"]` a fetch whose task was cancelled and whose thread
goes on. A fetch takes the steps in which another thread may come between: enter the
generator, read a chunk, test the deque, pop it, extend it, read a line. `seen`
is history: what the user got, what went to calls that failed or were
abandoned, and what happened to the result set (`marks`), which is what the
properties except by name. What happens between the start and the end of the
query is `Cursor`.

### AthenaSpark, SparkCursor, AsyncSparkCursor

Sessions and calculations are `AthenaSpark`; a calculation that is asked to
stop need not stop until its session is terminated, as `docs/spark.md` warns.
`SparkCursor` covers constructor, `execute()`, and `cancel()`/`close()` from
another thread; `Crowds` are the sets of cursors that may exist together. The
states `CREATED` and `CREATING`, which the code treats alike, are one.
`AsyncSparkCursor` extends it by the cursor `Async`, whose constructor and
session are the same, while its `execute()` starts the calculation on the user's
thread and hands `_poll` to the pool, as it does with every other call. Its
`close()` first terminates the session (`CloseAnswered` of `SparkCursor`) and
then shuts the pool down (`Shutdown`); when the first fails, the second never
happens.

### S3Storage, S3FileWriter, S3Ranges, S3Transfer, S3Client

One key, one object, one multipart upload. `S3FileWriter` follows `S3File`
together with fsspec's `AbstractBufferedFile`, which calls its hooks: `Open`
(with the append branch), `Write` with the flush of a full buffer, `Close` with
the final flush and the commit or its deferral, `Commit` and `Discard` of a
transaction, the collection of the parts (`Complete`, `PartResultFails`), the
abort, and the pool's threads. How a buffer is cut into parts is the pure
operators `Uploads`, `ChunkParts` and, in `S3Ranges`, `GetRanges`. Bytes are
numbers, so that the content of the stored object can be compared with what was
written.

`S3Transfer` is one object requested in ranges: the multipart copy of
`S3FileSystem` (threads, with an abort), that of `AioS3FileSystem` (tasks over
threads, without one), and `S3File._fetch_range`. Another client may replace the
source between `info()` and any of the requests, and somebody may clear the
uploads. A read request asks for what `info()` told, by `IfMatch` or by the id of
the version, and fails if that is no longer there (`PartRead`); a copy request
has no condition and takes what it finds (`PartCopied`). A byte is its version
and its place, so that bytes of two versions show.
`S3Client` is a client that does one or the other, sharing storage and executor;
its initial state chooses.

### FetchAllRows

The fallback that the file-based result sets use when there is no output file:
the loop over the pages of `QueryResults`, with its token, a header test on each
page and requests that fail. It is for one violated run.

### Tokens, TypeSignature, TypedValues, AthenaCSV, Literals, Conversions, FileClient

Pure functions, as operators over short sequences. `TypeSignature` is the parser
of type hints in Trino's and Hive's syntax; `TypedValues` the converters of
arrays, maps and rows, with a type hint and without; both work on tokens
(brackets, commas, whole names), without spaces and quotes. What Athena writes
may be JSON by accident, and the converters try JSON first: `LoadJson` is what
`json.loads` makes of a text (integers, floats, booleans, `None`, lists),
`ToJsonStr` how `_to_json_str` writes that back for the converter of the element,
and `FloatText` which text a number has after it was a float. `AthenaCSV` and
`Literals` work on letters, because quotes and backslashes are what they are
about: the CSV reader that tells an empty value from a NULL, the text stream it
reads from, which translates line ends (`UniversalNewlines`), the filter that
marks NULLs for pandas, and the literals of parameters with the lexers of the
two engines as the reference. `Conversions` gives each of them its input and
takes its result, one step per call; the reference definitions are the writer's
side (`WriteRows`, `TypeText`, `ValueText`, `Lex`), so a property says that what
went in comes out. `FileClient` puts the conversions beside `FileCursor`, for one
run: they have no state in common, and the initial state chooses between them.

### S3Bucket, S3FileSystem

`S3Bucket` is one bucket (external): the version of each object and of the
bucket itself, or `Absent`; directories are prefixes of keys. `S3FileSystem` is
the directory cache with the calls that use it. `pc[c]` is where a thread is
between two requests or two accesses to the cache:

| `pc` | code | action |
|---|---|---|
| `cache` | `_ls_from_cache` in `info`, `exists` | `LookUp` |
| `head`, `read` | `path in self.dircache`, then `self.dircache[path]` | `TestEntry`, `ReadEntry` |
| `send`, `store` | the HEAD or ListBuckets request, then the assignment | `HeadAnswered`, `StoreEntry` |
| `prefix` | ListObjectsV2 with `MaxKeys=1` in `info` | `PrefixAnswered` |
| `list`, `fetch`, `keep` | `_ls_dirs`: cache, request, assignment | `ListFromCache`, `ListMissing`, `ListAnswered`, `KeepListing` |
| `write` | the one request that changes S3 | `WriteAnswered`, `WriteAnswerLost` |
| `delete` | the chunks of `_delete_objects` | `DeleteChunk`, `DeletesEnd` |
| `invalidate` | `invalidate_cache` of each path written | `Invalidate` |

The cache holds, for a path string, the version the HEAD saw; the list of
buckets (key `""`) is the version of the bucket in it, or `Absent`. Listings are
sets of names. Abstracted: a listing of several pages is one answer;
`expand_path` of `rm` merges the names it found and the answer of `exists` for
the path itself; `touch` is `pipe_file` with one request, `truncate=False` and
`mode="create"` being the same question; a chunk of a bulk delete is any set of
at most `ChunkSize` keys left, which covers every order of the pool. Not in the
model: `version_aware`, the `prefix` and `maxdepth` arguments of `find`, writers
in other processes (S3 itself tells nobody), and a path that is at once an
object and a prefix.

Two history variables say what the properties must admit: `unsure`, the paths
whose entry a lost answer, a failed bulk delete or an overtaken HEAD may have
left stale, and `seen`, whether a call's path existed at the moments of the call.

## 3. The runs

Every run takes less than three minutes with two workers. `CHECK_DEADLOCK FALSE`
everywhere: bounded calls are used up and users may stop.

| Run | Shows | Bounds |
|---|---|---|
| `cursor_pair` | inductive invariant, one query per `execute`, live queries are named, stops are aimed | 2 cursors (one asyncio), 2 queries, 1 statement, 1 `execute` and 1 interrupt each |
| `cursor_seq` | result sets current and closed, batches report their sum, stop requests and interrupts end `execute()` | 1 asyncio cursor, 2 queries, 2 statements, 2 executions, batches of 2, counts {1, unknown}, 2 attempts, 2 interrupts |
| `async` | futures show final states, orphans are reported, `close(wait=True)` and `cancel()` make progress | 1 query, 2 executions, 2 workers, 3 tasks |
| `resultset` | refinement of `RowStream` with one fetcher; with two: no row left out at the end, closed is empty, every fetch ends | 1 fetcher, 5 rows, 3 calls, or 2 fetchers, 3 rows, 2 calls; pages of 2 |
| `file_results` | no row twice, the end after the last row, the result set is the last execution's, streams are closed; tables, type hints, nested values and literals come out as what went in, with the exceptions below | 12 cursor classes, 6 sets of options, results of 0, 2 and 3 rows; 2 executions with 2 calls or 1 with 3, 1 abandoned call. 2 x 2 tables with up to 2 letters of {a, comma, quote, \n, \r}, 24 types up to depth 3 of integers, strings {x, 1.10, true}, decimals of 1 and 20 digits and booleans, 2 strings of up to 2 letters of {x, ', \, \n, \r, \t} |
| `file_frame` | **violated:** `as_pandas()` with `auto_optimize_chunksize` is the first chunk | the same, 1 execution |
| `spark` | `execute()` returned means completed, sessions are owned, no calculation of the asynchronous cursor is dropped silently, polling and `close(wait=True)` end with the session | a cursor with 2 executions, or an asynchronous cursor with 2 workers, 1 call, 2 tasks beside a cursor that shares its session; 1 session, 2 calculations, 1 interrupt |
| `spark_wait` | **violated:** the wait for a dead session never ends | 1 cursor, 1 session |
| `s3_client` | old or complete object at all times, part sizes, no upload left behind, copies are whole, reads give their range of the version they were opened with, calls end | min 2, block 4, max 4; written: objects of 0, 4 and 7 bytes, 10 bytes, asyncio's executor; copied and read: objects of 3, 7 and 9 bytes, 2 versions; 2 workers |
| `s3_append_block` | **violated:** append below the block size loses the old bytes | object of 2 bytes, block 4 |
| `s3_dircache` | inductive invariant, HEAD results are current, answers of `info` and `exists` were true during the call | 2 threads, 3 calls altogether, 2 objects in one directory, one of them protected, 2 writes, chunks of 2; `info`/`exists` of bucket, directory and object, `ls`/`find`/`rm` of root and directory |
| `fetch_all_rows` | **violated:** the API fallback drops a data row that equals the labels where a page begins with it | 4 rows, pages of 2, any rows equal to the labels |

Why these bounds are enough. Two cursors and two queries are the smallest
instance with a shared query id, a stop for a foreign query and a late request
of the other cursor; a third party adds no new pair of actors. A batch of two
and a second execution let a result set be replaced, reused and dropped by a
failure in one history. Two pool workers and three tasks let a poller, a
`cancel()` and a third task overlap and one wait; every task carries its query
id, so a second query adds no way to mix them up. The second Spark cursor
executes nothing: it is there to share the session and to end it. Five rows in
pages of at most two contain a header, a full page, a short page and an empty
last page; three rows in chunks of two and three the same for result files,
whose thresholds are scaled so that a file of four lines is large. One abandoned
call or execution is the most the code allows at a time before the next one
joins it. The S3 sizes keep the order MinPart <= BlockSize <= MaxPart of the
5 MiB / 5 GiB limits and are small enough that merging and halving both happen;
objects are copied and read in one, two and three ranges. In the file system,
two threads are enough to let a write and its invalidation fall between any two
steps of a reader, and three calls let one of them have filled the cache before;
the two objects share their directory, so that invalidating one must not be
mistaken for invalidating the other. Two letters are a doubled quote, a quote
before a delimiter, an escaped escape; three levels of nesting put every kind of
container into every other one.

The bounds themselves are constants: `MaxExecs`, `MaxBatch`, `MaxInterrupts`
(Cursor, SparkCursor), `MaxTasks` (AsyncCursor, AsyncSparkCursor), `MaxCalls`
(AsyncSparkCursor, ResultSet, FileCursor, S3FileSystem), `MaxRows`, `RowsUpTo`
(results), `MaxAbandoned` (FileCursor), `MaxWritten` (S3FileWriter),
`MaxVersions` (S3Transfer), `MaxWrites`, `Asked`, `Listed` (S3FileSystem).
`Crowds` (ResultSet, SparkCursor) are the sets of actors that may exist
together. Symmetry is used for query ids in `cursor_pair` and for threads in
`s3_dircache`, which check no liveness.

### Fairness

* Cursors: weak fairness of `Answered(c)`, a call in progress is answered or
  fails: boto3 has timeouts and `retry_api_call` bounds its attempts. Nothing is
  assumed of queries: `RunQuery` and `CompleteQuery` are not fair, so a query
  may run for ever. Athena acts on a stop request it accepted
  (`ServiceFairness`).
* AsyncCursor, AsyncSparkCursor: every worker thread is scheduled, one weak
  fairness condition per task; nobody has to submit or cancel anything.
* ResultSet: a request is answered or fails. Spark: the same, and termination
  completes; a stop request alone promises nothing. S3Client: the executor's
  threads keep working and a call in progress goes on (weak fairness of these
  steps together); nobody has to write, close or commit.

### What the violated runs mean

Each states a sentence of the repository and finds the code disagreeing; the
`findings` of `PROJECT.json` quote it.

* `spark_wait`: `_wait_for_idle_session` compares an object with strings.
* `s3_append_block`: append mode loses an object of at least the minimum part
  size if old and new bytes stay below a larger block size.
* `file_frame`: `as_pandas()` tests `chunksize`, which is `None` although
  `auto_optimize_chunksize` has made chunks.
* `fetch_all_rows`: `_fetch_all_rows` tests every page for a header, so a data
  row that equals the labels is dropped where a later page begins with it.

### What the passing properties except

What the code does not promise is excepted by name, in the property:

* `EntriesAreCurrent` says nothing of listings: `invalidate_cache` pops string
  keys and never drops one, so `ls`, `find` and `rm(recursive=True)` go by what
  was there when the directory was first listed, until `invalidate_cache()`
  without a path (`ls` also takes `refresh=True`, which still keeps the old
  listing if the new one is empty). After `rm(path, recursive=True)` an object
  that was written since the path was first listed may still be there.
* `TableIsReadBack` excepts line ends: the stream under `AthenaCSVReader` is
  opened without `newline=""` (`s3fs/result_set.py:133`) and turns `\r` and
  `\r\n` within a value into `\n`. The reader alone, which its test feeds with
  `"line1\r\nline2"`, would keep them.
* `ValueIsKept` excepts, and says what becomes of:
  * an array within an array in native form (`ArrayOfArrays`): text, but with a
    type hint `None` if it is within a row or a map, for the fallback to the
    untyped converter, "so that data is never silently lost"
    (`converter.py:633`), is made for the whole value alone (`parser.py:329`);
  * elements that `json.loads` reads (`ReadByJson`). Without a type hint they
    are what it makes of them, `[1]` a list of an `int` and `[1.10, true]` of a
    `float` and a `bool` (`converter.py:118`), where `docs/usage.md:657` promises
    strings. With one, an array that begins with a null is loaded and its
    elements are written back by `str()` before they are converted
    (`parser.py:313`): `1.10` and `true` under `array(varchar)` become `1.1` and
    `True`, and a decimal of many digits loses them in a float.

  It leaves out empty strings among elements without names, which vanish
  (`parser.py:336`), and rows without names whose text looks like fields
  (`converter.py:403`). Without a type hint a value may stay the text it was. A
  string that says `null`, in any case, is no input: its text is that of a NULL.
* `LiteralsAreTheValues` leaves out a `CREATE TABLE` in which the word `AS`
  occurs: its literals are written for Trino (`formatter.py:190`).
* `EndMeansAllGiven` of `FileCursor` excepts a failed read (the pandas iterator
  is closed, and the next fetch reports the end), a `close()`, chunks left early
  and an abandoned call of an Arrow or S3FS cursor; `StreamsAreClosed` a
  constructor of an S3FS result set that raises (`s3fs/result_set.py:141`), and
  `SessionsAreOwned` a constructor of a Spark cursor that does
  (`spark/common.py:185`): the code has no handler for either.
* `StopsOwnQueriesOnly` forbids to stop another cursor's query. `cancel()` names
  no execution, so a late one may stop its own cursor's query before or after.
* `TargetIsOldOrCopy` excepts a source that was replaced after `info()`: the
  copies have no condition, and their parts may be of two versions. Reads have
  one, and `ReadIsRange` has no exception. `NoUploadLeftBehind` excepts
  interrupts, lost answers and the asyncio copy that fails, which has no abort; a
  `discard()` whose abort request is refused because of the arguments it passes
  on (`s3.py:2166`) counts as a lost one.
* `s3_client` keeps inside the sizes for which the code is right: writes of at
  most one block, and appending to objects of at least a block. Outside of it,
  next to the violated run, a buffer of two blocks and a short rest that is
  flushed before the end of the file yields a part that is too small and not the
  last one, which S3 rejects (`WriteSizes = {2, 5}` with
  `BlockSize = MinPart = 2`; `s3.py:2088`), and an object *below* the minimum
  part size that grows past the block size is both read into the buffer and
  copied as part 1, which S3 rejects (`OldSizes = {1}` with
  `BlockSize = MinPart = 2`).
* `CancelServed` is as much as `AsyncCursor.cancel()` promises: its request
  waits in the pool the pollers occupy, so with `MaxWorkers` pollers of queries
  that do not end it is never sent.

## 4. The proofs

`CursorProofs` proves, for every number of cursors, queries, statements,
attempts, executions and interrupts, and batches of any size, under
`ConstantsAssumption` only:

| Theorem | Statement |
|---|---|
| `Invariance` | `Spec => []IInv` |
| `TypeCorrect` | `Spec => []TypeOK` |
| `ExecuteStartsOnce` | `Spec => []AtMostOneQueryPerExecute` |
| `ResultSetsAreCurrent` | `Spec => []ResultSetIsCurrent` |
| `StopsHitOwnQueries` | `Spec => []StopsOwnQueriesOnly` |
| `NoLeaks` | `Spec => []NoResultSetLeaked` |
| `LiveQueriesAreNamed` | `Spec => []LiveQueryIsNamed` |
| `TotalsAreSums` | `Spec => []TotalIsSum` |
| `BatchesReportTheirSum` | `Spec => BatchReportsSum` |

None of the safety properties is inductive by itself, hence `IInv`:

* `AtMostOneQueryPerExecute` needs `RequestsAreSpent`: every request that was
  accepted, or is still under way from an interrupted call, belongs to an
  execution that is over or past its start call, and no two of them belong to
  the same execution. Otherwise a late request could meet a query its own
  execution starts again.
* `ResultSetIsCurrent` needs `QueryIsForCall`: the query a call polls is for its
  statement, and it is collected only after it succeeded.
* `StopsOwnQueriesOnly` needs `StopsAreAimed`: every id that is, or will be, sent
  in a stop request is of a query of the sender, or of one that is over. Result
  reuse hands out succeeded queries only, and a query that is over stays so.
* `NoResultSetLeaked` needs `OnlyCurrentOpen`: no result set is open but the one
  the cursor refers to, and none at all while a statement is executed, so that
  there is nothing a new reference could drop.
* `LiveQueryIsNamed` needs `StartedIsNamed`: once a call is past its start
  request, every query of that request is the one `query_id` names, and no
  request of the same execution is under way that could still start one.

The proof splits a step into what happens to the service (`NextEvolves`:
queries never vanish, change hands or leave a final state), to the cursor that
moves (`CursorStepCallInv`), to the others (`CursorStepOthersStay`), to start
requests (`RequestKinds`) and to stop requests (`NextAimed`). TLC checks `IInv`
in `cursor_pair`.

`BatchReportsSum` is an action property: the row count `executemany()` leaves is
the sum of its statements' counts, or unknown if one of them is. Its invariant
`TotalIsSum` says the same of the running total, at every moment of the batch.
What a sum over a sequence is, is recursive, and no induction theorem is at hand
(see below); here none is needed, since the behaviour does the induction:
`SumsTo(counts, total)` says that some sequence of partial sums leads from zero
to `total`, and each statement that ends adds one count and one partial sum
(`OneMoreSumsTo`). `NULL` is assumed not to be a row count.

`S3FileSystemProofs` proves, for every number of threads, files, chunk size,
calls and writes, under `PathsAssumption` and `CallsAssumption` only:

| Theorem | Statement |
|---|---|
| `Invariance` | `Spec => []IInv` |
| `CacheIsCurrent` | `Spec => []EntriesAreCurrent` |
| `LookupsCorrect` | `FilesAreLeaves` implies `Spec => LookupsAreTrue` |

`EntriesAreCurrent` excepts the paths that are pending (written, not yet
invalidated) or unsure. It is inductive together with the types and
`WritesAreNamed`: a call invalidates every path its request changes, and the
root too when it changes the bucket. The argument has three parts. A step that
asks or looks up changes neither the bucket nor an entry (`QuietStep`); a
request, a chunk or a lost answer changes only paths that are pending or unsure
after it (`RequestChanges`, `EntriesStayCurrent`); and a call drops the entries
of all its paths before it lets go of them (`InvalidateKeeps`). All steps of a
call go through one lemma, `CallsStayGood`, with `GoodCall` as what the type
invariant says of one client.

`LookupsAreTrue` says that an answer of `info()` and `exists()` was true at some
moment of the call. It needs `LookupInv`: what a call at each label knows about
the presence of its path (`Knows`) - before it stores an answer it has seen the
path there, before it asks for keys below a path it has seen that no object of
that name is there - and that no entry of the cache says "absent". Entries that
are stale are the ones `EntriesAreCurrent` excepts, so an answer from the cache
is true or excepted too. The theorem has a hypothesis, `FilesAreLeaves`: no
object's name is also a directory. It cannot be dropped. With objects `b/d` and
`b/d/x`, `exists("b/d")` may send its HEAD before another client puts `b/d`, and
its ListObjectsV2 after that client deleted `b/d/x`: it answers that nothing is
there, although at every moment something was. TLC finds this with
`Files = {<<"b", "d">>, <<"b", "d", "x">>}`.

`SparkCursorProofs` proves, for every number of cursors, sessions, calculations,
executions and interrupts and every choice of `Crowds`, under
`ConstantsAssumption` only:

| Theorem | Statement |
|---|---|
| `Invariance` | `Spec => []IInv` |
| `TypeCorrect` | `Spec => []TypeOK` |
| `ReturnedCompleted` | `Spec => []ReturnedMeansCompleted` |
| `StartedSessionsAreOwned` | `Spec => []SessionsAreOwned` |

`ReturnedMeansCompleted` needs `CalculationTracked`: the calculation a call polls
is its own, it is over when it is fetched, and a call under way has no outcome
of an earlier one. `SessionsAreOwned` needs `SessionHeld`: a constructor that has
not started a session has none, sessions that were started exist, and only a
cursor that is there is closed. A step is of one cursor (`Moves`: it stays good,
the others stay) or of the service; either way the service only evolves
(`Evolves`: calculations keep their request, outcomes and ends of sessions are
final), and a cursor that does nothing stays good under that (`StaysGood`).

`AsyncCursorProofs` proves, for every number of queries, statements, workers,
tasks and executions, under `ConstantsAssumption` only:

| Theorem | Statement |
|---|---|
| `Invariance` | `Spec => []IInv` |
| `TypeCorrect` | `Spec => []TypeOK` |
| `FuturesShowFinalStates` | `Spec => []FutureShowsFinalState` |
| `QueriesAreAccountedFor` | `Spec => []OrphansAreReported` |

`TypeOK` says more than types here: there are never more running tasks than
`MaxWorkers`, and the queue holds exactly the pending ones. It needs
`QueuedOnce`: otherwise a task that is taken or withdrawn could be queued still.
`FutureShowsFinalState` needs `TaskInOrder`: only tasks of the polling kinds poll,
and a result set is built of a state that is final, hence stays.
`OrphansAreReported` needs `Accounted`: the query a call is about to submit is
the one it started, or one that is accounted for already, so that a call that
raises can only lose its own; and `CallHoldsQuery`. Every action is shown to
make `Moves`: the service only evolves (`ServiceKept`), no task vanishes or
changes its query and each stays good (`TasksKept`), the pool stays in order
(`PoolTakes`, `PoolReleases`, `PoolSubmits`, `PoolWithdraws`, `PoolStays`).

`AsyncSparkCursorProofs` proves, for every number of workers, tasks and calls
and of everything `SparkCursorProofs` is about, for `AsyncSpec`, in which an
`AsyncSparkCursor` is one of the cursors of `SparkCursor`:

| Theorem | Statement |
|---|---|
| `AsyncInvariance` | `AsyncSpec => []AsyncIInv` |
| `FuturesAlwaysTell` | `AsyncSpec => []FuturesTell` |
| `ReturnedCompletedBeside` | `AsyncSpec => []ReturnedMeansCompleted` |
| `SessionsAreOwnedBeside` | `AsyncSpec => []SessionsAreOwned` |

`AsyncIInv` is the `IInv` of `SparkCursor`, whose lemmas about one cursor and
about the evolving service are used as they are, with three things added:
`CallsNumbered`, every calculation of the asynchronous cursor belongs to a call
that was made, and the one in the hands of `execute()` to the last;
`TaskInOrder`, a task is about a calculation that exists, at a step of its kind,
and fetches only what is final; and `FuturesTell` itself.

`ResultSetProofs` proves, for every number of rows and every way to cut them
into pages, every finite set of fetchers and number of calls, under
`FetchersAssumption` only:

| Theorem | Statement |
|---|---|
| `TypeCorrect` | `Spec => []TypeOK` |
| `EndCorrect` | `Spec => []EndMeansAllGiven` |
| `ClosedCorrect` | `Spec => []ClosedIsEmpty` |
| `Refinement` | `Spec => ImplementsRowStream` |

`EndMeansAllGiven` needs `NoneSkipped`: with any number of tasks on one deque
and one token, every row before the token, and before every page that was asked
for, was given out or is in the deque. A late answer may move the token back,
which repeats rows, but it cannot move it past a row nobody has. The refinement
needs `InLine`: one fetcher has handed out the rows up to some `p`, the deque
holds the ones after it, and the token is the next; it asks for a page only when
it has none. Each action is then a step of `RowStream` or a stutter.

`FileCursorProofs` proves, for every choice among the twelve classes, every
result of up to `MaxRows` rows, every chunk size, every number of executions,
calls and abandoned calls, under `FileCursorAssumption` only (there is an
execution, sizes are positive, options are of their types):

| Theorem | Statement |
|---|---|
| `Invariance` | `Spec => []IInv` |
| `TypeCorrect` | `Spec => []TypeOK` |
| `RowsCorrect` | `Spec => []NoRowTwice` |
| `EndCorrect` | `Spec => []EndMeansAllGiven` |
| `ResultCorrect` | `Spec => []ResultIsOfLastExecution` |
| `StreamsCorrect` | `Spec => []StreamsAreClosed` |

All of them need a ledger of the rows (`Accounted`). Every row `1..n` of a
result is in exactly one place: given to the user (`out`), in the hands of the
user's call or of an abandoned one (`got`, `held`), in the buffer, in the chunks
that are left, with a call that raised (`gone`), or nowhere - and nowhere only
after a failed read, a `close()` or chunks left early, which `marks` tells. The
chunks that are left are the rows after some row `e[0]`, cut at `e[1]`, `e[2]`
and so on (`Cut`); with nothing else going on the other places hold the rows
before it in order (`InOrder`). The first part of the module shows what each
way to move rows does to such a ledger, for any sequences: a row or all rows of
a place move to the next (`RowsMove`, `RowsPass`), go with a call (`RowsGo`), a
chunk is read (`HeadMoves`), the chunks are lost or joined (`ChunksLost`,
`FlattenCut`), a result set is made of the lines and files of `ResultFiles`. The
second and third part show that each action is one of these moves, in the
thread that takes it (`Stepping`) and for the executions beside it. The ledger
gives `NoRowTwice`, and `EndMeansAllGiven` with `EndIsEnd`: who was told the end
has left nothing behind. `ResultIsOfLastExecution` and `StreamsAreClosed` need
`Sequential`: executions come one after the other, and the cursor has the result
set of the last one, or none.

`S3ClientProofs` proves, for every part and block size, number of workers, bytes,
versions, ranges and calls, under the assumptions of `S3Transfer` and
`S3FileWriter` on these only (sizes in order, finitely many sizes of old objects,
sentinels that are no data):

| Theorem | Statement |
|---|---|
| `Invariance` | `ClientSpec => []ClientInv` |
| `UploadsCorrect` | `ClientSpec => []NoUploadLeftBehind` |
| `TargetCorrect` | `ClientSpec => []TargetIsOldOrCopy` |
| `ReadCorrect` | `ClientSpec => []ReadIsRange` |
| `FileInvariance` | `AppendsAreKept` implies `ClientSpec => [](op = "write" => FileInv)` |
| `ObjectCorrect` | `AppendsAreKept` implies `ClientSpec => []ObjectIsOldOrComplete` |
| `WrittenCorrect` | `PartsAreLarge` implies `ClientSpec => []WrittenIsStored` |

`ClientInv` is `UploadInv` for a client that writes and `TransferInv` for one that
copies or reads. `UploadInv`: a file that has not reached the block size has no
upload, and an upload the file does not know of is `lost`. `TransferInv`: the
requests are those the ranges ask for (`RequestsAreOfRange`), what has arrived is
done and nothing else (`ArrivedAreDone`), a part that is done is its slice of the
version that `info()` told of, in a copy unless the source was replaced
(`PartsAreSlices`), and an open upload is owned by the call or admitted
(`UploadsAreOwned`). That version is there to be asked for as long as nobody
replaces it (`SourceIsTold`), and where it is not, a read fails and does not
return (`ReadReturnsStep`): so a read that returns is of one version. That the parts put together are the whole is a
fact about the operators: `GetRanges` cuts a span at increasing edges, whatever
the sizes are (`RangesCut`); slices between such edges, one after the other, are
the slice of the whole span (`SlicesJoin`, `FlattenSlices`); and sorting the
ranges of a read by their start, in whatever order they arrived (`ByStart`),
brings them into the order of the edges (`GrowingIsIdentity`).

The last two theorems have a hypothesis on the sizes, because the code needs
one. `AppendsAreKept`: no object that is appended to has between the minimum part
size and the block size; such an object is lost if old and new bytes stay below
the block size, which is what `s3_append_block` shows. With 5 MiB, the default
for both, there is no such size. `PartsAreLarge`: a write fills at most a block,
`MaxPart` is at least twice `MinPart`, and what is appended to has at least a block
and is cut into ranges that are not too small; outside of it S3 rejects a part
(see above). It implies the first (`LargeIsKept`), and `MCS3Client.cfg` meets both.

`FileInv` says where the bytes of a file are before it is committed: what the
object was and what was written, `Expected`, is the contents of the parts, in
order, and then the buffer (`PartsInv`); before the first part all of it is in
the buffer, or, for an object that is appended to and not read, behind the object
(`BufferInv`). A part that is done is stored with its content, whether it was
uploaded or copied from the object (`DoneIsStored`), and the object stays what it
was until the commit (`ObjectInv`), so that a copy that runs late still copies the
right bytes. An object below the minimum part size (`Below`) is both in the buffer
and in a part; such a file has a first part that is too small before another
one, so its commit is rejected, and the object stays. `SizeInv` adds that all
parts but the last are large.

Most of the proof is about how a buffer is cut: `FlattenSeq` of two rows of
sequences is that of the first and that of the second (`FlattenConcat`); the
parts of a pair of blocks are its bytes, whether the short second block is
merged, halved or neither (`PairUploadsKeep`); so the parts of a buffer, for any
number of blocks, are the buffer (`ChunksKeep`), of allowed sizes, and large if at
least a block and less than two of them are flushed (`BodiesLarge`). Then each
action moves bytes from one of these places to the next (`FlushStep`,
`InitiateStep`), changes the state of parts and never their bytes (`SameBytes`,
`DataGoesOn`), or ends the file.

`IInv` of `Cursor` and `S3FileSystem` is an invariant of their runs. The other
inductive invariants (`IInv` elsewhere, `TotalIsSum`, `LookupInv`, `ClientInv`,
`FileInv`, `SizeInv`) were checked with TLC before they were proved, on the
instances of `MCAsyncCursor.cfg`, `MCResultSet.cfg`, `MCSparkCursor.cfg`,
`MCFileClient.cfg`, `MCCursorSeq.cfg`, `MCS3FileSystem.cfg` and `MCS3Client.cfg`,
`FileInv` also with appended objects of less than a part.

Two remarks on method. Record updates, sequences and arithmetic in one step are
more than the solvers take, so the proofs give such a state change a name
(`Moved`, `Added`, `Left`, `Passed`) and prove lemmas about the name. And what
`FlattenSeq` computes, a recursive function of the library, is proved by
induction without an induction theorem that takes an operator: the set of
numbers for which it holds has, if it is not everything, a least number outside
it (`LeastNumber`, `Induction`, from the well-foundedness of the natural
numbers).

Only model-checked: the liveness properties (`CallEnds`, `CallsEnd`,
`CloseEnds`, `CancelServed`, `CancelTakesEffect`, `StopEndsExecute`,
`InterruptEndsExecute`), which need fairness and `ENABLED`; and the conversions
(`Conversions` and the modules it uses), whose recursive operators keep them out
of the prover's reach. Every other property of a passing run is proved.

## 5. Not modelled, and why

* The leaf conversions (numbers, dates, binaries), the type tables for pandas,
  Arrow and Polars, and what is quoted or an object in JSON form within other
  values (nor `NaN` and `Infinity`, which `json.loads` takes for floats): calls
  into libraries, one value at a time. Logging.
* What pandas, Arrow and Polars do with a stream: a file gives its lines, in
  chunks; the choice of a CSV engine and column types are left out.
* `list_databases`, table metadata: reads without state.
* Retry delays, jitter and poll intervals: only the number of attempts and the
  fact that a pause ends are visible to the properties.
* Connections, sessions, roles, option precedence: configuration that is handed
  on and does not change.
* `S3FileSystem`'s tags, ACLs, presigned URLs, `put_file` and `get_file`, and the
  `prefix`, `maxdepth` and `version_aware` arguments: requests that keep the
  cache as it is, or filters over an answer. fsspec's read-ahead cache.
* The SQLAlchemy dialect: a compiler to SQL text.

## 6. Plan

Done: 1. `Cursor` with `AthenaService`, proved; 2. `AsyncCursor` with
`ThreadPool`, proved; 3. `ResultSet`, proved to implement `RowStream`; 4.
`SparkCursor` and `AsyncSparkCursor`, proved; 5. `S3FileWriter`, `S3Transfer`,
`S3Client`, proved; 6. the directory cache, `S3FileSystem`, proved; 7. the
cursors over result files, proved; 8. the conversions.

Next, in this order:

9. `find` with `prefix` and `maxdepth`, `version_aware`; `put_file`, `get_file`.
10. Pure functions: the paging of `_find_previous_query_id`, precedence in
   `ExecuteOptions.resolve` and `Connection.cursor`.

New runs replace the ones that show least, so that each run keeps a question of
its own.

Theorems to prove next: what the conversions compute, once their recursion is
written with recursive functions.
