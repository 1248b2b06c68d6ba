------------------------------- MODULE FileCursor ------------------------------
(* A cursor of one of the twelve classes of module CursorClasses, and the    *)
(* result sets it builds from what module ResultFiles says there is to read. *)
(* One statement is executed up to MaxExecs times.  What happens between     *)
(* StartQueryExecution and the end of the query is module Cursor.            *)
(*                                                                           *)
(* A task cursor hands the building of a result set and every fetch to a     *)
(* thread; cancelling the task leaves the thread running (call["lost"], or a *)
(* job with lost set), and the user goes on with the same cursor.            *)
EXTENDS CursorClasses, ResultFiles, FiniteSets

CONSTANTS
  Classes,            \* the cursor classes looked at
  Results,            \* the statements' results looked at
  Options,            \* what a cursor may be constructed with
  KwChunksizes,       \* execute()'s chunksize keyword; NULL: not given
  Sizes,              \* rows asked for by a fetch
  MaxExecs,           \* bound: executions
  MaxCalls,           \* bound: executions, fetches and calls for chunks
  MaxAbandoned        \* bound: calls and executions a task is cancelled in

ChunksizeOptions == (Nat \ {0}) \cup {NULL}
OptionSets == [unload : BOOLEAN, staging : BOOLEAN, auto : BOOLEAN,
               chunksize : ChunksizeOptions, arraysize : Nat \ {0}]

ASSUME FileCursorAssumption ==
  /\ Classes \subseteq FileCursorClasses /\ Results \subseteq Queries
  /\ NULL \notin Nat /\ MaxRows \in Nat
  /\ {AUTO_SIZE_LARGE, AUTO_SIZE_MEDIUM} \subseteq Nat \ {0}
  /\ MaxExecs \in Nat \ {0} /\ MaxCalls \in Nat /\ MaxAbandoned \in Nat
  /\ KwChunksizes \subseteq ChunksizeOptions /\ Options \subseteq OptionSets
  /\ Sizes \subseteq Nat \ {0}

VARIABLES
  class, opts, query, \* the cursor, its options, and the result of the statement
  job,                \* per execution: where it is; lost: nobody waits for it
  cur,                \* cursor.result_set: the execution it belongs to, or NULL
  rs,                 \* per execution: its result set
  call,               \* the fetch under way in the user's and in a lost thread
  spent,              \* how much of the bounds is used
  seen                \* history, per execution: the rows the user got in order,
                      \* those given to calls that failed or were abandoned,
                      \* whether the end was reported, the first frame, and
                      \* what happened to the result set

vars == <<class, opts, query, job, cur, rs, call, spent, seen>>
fixed == <<class, opts, query>>

Execs == 1..MaxExecs
Idle == [pc |-> "idle", j |-> 0, want |-> 0, got |-> <<>>, held |-> <<>>, k |-> 0]
NoResultSet == [chunks |-> <<>>, buf |-> <<>>, streams |-> {}, lazy |-> FALSE,
                chunksize |-> NULL, running |-> FALSE, closed |-> FALSE]
Generator == class.reads \in {"pandas", "polars"}   \* rows come from iterrows()

(* What the constructor keeps of the options it knows. *)
Kept(c, o) ==
  [o EXCEPT !.unload = @ /\ c.unloads,
            !.chunksize = IF "chunksize" \in c.keeps THEN @ ELSE NULL,
            !.auto = @ /\ "auto" \in c.keeps]

Init ==
  /\ class \in Classes
  /\ opts \in {Kept(class, o) : o \in Options}
  /\ query \in Results
  /\ job = [j \in Execs |-> [pc |-> "new", kw |-> NULL, ok |-> FALSE, lost |-> FALSE]]
  /\ cur = NULL
  /\ rs = [j \in Execs |-> NoResultSet]
  /\ call = [t \in {"user", "lost"} |-> Idle]
  /\ spent = [calls |-> 0, abandoned |-> 0]
  /\ seen = [j \in Execs |-> [out |-> <<>>, gone |-> {}, ended |-> FALSE,
                              frame |-> NULL, marks |-> {}]]

(* The user's thread or task waits for execute() or a fetch. *)
Busy ==
  \/ call["user"].pc # "idle"
  \/ /\ class.runs # "pool"
     /\ \E j \in Execs : job[j].pc \in {"query", "build"} /\ ~job[j].lost

(* The result sets the user can reach. *)
Reachable ==
  IF class.runs = "pool" THEN {j \in Execs : job[j].pc = "done"}
  ELSE IF cur = NULL THEN {} ELSE {cur}

SpendCall ==
  spent.calls < MaxCalls /\ spent' = [spent EXCEPT !.calls = @ + 1]

Mark(j, what) == seen' = [seen EXCEPT ![j].marks = @ \cup what]
--------------------------------------------------------------------------------
(* close() of a result set.  Pandas closes its reader and its stream, S3FS   *)
(* its reader; the iterators are replaced.  A thread inside the old row      *)
(* generator still has its frame and, with Polars, its source.               *)
Closed(r) ==
  [r EXCEPT !.closed = TRUE,
            !.streams = {},
            !.buf = IF r.running THEN @ ELSE <<>>,
            !.chunks = IF r.running /\ class.reads = "polars" THEN @ ELSE <<>>]

(* Mutant: the old result set is forgotten, not closed. *)
ResetStateForgets(r) == r

(* _reset_state: the result set of the former execution is closed. *)
ResetState(r) ==
  [i \in Execs |-> IF i = cur /\ ~r[i].closed THEN Closed(r[i]) ELSE r[i]]

(* Mutant: execute() of a blocking cursor keeps the former result set until  *)
(* the new one is there.                                                     *)
AfterResetKeeps(c) == c

AfterReset(c) == NULL

Execute(j, kw) ==
  /\ ~Busy /\ job[j].pc = "new" /\ SpendCall
  /\ j > 1 => job[j - 1].pc # "new"
  /\ rs' = IF class.runs = "pool" THEN rs ELSE ResetState(rs)
  /\ cur' = IF class.runs = "pool" THEN cur ELSE AfterReset(cur)
  /\ seen' = [i \in Execs |-> IF rs'[i].closed
                              THEN [seen[i] EXCEPT !.marks = @ \cup {"closed"}] ELSE seen[i]]
  \* no staging directory for UNLOAD, StartQueryExecution fails, a callback raises
  /\ \E pc \in (IF opts.unload /\ ~opts.staging THEN {"raised"} ELSE {"query", "raised"}) :
       job' = [job EXCEPT ![j].pc = pc,
                          ![j].kw = IF "chunksize" \in class.keeps THEN kw ELSE NULL]
  /\ UNCHANGED <<fixed, call>>

(* A result set's chunk size: the keyword of execute() if the class looks at *)
(* it.  Polars passes it twice, which is a TypeError; the others ignore it.  *)
Chunksize(j) ==
  IF job[j].kw # NULL /\ "chunksize" \in class.overrides THEN job[j].kw ELSE opts.chunksize
PassedTwice(j) ==
  job[j].kw # NULL /\ "chunksize" \in class.keeps \ class.overrides

AfterFailure == IF class.raises THEN "raised" ELSE "build"

QueryEnds(j, ok) ==
  /\ job[j].pc = "query"
  /\ job' = [job EXCEPT ![j].ok = ok,
                        ![j].pc = IF PassedTwice(j) THEN "raised"
                                  ELSE IF ok THEN "build" ELSE AfterFailure]
  /\ seen' = IF ok THEN seen ELSE [seen EXCEPT ![j].marks = @ \cup {"unsuccessful"}]
  /\ UNCHANGED <<fixed, cur, rs, call, spent>>

(* The result set of a query that failed, where that is no exception, is empty *)
ContentOf(j) ==
  LET o == [opts EXCEPT !.chunksize = Chunksize(j)] IN
  CASE ~job[j].ok -> Empty
    [] job[j].ok /\ class.reads = "pandas" -> PandasContent(query, o)
    [] job[j].ok /\ class.reads = "arrow"  -> ArrowContent(query, o)
    [] job[j].ok /\ class.reads = "polars" -> PolarsContent(query, o)
    [] job[j].ok /\ class.reads = "s3fs"   -> S3FSContent(query, o)

(* The constructor of the result set returns; an abandoned one is dropped.   *)
Build(j) ==
  /\ job[j].pc = "build"
  /\ rs' = [rs EXCEPT ![j] =
              [chunks |-> ContentOf(j).chunks, buf |-> ContentOf(j).buf,
               streams |-> ContentOf(j).streams, lazy |-> ContentOf(j).lazy,
               chunksize |-> Chunksize(j), running |-> FALSE, closed |-> FALSE]]
  /\ job' = [job EXCEPT ![j].pc = "done"]
  /\ cur' = IF class.runs = "pool" \/ job[j].lost THEN cur ELSE j
  /\ UNCHANGED <<fixed, call, spent, seen>>

(* ... or it raises; the streams it has opened are closed. *)
BuildFails(j) ==
  /\ job[j].pc = "build"
  /\ job' = [job EXCEPT ![j].pc = "raised"]
  /\ UNCHANGED <<fixed, cur, rs, call, spent, seen>>

(* The task is cancelled in execute(): while it polls, execute() raises;     *)
(* while the constructor runs in a thread, the thread goes on.               *)
CancelExecute(j) ==
  /\ class.runs = "task" /\ spent.abandoned < MaxAbandoned /\ ~job[j].lost
  /\ \/ job[j].pc = "query" /\ job' = [job EXCEPT ![j].pc = "raised"]
     \/ job[j].pc = "build" /\ job' = [job EXCEPT ![j].lost = TRUE]
  /\ spent' = [spent EXCEPT !.abandoned = @ + 1]
  /\ UNCHANGED <<fixed, cur, rs, call, seen>>

CloseResultSet(j) ==
  /\ ~Busy /\ j \in Reachable /\ ~rs[j].closed
  /\ rs' = [rs EXCEPT ![j] = Closed(@)]
  /\ Mark(j, {"closed"})
  /\ UNCHANGED <<fixed, job, cur, call, spent>>
--------------------------------------------------------------------------------
(* fetchmany and fetchall are loops over fetchone; fetchall is a fetch of    *)
(* more rows than there are.                                                 *)

Fetch(j, want) ==
  /\ ~Busy /\ j \in Reachable /\ SpendCall
  /\ call' = [call EXCEPT !["user"] = [Idle EXCEPT !.pc = "next", !.j = j, !.want = want]]
  /\ UNCHANGED <<fixed, job, cur, rs, seen>>

(* What becomes of the rows of a call that is over. *)
Given(s, t, rows, end) ==
  IF t = "user" THEN [s EXCEPT !.out = @ \o rows, !.ended = @ \/ end]
  ELSE [s EXCEPT !.gone = @ \cup ToSet(rows)]

Return(t, end) ==
  /\ call' = [call EXCEPT ![t] = Idle]
  /\ seen' = [seen EXCEPT ![call[t].j] = Given(@, t, call[t].got, end)]

Raise(t, what) ==
  /\ call' = [call EXCEPT ![t] = Idle]
  /\ seen' = [seen EXCEPT ![call[t].j].gone = @ \cup ToSet(call[t].got),
                          ![call[t].j].marks = @ \cup what]

(* The loop has its row: it goes round again or returns. *)
Got(t, row) ==
  LET got == Append(call[t].got, row) IN
  IF Len(got) = call[t].want
  THEN /\ call' = [call EXCEPT ![t] = Idle]
       /\ seen' = [seen EXCEPT ![call[t].j] = Given(@, t, got, FALSE)]
  ELSE /\ call' = [call EXCEPT ![t].got = got, ![t].pc = "next"]
       /\ UNCHANGED seen

At(t, pc) == call[t].pc = pc /\ UNCHANGED <<fixed, job, cur, spent>>
Mine(t) == rs[call[t].j]
--------------------------------------------------------------------------------
(* Pandas and Polars: next() of the iterrows() generator *)

(* A generator that another thread is in refuses: ValueError. *)
EnterGenerator(t) ==
  /\ At(t, "next") /\ Generator
  /\ \/ /\ Mine(t).closed
        /\ Return(t, TRUE) /\ UNCHANGED rs
     \/ /\ ~Mine(t).closed /\ Mine(t).running
        /\ Raise(t, {}) /\ UNCHANGED rs
     \/ /\ ~Mine(t).closed /\ ~Mine(t).running
        /\ rs' = [rs EXCEPT ![call[t].j].running = TRUE]
        /\ call' = [call EXCEPT ![t].pc = "inside"]
        /\ UNCHANGED seen

Yielded(t) ==
  /\ At(t, "inside") /\ Mine(t).buf # <<>>
  /\ rs' = [rs EXCEPT ![call[t].j].buf = Tail(@), ![call[t].j].running = FALSE]
  /\ Got(t, Head(Mine(t).buf))

ChunkRead(t) ==
  /\ At(t, "inside") /\ Mine(t).buf = <<>> /\ Mine(t).chunks # <<>>
  /\ rs' = [rs EXCEPT ![call[t].j].buf = Head(Mine(t).chunks), ![call[t].j].chunks = Tail(@)]
  /\ UNCHANGED <<call, seen>>

(* Reading on fails: both generators are finished, Pandas closes its streams *)
ChunkFails(t) ==
  /\ At(t, "inside") /\ Mine(t).buf = <<>>
  /\ Mine(t).lazy /\ (Mine(t).chunks # <<>> \/ Mine(t).closed)
  /\ rs' = [rs EXCEPT ![call[t].j].chunks = <<>>, ![call[t].j].running = FALSE,
                      ![call[t].j].streams = {}]
  /\ Raise(t, {"failed"})

StreamsAfterEnd(s) == {}

Exhausted(t) ==
  /\ At(t, "inside") /\ Mine(t).buf = <<>> /\ Mine(t).chunks = <<>>
  /\ rs' = [rs EXCEPT ![call[t].j].running = FALSE,
                      ![call[t].j].streams = StreamsAfterEnd(@)]
  /\ Return(t, TRUE)
--------------------------------------------------------------------------------
(* Arrow and S3FS: a deque that _fetch refills *)

(* "if not self._rows" and popleft are two steps. *)
CheckRows(t) ==
  /\ At(t, "next") /\ ~Generator
  /\ call' = [call EXCEPT ![t].pc = IF Mine(t).buf = <<>> THEN "fetch" ELSE "pop"]
  /\ UNCHANGED <<rs, seen>>

CheckAgain(t) ==
  /\ At(t, "recheck")
  /\ IF Mine(t).buf = <<>> THEN Return(t, TRUE)
     ELSE call' = [call EXCEPT ![t].pc = "pop"] /\ UNCHANGED seen
  /\ UNCHANGED rs

PopLeft(t) ==
  /\ At(t, "pop")
  /\ IF Mine(t).buf = <<>> THEN Raise(t, {}) /\ UNCHANGED rs      \* IndexError
     ELSE /\ rs' = [rs EXCEPT ![call[t].j].buf = Tail(@)]
          /\ Got(t, Head(Mine(t).buf))

(* Arrow: next(self._batches); close() has made it a list: TypeError. *)
NextBatch(t) ==
  /\ At(t, "fetch") /\ class.reads = "arrow"
  /\ IF Mine(t).closed THEN Raise(t, {}) /\ UNCHANGED rs
     ELSE IF Mine(t).chunks = <<>>
     THEN call' = [call EXCEPT ![t].pc = "recheck"] /\ UNCHANGED <<rs, seen>>
     ELSE /\ call' = [call EXCEPT ![t].pc = "extend", ![t].held = Head(Mine(t).chunks)]
          /\ rs' = [rs EXCEPT ![call[t].j].chunks = Tail(@)]
          /\ UNCHANGED seen

(* The batch is converted, then added. *)
ExtendRows(t) ==
  /\ At(t, "extend")
  /\ rs' = [rs EXCEPT ![call[t].j].buf = @ \o call[t].held]
  /\ call' = [call EXCEPT ![t].pc = "recheck", ![t].held = <<>>]
  /\ UNCHANGED seen

(* S3FS: up to arraysize lines of the reader, if there is one. *)
HasReader(r) == "reader" \in r.streams

BeginLines(t) ==
  /\ At(t, "fetch") /\ class.reads = "s3fs"
  /\ call' = [call EXCEPT ![t].pc = IF HasReader(Mine(t)) THEN "line" ELSE "recheck", ![t].k = 0]
  /\ UNCHANGED <<rs, seen>>

ReadLine(t) ==
  /\ At(t, "line") /\ HasReader(Mine(t))
  /\ IF Mine(t).chunks = <<>>
     THEN call' = [call EXCEPT ![t].pc = "recheck"] /\ UNCHANGED rs
     ELSE /\ rs' = [rs EXCEPT ![call[t].j].buf = @ \o Head(Mine(t).chunks),
                              ![call[t].j].chunks = Tail(@)]
          /\ call' = [call EXCEPT ![t].k = @ + 1,
                                  ![t].pc = IF call[t].k + 1 < opts.arraysize THEN @ ELSE "recheck"]
  /\ UNCHANGED seen

(* Reading fails, or the reader was closed meanwhile.  A line may be lost.   *)
LineFails(t) ==
  /\ At(t, "line")
  /\ \E c \in {Mine(t).chunks} \cup {Tail(x) : x \in {Mine(t).chunks} \ {<<>>}} :
       rs' = [rs EXCEPT ![call[t].j].chunks = c]
  /\ Raise(t, {"failed"})
--------------------------------------------------------------------------------
(* The task is cancelled in a fetch: the thread goes on. *)
CancelFetch ==
  /\ class.runs = "task" /\ spent.abandoned < MaxAbandoned
  /\ call["user"].pc # "idle" /\ call["lost"] = Idle
  /\ call' = [call EXCEPT !["lost"] = call["user"], !["user"] = Idle]
  /\ spent' = [spent EXCEPT !.abandoned = @ + 1]
  /\ Mark(call["user"].j, {"abandoned"})
  /\ UNCHANGED <<fixed, job, cur, rs>>

(* Whole chunks.  The calls do not go through a thread; with one running on  *)
(* the same result set the model leaves them out.                            *)
ChunksFree(j) == ~Busy /\ j \in Reachable /\ Generator /\ call["lost"].j # j

(* iter_chunks(), or as_pandas() with a chunk size: the next chunk. *)
NextChunk(j) ==
  /\ ChunksFree(j) /\ SpendCall
  /\ class.runs = "task" => class.reads = "pandas" /\ rs[j].chunksize # NULL
  /\ IF rs[j].chunks = <<>>
     THEN /\ rs' = [rs EXCEPT ![j].streams = StreamsAfterEnd(@)]
          /\ UNCHANGED seen
     ELSE \/ /\ rs' = [rs EXCEPT ![j].chunks = Tail(@)]
             /\ seen' = [seen EXCEPT ![j].out = @ \o Head(rs[j].chunks),
                                     ![j].marks = @ \cup {"iterated"}]
          \/ /\ rs[j].lazy
             /\ rs' = [rs EXCEPT ![j].chunks = <<>>, ![j].streams = {}]
             /\ Mark(j, {"failed"})
  /\ UNCHANGED <<fixed, job, cur, call>>

(* Leaving the loop over a blocking cursor's iter_chunks(): "with" closes    *)
(* the Pandas iterator, "yield from" a Polars one that is a generator.       *)
LeaveChunks(j) ==
  /\ ChunksFree(j) /\ class.runs = "caller" /\ "iterated" \in seen[j].marks
  /\ class.reads = "pandas" \/ rs[j].lazy
  /\ rs' = [rs EXCEPT ![j].chunks = <<>>, ![j].streams = {}]
  /\ Mark(j, {"left"})
  /\ UNCHANGED <<fixed, job, cur, call, spent>>

(* as_pandas() without a chunk size: one step of the iterator, StopIteration *)
(* if it has none left.                                                      *)
AsPandas(j) ==
  /\ ChunksFree(j) /\ SpendCall /\ class.reads = "pandas" /\ rs[j].chunksize = NULL
  /\ rs[j].chunks # <<>>
  /\ rs' = [rs EXCEPT ![j].chunks = Tail(@)]
  /\ seen' = [seen EXCEPT ![j].out = @ \o Head(rs[j].chunks),
                          ![j].marks = @ \cup {"framed"},
                          ![j].frame = IF seen[j].out = <<>> /\ seen[j].marks = {}
                                       THEN Head(rs[j].chunks) ELSE @]
  /\ UNCHANGED <<fixed, job, cur, call>>

(* as_polars(): all chunks that are left, in one frame. *)
AsPolars(j) ==
  /\ ChunksFree(j) /\ SpendCall /\ class.reads = "polars"
  /\ \/ /\ rs' = [rs EXCEPT ![j].chunks = <<>>]
        /\ seen' = [seen EXCEPT ![j].out = @ \o FlattenSeq(rs[j].chunks),
                                ![j].marks = @ \cup {"framed"},
                                ![j].frame = IF seen[j].out = <<>> /\ seen[j].marks = {}
                                             THEN FlattenSeq(rs[j].chunks) ELSE @]
     \/ /\ rs[j].lazy /\ rs[j].chunks # <<>>
        /\ rs' = [rs EXCEPT ![j].chunks = <<>>]
        /\ Mark(j, {"failed"})
  /\ UNCHANGED <<fixed, job, cur, call>>
--------------------------------------------------------------------------------
ThreadStep(t) ==
  \/ EnterGenerator(t) \/ Yielded(t) \/ ChunkRead(t) \/ ChunkFails(t) \/ Exhausted(t)
  \/ CheckRows(t) \/ CheckAgain(t) \/ PopLeft(t) \/ NextBatch(t) \/ ExtendRows(t)
  \/ BeginLines(t) \/ ReadLine(t) \/ LineFails(t)

Next ==
  \/ \E j \in Execs :
       \/ \E kw \in KwChunksizes : Execute(j, kw)
       \/ \E ok \in BOOLEAN : QueryEnds(j, ok)
       \/ Build(j) \/ BuildFails(j) \/ CancelExecute(j) \/ CloseResultSet(j)
       \/ \E want \in Sizes : Fetch(j, want)
       \/ NextChunk(j) \/ LeaveChunks(j) \/ AsPandas(j) \/ AsPolars(j)
  \/ \E t \in {"user", "lost"} : ThreadStep(t)
  \/ CancelFetch

Spec == Init /\ [][Next]_vars
--------------------------------------------------------------------------------
(* The rows of the statement, whatever they were read from. *)
Rows == ToSet(DataRows(query))

(* No row is given twice, whichever way it is asked for (rows, chunks,       *)
(* frames, a thread left behind and the user at once), and none is given     *)
(* that is not a row of the result, the header line for one.  Row by row,    *)
(* with nothing else going on, they come in order.                           *)
NoRowTwice ==
  \A j \in Execs :
    /\ seen[j].marks = {} /\ seen[j].gone = {} => IsPrefix(seen[j].out, DataRows(query))
    /\ \A a, b \in DOMAIN seen[j].out : seen[j].out[a] = seen[j].out[b] => a = b
    /\ ToSet(seen[j].out) \cap seen[j].gone = {}
    /\ ToSet(seen[j].out) \cup seen[j].gone \subseteq Rows

(* A fetch reports the end only when every row was given, to the user or to  *)
(* a call that raised or was abandoned.  Not so after a failed read, a       *)
(* close(), an early exit from the chunks; and an abandoned call of an Arrow *)
(* or S3FS cursor may hold rows that the end is reported ahead of.           *)
EndMeansAllGiven ==
  \A j \in Execs :
    seen[j].ended
      /\ seen[j].marks \cap {"failed", "closed", "left", "unsuccessful"} = {}
      /\ (Generator \/ "abandoned" \notin seen[j].marks) =>
    ToSet(seen[j].out) \cup seen[j].gone
      \cup UNION {ToSet(call[t].got) : t \in {x \in {"user", "lost"} : call[x].j = j}} = Rows

(* The cursor's result set is that of its last execution, and of one that    *)
(* succeeded: an execution that fails or is cancelled leaves no result of an *)
(* earlier one to be fetched, and gives no rows itself.                      *)
ResultIsOfLastExecution ==
  /\ cur # NULL => /\ job[cur].pc = "done" /\ job[cur].ok
                   /\ \A j \in Execs : j > cur => job[j].pc = "new"
  /\ \A j \in Execs : ~job[j].ok => seen[j].out = <<>> /\ seen[j].gone = {}

(* A result set that the user cannot reach any more has no open stream, if   *)
(* anybody ever could; so has one whose end was reached.                     *)
StreamsAreClosed ==
  \A j \in Execs :
    /\ job[j].pc = "done" /\ ~job[j].lost /\ j \notin Reachable => rs[j].streams = {}
    /\ class.reads = "pandas" /\ seen[j].ended => rs[j].streams = {}

(* The inductive strengthening of the four: where every row is.              *)
Threads == {"user", "lost"}
Stores == {"buf", "out", "got", "lost got", "held", "lost held"}
Places == Stores \cup {"chunks", "gone", "nowhere"}

GotFrom(t, j) == IF call[t].j = j THEN call[t].got ELSE <<>>
HeldFrom(t, j) == IF call[t].j = j THEN call[t].held ELSE <<>>

Store(p, j) ==
  CASE p = "buf" -> rs[j].buf                  [] p = "out" -> seen[j].out
    [] p = "got" -> GotFrom("user", j)         [] p = "held" -> HeldFrom("user", j)
    [] p = "lost got" -> GotFrom("lost", j)    [] p = "lost held" -> HeldFrom("lost", j)
Stored(j) == [p \in Stores |-> Store(p, j)]

(* How many rows there are to read for an execution. *)
Total(j) == IF job[j].ok THEN query.n ELSE 0

(* The rows after row a, in order. *)
Run(s, a) == \A i \in 1..Len(s) : s[i] = a + i

(* The chunks are the rows after row e[0], cut at e[1], e[2] and so on. *)
Cut(chunks, e, n) ==
  /\ e[Len(chunks)] = n
  /\ \A i, k \in 0..Len(chunks) : i <= k => e[i] <= e[k]
  /\ \A i \in 1..Len(chunks) : Run(chunks[i], e[i - 1]) /\ Len(chunks[i]) = e[i] - e[i - 1]

(* By w, the rows in place p are those of sequence s, each once. *)
InPlace(w, p, s) ==
  /\ \A i \in 1..Len(s) : s[i] \in DOMAIN w /\ w[s[i]] = p
  /\ \A r \in DOMAIN w : w[r] = p => \E i \in 1..Len(s) : s[i] = r
  /\ \A i, k \in 1..Len(s) : s[i] = s[k] => i = k

(* Row by row and with nothing else going on, the rows are in order, from    *)
(* those the user has to the last one before the chunks, a.                  *)
InOrder(h, a) ==
  /\ Run(h["out"], 0) /\ Run(h["got"], Len(h["out"]))
  /\ Run(h["buf"], Len(h["out"]) + Len(h["got"]))
  /\ Run(h["held"], Len(h["out"]) + Len(h["got"]) + Len(h["buf"]))
  /\ a = Len(h["out"]) + Len(h["got"]) + Len(h["buf"]) + Len(h["held"])

Lossy == {"failed", "closed", "left"}
Spoilt == Lossy \cup {"unsuccessful"}

(* Every row is in one place, and none gets lost but by what marks it.       *)
AccountedBy(e, w, n, chunks, h, gone, marks) ==
  /\ Cut(chunks, e, n)
  /\ \A r \in 1..n : w[r] = "chunks" <=> e[0] < r
  /\ \A p \in Stores : InPlace(w, p, h[p])
  /\ gone \subseteq 1..n
  /\ \A r \in 1..n : w[r] = "gone" <=> r \in gone
  /\ marks \cap Lossy = {} => \A r \in 1..n : w[r] # "nowhere"
  /\ marks = {} /\ gone = {} => InOrder(h, e[0])

Accounted(n, chunks, h, gone, marks) ==
  \E e \in [0..Len(chunks) -> 0..n], w \in [1..n -> Places] :
    AccountedBy(e, w, n, chunks, h, gone, marks)

Ledger(j) == Accounted(Total(j), rs[j].chunks, Stored(j), seen[j].gone, seen[j].marks)

Jobs == [pc : {"new", "query", "build", "done", "raised"},
         kw : ChunksizeOptions, ok : BOOLEAN, lost : BOOLEAN]
ResultSets == [chunks : Seq(Seq(Nat)), buf : Seq(Nat), streams : SUBSET {"reader", "csv_stream"},
               lazy : BOOLEAN, chunksize : ChunksizeOptions, running : BOOLEAN, closed : BOOLEAN]
Calls == [pc : {"idle", "next", "inside", "fetch", "pop", "recheck", "extend", "line"},
          j : {0} \cup Execs, want : {0} \cup Sizes, got : Seq(Nat), held : Seq(Nat), k : Nat]
Histories == [out : Seq(Nat), gone : SUBSET Nat, ended : BOOLEAN, frame : Seq(Nat) \cup {NULL},
              marks : SUBSET ({"abandoned", "unsuccessful", "iterated", "framed"} \cup Lossy)]

TypeOK ==
  /\ class \in Classes /\ query \in Results
  /\ opts \in OptionSets
  /\ job \in [Execs -> Jobs] /\ cur \in Execs \cup {NULL}
  /\ rs \in [Execs -> ResultSets] /\ call \in [Threads -> Calls]
  /\ spent \in [calls : 0..MaxCalls, abandoned : 0..MaxAbandoned]
  /\ seen \in [Execs -> Histories]

(* An execution gives nothing before its result set is there, and the end is *)
(* the end.                                                                  *)
Produced(j) ==
  /\ job[j].pc \in {"new", "query"} => ~job[j].ok
  /\ job[j].pc \in {"build", "done"} /\ ~job[j].ok =>
       ~class.raises /\ "unsuccessful" \in seen[j].marks
  /\ job[j].pc # "done" =>
       /\ rs[j] = NoResultSet
       /\ seen[j].out = <<>> /\ seen[j].gone = {} /\ ~seen[j].ended
  /\ job[j].pc = "done" => Ledger(j)
  /\ ~Generator /\ job[j].ok => \A i \in 1..Len(rs[j].chunks) : rs[j].chunks[i] # <<>>
  /\ rs[j].closed => rs[j].streams = {} /\ "closed" \in seen[j].marks
  /\ class.reads = "pandas" /\ seen[j].ended => rs[j].streams = {}
  /\ class.reads = "s3fs" /\ job[j].pc = "done" /\ seen[j].marks \cap Spoilt = {} =>
       HasReader(rs[j]) \/ rs[j].chunks = <<>>

Finished(j) == seen[j].ended /\ seen[j].marks \cap Spoilt = {}
                 /\ (Generator \/ "abandoned" \notin seen[j].marks)

EndIsEnd(j) == Finished(j) =>
  rs[j].chunks = <<>> /\ rs[j].buf = <<>> /\ \A t \in Threads : HeldFrom(t, j) = <<>>

(* Where a fetch is.  One that a task left behind was reported abandoned.    *)
CallInOrder(t) ==
  /\ call[t].pc = "idle" => call[t] = Idle
  /\ call[t].pc # "idle" => call[t].j \in Execs /\ job[call[t].j].pc = "done"
  /\ call[t].pc # "extend" => call[t].held = <<>>
  /\ call[t].pc = "extend" => call[t].held # <<>> \/ ~job[call[t].j].ok
  /\ call[t].pc # "idle" => (call[t].pc = "next" \/ (Generator <=> call[t].pc = "inside"))
  /\ call[t].pc = "line" => class.reads = "s3fs"
  /\ t = "lost" /\ call[t].pc # "idle" => "abandoned" \in seen[call[t].j].marks
  /\ call[t].pc = "recheck" /\ seen[call[t].j].marks \cap (Spoilt \cup {"abandoned"}) = {} =>
       rs[call[t].j].chunks = <<>> \/ rs[call[t].j].buf # <<>>

(* One execution after the other, and whose result set the cursor has.       *)
Sequential ==
  /\ \A i, j \in Execs : i < j /\ job[i].pc = "new" => job[j].pc = "new"
  /\ class.runs = "pool" => cur = NULL
  /\ cur # NULL => /\ job[cur].pc = "done" /\ job[cur].ok /\ ~job[cur].lost
                   /\ \A j \in Execs : j > cur => job[j].pc = "new"
  /\ class.runs # "pool" => \A j \in Execs :
       /\ job[j].pc \in {"query", "build"} /\ ~job[j].lost =>
            cur = NULL /\ \A i \in Execs : i > j => job[i].pc = "new"
       /\ job[j].pc = "done" /\ ~job[j].lost /\ j # cur => rs[j].streams = {}

IInv ==
  /\ TypeOK /\ Sequential
  /\ \A j \in Execs : Produced(j) /\ EndIsEnd(j)
  /\ \A t \in Threads : CallInOrder(t)

(* pandas/cursor.py: as_pandas() is a DataFrame of the result when chunksize *)
(* is None.  With auto_optimize_chunksize it is the first chunk of it.       *)
FrameIsWholeResult ==
  \A j \in Execs : seen[j].frame # NULL => ToSet(seen[j].frame) = Rows
================================================================================
