-------------------------------- MODULE ResultSet ------------------------------
(* AthenaResultSet and AthenaAioResultSet: rows are fetched from Athena page *)
(* by page while fetchone, fetchmany and fetchall hand them out.  The blocking*)
(* one has a single fetcher; several tasks may use the asyncio one, and the  *)
(* cursor may close it (a new execute() does) while a page is awaited.       *)
EXTENDS QueryResults, FiniteSets

CONSTANTS
  Fetchers,   \* the threads and tasks there are
  Crowds,     \* who may fetch together: one of them, or several tasks
  MaxCalls(_),  \* bounds, by the number of fetchers: calls of fetch methods,
  RowsUpTo(_)   \* and rows

ASSUME FetchersAssumption ==
  /\ IsFiniteSet(Fetchers) /\ Fetchers # {}
  /\ Crowds \subseteq SUBSET Fetchers
  /\ \A crowd \in Crowds : MaxCalls(crowd) \in Nat

VARIABLES
  active,     \* those that fetch: one, or several tasks
  rows,       \* AthenaResultSet._rows
  token,      \* AthenaResultSet._next_token
  rownumber,  \* AthenaResultSet._rownumber, NULL once closed
  closed,     \* AthenaResultSet.is_closed
  pc,         \* where each fetcher is, "new" before the result set is made
  asked,      \* the token of the page it awaits
  want,       \* how many more rows its call wants
  got,        \* the rows its call has collected
  calls,      \* how many fetch methods were called
  given,      \* history: the rows handed out to calls, failed ones included
  delivered,  \* history: the rows calls have returned, in order
  ended       \* history: the last call to return reported the end

dataVars == <<rows, token, rownumber, closed>>
callVars == <<pc, asked, want, got, calls>>
historyVars == <<given, delivered, ended>>
vars == <<resultVars, active, dataVars, callVars, historyVars>>

(* fetchall() wants more rows than there are, however many it gets. *)
All == MaxRows + 1

Tokens == (1..MaxRows + 1) \cup {NULL}

TypeOK ==
  /\ active \in Crowds
  /\ nrows \in 0..MaxRows /\ labels \subseteq 1..nrows
  /\ rows \in Seq(1..nrows) /\ token \in Tokens
  /\ rownumber \in Nat \cup {NULL} /\ closed \in BOOLEAN
  /\ pc \in [Fetchers -> {"new", "idle", "loop", "fetch"}]
  /\ asked \in [Fetchers -> Tokens]
  /\ want \in [Fetchers -> 0..All]
  /\ got \in [Fetchers -> Seq(1..nrows)]
  /\ calls \in 0..MaxCalls(active)
  /\ given \subseteq 1..nrows /\ delivered \in Seq(1..nrows) /\ ended \in BOOLEAN

Init ==
  /\ ResultsInit
  /\ active \in Crowds /\ nrows <= RowsUpTo(active)
  /\ rows = <<>> /\ token = NULL /\ rownumber = 0 /\ closed = FALSE
  /\ pc = [f \in Fetchers |-> "new"]
  /\ asked = [f \in Fetchers |-> NULL]
  /\ want = [f \in Fetchers |-> 0]
  /\ got = [f \in Fetchers |-> <<>>]
  /\ calls = 0
  /\ given = {} /\ delivered = <<>> /\ ended = FALSE
--------------------------------------------------------------------------------
Goto(f, label) == pc' = [pc EXCEPT ![f] = label]

(* A first row that equals the column labels is taken for the header. *)
Header == IF 1 \in labels THEN 1 ELSE 0

(* _pre_fetch: the first page, without its header row. *)
PreFetch ==
  /\ \A f \in Fetchers : pc[f] = "new"
  /\ \E a \in Answers(1) :
       /\ rows' = SubSeq(Page(1, a.count), Header + 1, a.count)
       /\ token' = a.next
  /\ pc' = [f \in Fetchers |-> "idle"]
  /\ UNCHANGED <<resultVars, rownumber, closed, asked, want, got, calls, historyVars>>

(* fetchone() wants one row, fetchmany(n) n of them, fetchall() all. *)
Call(f, n) ==
  /\ f \in active /\ pc[f] = "idle" /\ calls < MaxCalls(active)
  /\ Goto(f, "loop")
  /\ calls' = calls + 1
  /\ want' = [want EXCEPT ![f] = n]
  /\ UNCHANGED <<resultVars, dataVars, asked, got, historyVars>>

(* The next row leaves the deque, given its contents d, and goes to call f. *)
PopLeft(f, d) ==
  /\ rows' = Tail(d)
  /\ rownumber' = IF rownumber = NULL THEN 1 ELSE rownumber + 1
  /\ want' = [want EXCEPT ![f] = IF @ = All THEN All ELSE @ - 1]
  /\ got' = [got EXCEPT ![f] = Append(@, Head(d))]
  /\ given' = given \cup {Head(d)}
  /\ Goto(f, "loop")

(* The call returns and reports the end of the data if it wanted more. *)
EndCall(f) ==
  /\ Goto(f, "idle")
  /\ delivered' = delivered \o got[f]
  /\ ended' = (want[f] > 0)
  /\ want' = [want EXCEPT ![f] = 0]
  /\ got' = [got EXCEPT ![f] = <<>>]
  /\ UNCHANGED <<rownumber, given>>

(* The call raises: the rows it has collected are gone with it. *)
RaiseError(f) ==
  /\ Goto(f, "idle")
  /\ want' = [want EXCEPT ![f] = 0]
  /\ asked' = [asked EXCEPT ![f] = NULL]
  /\ got' = [got EXCEPT ![f] = <<>>]
  /\ UNCHANGED <<resultVars, dataVars, calls, historyVars>>

(* fetchone finds a row. *)
TakeRow(f) ==
  /\ pc[f] = "loop" /\ want[f] > 0 /\ rows # <<>>
  /\ PopLeft(f, rows)
  /\ UNCHANGED <<resultVars, token, closed, asked, calls, delivered, ended>>

(* fetchone finds none, but a token: it asks for the next page, and raises   *)
(* ProgrammingError if the result set is closed.                             *)
RequestPage(f) ==
  /\ pc[f] = "loop" /\ want[f] > 0 /\ rows = <<>> /\ token # NULL
  /\ IF closed
     THEN RaiseError(f)
     ELSE /\ Goto(f, "fetch")
          /\ asked' = [asked EXCEPT ![f] = token]
          /\ UNCHANGED <<resultVars, dataVars, want, got, calls, historyVars>>

(* Mutant: the page is kept after close(). *)
ArrivedAfterClose(t, k) == rows \o Page(t, k)

(* The deque after a page of k rows has arrived: the rows are dropped if the *)
(* result set was closed meanwhile, there is no metadata to convert them.    *)
Arrived(t, k) == IF closed THEN rows ELSE rows \o Page(t, k)

(* Mutants: the old token stays when the page has none; the client moves on  *)
(* from where it is, not from the page that was asked for.                   *)
KeepToken(t, next) == IF next = NULL THEN t ELSE next
MoveOnToken(t, next) == IF next = NULL \/ token = NULL THEN next ELSE token + (next - t)

(* _next_token after the answer to a request with token t. *)
NextToken(t, next) == next

(* Mutant: an empty page is ignored and the same token is tried again. *)
EmptyPageIgnored(f) ==
  /\ pc[f] = "fetch"
  /\ \E a \in Answers(asked[f]) :
       LET d == Arrived(asked[f], a.count) IN
       \/ d # <<>> /\ token' = a.next /\ PopLeft(f, d)
       \/ d = <<>> /\ Goto(f, "loop") /\ token' = asked[f]
          /\ UNCHANGED <<rows, rownumber, want, got, given>>
  /\ asked' = [asked EXCEPT ![f] = NULL]
  /\ UNCHANGED <<resultVars, closed, calls, delivered, ended>>

(* The page arrives.  The same fetchone goes on without giving up control:   *)
(* it takes a row, or reports the end if the page has brought none.          *)
PageAnswered(f) ==
  /\ pc[f] = "fetch"
  /\ \E a \in Answers(asked[f]) :
       LET d == Arrived(asked[f], a.count) IN
       /\ token' = NextToken(asked[f], a.next)
       /\ \/ d # <<>> /\ PopLeft(f, d) /\ UNCHANGED <<delivered, ended>>
          \/ d = <<>> /\ EndCall(f) /\ UNCHANGED rows
  /\ asked' = [asked EXCEPT ![f] = NULL]
  /\ UNCHANGED <<resultVars, closed, calls>>

(* The request fails for good, or the task that awaits it is cancelled: the  *)
(* token is still there and the next call asks for the same page.            *)
PageFails(f) ==
  /\ pc[f] = "fetch"
  /\ RaiseError(f)

(* The call has what it wants, or there is neither a row nor a token. *)
Return(f) ==
  /\ pc[f] = "loop"
  /\ want[f] = 0 \/ (rows = <<>> /\ token = NULL)
  /\ EndCall(f)
  /\ UNCHANGED <<resultVars, rows, token, closed, asked, calls>>

(* close(), by the user or by the next execute() of the cursor. *)
Close ==
  /\ \A f \in Fetchers : pc[f] # "new"
  /\ rows' = <<>> /\ token' = NULL /\ rownumber' = NULL /\ closed' = TRUE
  /\ UNCHANGED <<resultVars, callVars, historyVars>>

CallStep(f) ==
  /\ TakeRow(f) \/ RequestPage(f) \/ PageAnswered(f) \/ PageFails(f) \/ Return(f)
  /\ UNCHANGED active

Next ==
  \/ PreFetch /\ UNCHANGED active
  \/ \E f \in Fetchers :
       \/ \E n \in 1..All : Call(f, n) /\ UNCHANGED active
       \/ CallStep(f)
  \/ Close /\ UNCHANGED active

Spec == Init /\ [][Next]_vars

(* A fetch method that was called goes on: every request is answered or      *)
(* fails.  Nobody has to call one.                                           *)
FairSpec == Spec /\ \A f \in Fetchers : WF_vars(CallStep(f))
--------------------------------------------------------------------------------
(* Properties.                                                               *)

DataRows == {i \in 1..nrows : i > Header}

(* With one fetcher the pages implement the row stream: the rows are handed  *)
(* out in order, each once, across page boundaries, failed and repeated      *)
(* requests; the end is reported only when nothing is left, or after close().*)
Shift(s) == [i \in DOMAIN s |-> s[i] - Header]
Alone == Cardinality(active) = 1
Only == CHOOSE f \in active : TRUE

Stream == INSTANCE RowStream WITH
  n <- IF Alone THEN Cardinality(DataRows) ELSE 0,
  pos <- IF Alone THEN Cardinality(given) ELSE 0,
  taken <- IF Alone THEN Shift(got[Only]) ELSE <<>>,
  delivered <- IF Alone THEN Shift(delivered) ELSE <<>>,
  ended <- Alone /\ ended,
  closed <- Alone /\ closed

ImplementsRowStream == Stream!Spec

(* With several tasks fetching, pages may be asked for twice and rows handed *)
(* out twice, but none is left out: the end is reported only after every     *)
(* data row was handed to some call (or the result set was closed).          *)
EndMeansAllGiven == (ended /\ ~closed) => DataRows \subseteq given

(* Every call ends, although a stale answer may move the token back.         *)
CallEnds == \A f \in Fetchers : pc[f] = "loop" ~> pc[f] = "idle"

(* A closed result set holds no rows: nothing of the previous query comes    *)
(* out of a fetch that is still under way when the cursor executes again.    *)
ClosedIsEmpty == closed => rows = <<>>

(* The inductive invariant: types; nothing happens before the first page;    *)
(* only an active fetcher is inside a call, and it has asked for a page of   *)
(* this result; the pages line up, for many fetchers and for one.            *)
Made == \A f \in Fetchers : pc[f] # "new"

NothingBefore ==
  ~Made => /\ \A f \in Fetchers : pc[f] = "new"
           /\ rows = <<>> /\ given = {} /\ delivered = <<>> /\ ~ended /\ ~closed

CallInOrder(f) ==
  /\ f \notin active => pc[f] \in {"new", "idle"}
  /\ pc[f] \in {"new", "idle"} => want[f] = 0 /\ got[f] = <<>>
  /\ pc[f] = "fetch" => want[f] > 0 /\ asked[f] \in 1..nrows + 1

(* Of the data rows before t, those not in g wait in the deque d. *)
Fetched(g, d, t) ==
  \A i \in DataRows : i < t => i \in g \/ \E j \in 1..Len(d) : d[j] = i

(* No data row is skipped: all before the token, and before every page that  *)
(* is awaited, have arrived; all of them, when there is no token.            *)
NoneSkipped ==
  (Made /\ ~closed) =>
    /\ token # NULL => token <= nrows + 1 /\ Fetched(given, rows, token)
    /\ token = NULL => Fetched(given, rows, nrows + 1)
    /\ \A f \in Fetchers : pc[f] = "fetch" => Fetched(given, rows, asked[f])

(* The deque d holds the rows after p, and the token t is the one after it. *)
LinedUp(p, d, t) ==
  /\ \A j \in 1..Len(d) : d[j] = p + j
  /\ IF t = NULL THEN p + Len(d) = nrows ELSE t = p + Len(d) + 1

(* One fetcher has handed out the data rows up to some p and holds the next  *)
(* ones; it asks for a page when it holds none.                              *)
InLine ==
  Alone =>
    /\ \E p \in Header..nrows :
         /\ given = (Header + 1)..p
         /\ (Made /\ ~closed) => LinedUp(p, rows, token)
    /\ ~closed => \A f \in Fetchers :
         pc[f] = "fetch" => rows = <<>> /\ asked[f] = token

IInv ==
  /\ TypeOK /\ NothingBefore /\ (\A f \in Fetchers : CallInOrder(f))
  /\ ClosedIsEmpty /\ NoneSkipped /\ EndMeansAllGiven /\ InLine
================================================================================
