------------------------------- MODULE Cursor --------------------------------
(* The blocking SQL cursors of PyAthena: Cursor (a thread that blocks in     *)
(* execute) and AioCursor (a coroutine that awaits it), both running the     *)
(* same protocol against Athena: look for a reusable result, start a query,  *)
(* call back, poll until it is terminal, collect the result set.  A second   *)
(* thread or task may call cancel() at any time, and the executing one may   *)
(* be interrupted (KeyboardInterrupt, asyncio.CancelledError) at any time.   *)
EXTENDS Integers, Sequences, FiniteSets

CONSTANTS
  QueryIds,        \* query execution ids Athena can hand out
  Cursors,         \* the cursors
  AioCursors,      \* those that are AioCursor, the others are Cursor
  KillOnInterrupt, \* those created with kill_on_interrupt=True
  Statements,      \* SQL statements after parameter formatting
  Attempts,        \* RetryConfig.attempt
  Counts,          \* row counts a result set can report, -1 for "unknown"
  MaxExecs,        \* bound: calls of execute() per cursor
  MaxBatch,        \* bound: parameter sets of one executemany()
  MaxInterrupts,   \* bound: interrupts per cursor
  NULL

ASSUME ConstantsAssumption ==
  /\ AioCursors \subseteq Cursors
  /\ KillOnInterrupt \subseteq Cursors
  /\ Attempts \in Nat \ {0}
  /\ Counts \subseteq Nat \cup {-1}
  /\ MaxExecs \in Nat /\ MaxBatch \in Nat /\ MaxInterrupts \in Nat
  /\ NULL \notin QueryIds \cup [by : Cursors, exec : 0..MaxExecs, stmt : Statements]
  /\ NULL \notin 0..MaxBatch

VARIABLES
  qstate, qreq, stopreq,  \* Athena, see AthenaService
  pc,          \* where each cursor's executing thread or coroutine is
  stmt,        \* the statement being executed
  execs,       \* how many times execute() was entered
  attempts,    \* attempt number of the API call under way
  query_id,    \* Cursor.query_id
  result_set,  \* Cursor.result_set
  open_rs,     \* the result sets of this cursor that were not closed
  rowcount,    \* Cursor._rowcount
  seen,        \* the query state the last poll iteration observed
  batch,       \* parameter sets executemany() has left, NULL outside it
  total,       \* executemany()'s running rowcount
  affected,    \* history: row counts of the executions of this batch
  outcome,     \* history: how the last call ended: "ok", or where it failed
  interrupts,  \* history: interrupts received
  lateStarts,  \* start requests whose caller has been interrupted
  lateStops,   \* stop requests whose caller has been interrupted
  cpc,         \* where the thread or task that calls cancel() is
  target       \* the query id cancel() has read

Service == INSTANCE AthenaService WITH Callers <- Cursors

callVars == <<pc, stmt, execs, attempts, seen, batch, total, affected, outcome>>
stateVars == <<query_id, result_set, open_rs, rowcount>>
lateVars == <<lateStarts, lateStops>>
cancelVars == <<cpc, target>>
serviceVars == <<qstate, qreq, stopreq>>
vars == <<serviceVars, callVars, stateVars, lateVars, cancelVars, interrupts>>

Request == [by : Cursors, exec : 0..MaxExecs, stmt : Statements]
ResultSet == [exec : 0..MaxExecs, query : QueryIds, count : Counts]

(* Steps of execute() in which an AWS call under retry_api_call is under way. *)
ApiCalls == {"start", "poll", "kill", "repoll"}
AfterStart == {"callback", "poll", "kill", "repoll", "collect"}
Labels == ApiCalls \cup {"idle", "batch", "lookup", "callback", "collect"}

ThisRequest(c) == [by |-> c, exec |-> execs[c], stmt |-> stmt[c]]

ServiceTypeOK ==
  /\ qstate \in [QueryIds -> {"none"} \cup Service!Live \cup Service!Terminal]
  /\ qreq \in [QueryIds -> Request \cup {NULL}]
  /\ stopreq \in [QueryIds -> SUBSET Cursors]

CallTypeOK ==
  /\ pc \in [Cursors -> Labels]
  /\ stmt \in [Cursors -> Statements]
  /\ execs \in [Cursors -> 0..MaxExecs]
  /\ attempts \in [Cursors -> 1..Attempts]
  /\ batch \in [Cursors -> 0..MaxBatch \cup {NULL}]
  /\ total \in [Cursors -> Nat \cup {-1}]
  /\ affected \in [Cursors -> Seq(Counts)]
  /\ outcome \in [Cursors -> Labels \cup {"none", "ok"}]

StateTypeOK ==
  /\ query_id \in [Cursors -> QueryIds \cup {NULL}]
  /\ result_set \in [Cursors -> ResultSet \cup {NULL}]
  /\ open_rs \in [Cursors -> SUBSET ResultSet]
  /\ rowcount \in [Cursors -> Nat \cup {-1}]

EventTypeOK ==
  /\ seen \in [Cursors -> Service!Live \cup Service!Terminal \cup {NULL}]
  /\ interrupts \in [Cursors -> 0..MaxInterrupts]
  /\ lateStarts \subseteq Request
  /\ lateStops \subseteq QueryIds \X Cursors
  /\ cpc \in [Cursors -> {"idle", "checked", "sending"}]
  /\ target \in [Cursors -> QueryIds \cup {NULL}]

TypeOK == ServiceTypeOK /\ CallTypeOK /\ StateTypeOK /\ EventTypeOK

Init ==
  /\ Service!ServiceInit
  /\ pc = [c \in Cursors |-> "idle"]
  /\ stmt \in [Cursors -> Statements]
  /\ execs = [c \in Cursors |-> 0]
  /\ attempts = [c \in Cursors |-> 1]
  /\ query_id = [c \in Cursors |-> NULL]
  /\ result_set = [c \in Cursors |-> NULL]
  /\ open_rs = [c \in Cursors |-> {}]
  /\ rowcount = [c \in Cursors |-> -1]
  /\ seen = [c \in Cursors |-> NULL]
  /\ batch = [c \in Cursors |-> NULL]
  /\ total = [c \in Cursors |-> 0]
  /\ affected = [c \in Cursors |-> <<>>]
  /\ outcome = [c \in Cursors |-> "none"]
  /\ interrupts = [c \in Cursors |-> 0]
  /\ lateStarts = {}
  /\ lateStops = {}
  /\ cpc = [c \in Cursors |-> "idle"]
  /\ target = [c \in Cursors |-> NULL]
------------------------------------------------------------------------------
(* Building blocks.                                                          *)

Goto(c, label) == pc' = [pc EXCEPT ![c] = label]

(* Mutant: the previous result set is dropped without being closed. *)
ResetStateNoClose(c, count) ==
  /\ query_id' = [query_id EXCEPT ![c] = NULL]
  /\ result_set' = [result_set EXCEPT ![c] = NULL]
  /\ rowcount' = [rowcount EXCEPT ![c] = count]
  /\ UNCHANGED open_rs

(* WithResultSet._reset_state with the row count it leaves. *)
ResetState(c, count) ==
  /\ query_id' = [query_id EXCEPT ![c] = NULL]
  /\ open_rs' = [open_rs EXCEPT ![c] = @ \ {result_set[c]}]
  /\ result_set' = [result_set EXCEPT ![c] = NULL]
  /\ rowcount' = [rowcount EXCEPT ![c] = count]

(* An exception leaves execute(), and executemany() if it called execute():  *)
(* no result set is left, the query id is kept.                              *)
Fail(c) ==
  /\ Goto(c, "idle")
  /\ outcome' = [outcome EXCEPT ![c] = pc[c]]
  /\ batch' = [batch EXCEPT ![c] = NULL]
  /\ attempts' = [attempts EXCEPT ![c] = 1]
  /\ open_rs' = [open_rs EXCEPT ![c] = @ \ {result_set[c]}]
  /\ result_set' = [result_set EXCEPT ![c] = NULL]
  /\ rowcount' = [rowcount EXCEPT ![c] = -1]
  /\ UNCHANGED <<stmt, execs, total, affected, query_id>>

(* execute() is entered with statement s. *)
EnterExecute(c, s) ==
  /\ execs[c] < MaxExecs
  /\ Goto(c, "lookup")
  /\ stmt' = [stmt EXCEPT ![c] = s]
  /\ execs' = [execs EXCEPT ![c] = @ + 1]
  /\ attempts' = [attempts EXCEPT ![c] = 1]
  /\ seen' = [seen EXCEPT ![c] = NULL]
  /\ outcome' = [outcome EXCEPT ![c] = "none"]
  /\ ResetState(c, -1)

(* Mutant: the query id is kept from the attribute until polling is over. *)
AssignQueryIdLate(c, q) ==
  /\ Goto(c, "callback")
  /\ attempts' = [attempts EXCEPT ![c] = 1]
  /\ UNCHANGED <<stmt, execs, seen, batch, total, affected, outcome, stateVars>>

(* The query id is known: assigned before any callback runs. *)
AssignQueryId(c, q) ==
  /\ query_id' = [query_id EXCEPT ![c] = q]
  /\ Goto(c, "callback")
  /\ attempts' = [attempts EXCEPT ![c] = 1]
  /\ UNCHANGED <<stmt, execs, seen, batch, total, affected, outcome,
                 result_set, open_rs, rowcount>>
------------------------------------------------------------------------------
(* The executing thread or coroutine.                                        *)

(* The user calls execute(). *)
Execute(c, s) ==
  /\ pc[c] = "idle"
  /\ EnterExecute(c, s)
  /\ UNCHANGED <<batch, total, affected, serviceVars, lateVars, cancelVars, interrupts>>

(* The user calls executemany() with n parameter sets. *)
ExecuteMany(c, n) ==
  /\ pc[c] = "idle"
  /\ execs[c] + n <= MaxExecs
  /\ Goto(c, "batch")
  /\ batch' = [batch EXCEPT ![c] = n]
  /\ total' = [total EXCEPT ![c] = 0]
  /\ affected' = [affected EXCEPT ![c] = <<>>]
  /\ outcome' = [outcome EXCEPT ![c] = "none"]
  /\ ResetState(c, -1)
  /\ UNCHANGED <<stmt, execs, attempts, seen, serviceVars, lateVars, cancelVars, interrupts>>

(* The loop of executemany() takes its next parameter set. *)
NextParameters(c, s) ==
  /\ pc[c] = "batch"
  /\ batch[c] \in 1..MaxBatch
  /\ batch' = [batch EXCEPT ![c] = @ - 1]
  /\ EnterExecute(c, s)
  /\ UNCHANGED <<total, affected, serviceVars, lateVars, cancelVars, interrupts>>

(* The loop is done: the result set is discarded, the sum becomes rowcount. *)
FinishBatch(c) ==
  /\ pc[c] = "batch"
  /\ batch[c] = 0
  /\ Goto(c, "idle")
  /\ batch' = [batch EXCEPT ![c] = NULL]
  /\ outcome' = [outcome EXCEPT ![c] = "ok"]
  /\ ResetState(c, total[c])
  /\ UNCHANGED <<stmt, execs, attempts, seen, total, affected,
                 serviceVars, lateVars, cancelVars, interrupts>>

(* Mutants: the lookup forgets to filter by state, or by statement. *)
ReusableInAnyState(c, q) == qreq[q] # NULL /\ qreq[q].stmt = stmt[c]
ReusableAnyStatement(c, q) == qstate[q] = "SUCCEEDED"

(* _find_previous_query_id finds a succeeded execution of this statement. *)
Reusable(c, q) == qstate[q] = "SUCCEEDED" /\ qreq[q].stmt = stmt[c]

LookupHit(c, q) ==
  /\ pc[c] = "lookup"
  /\ Reusable(c, q)
  /\ AssignQueryId(c, q)
  /\ UNCHANGED <<serviceVars, lateVars, cancelVars, interrupts>>

(* It finds none, is switched off, or swallows an error. *)
LookupMiss(c) ==
  /\ pc[c] = "lookup"
  /\ Goto(c, "start")
  /\ UNCHANGED <<stmt, execs, attempts, seen, batch, total, affected, outcome,
                 stateVars, serviceVars, lateVars, cancelVars, interrupts>>

(* start_query_execution answers with the new id. *)
StartAnswered(c, q) ==
  /\ pc[c] = "start"
  /\ Service!CreateQuery(q, ThisRequest(c))
  /\ AssignQueryId(c, q)
  /\ UNCHANGED <<lateVars, cancelVars, interrupts>>

(* Mutant: any error is retried, not only throttling. *)
StartAnswerLostRetried(c, q) ==
  /\ pc[c] = "start"
  /\ Service!CreateQuery(q, ThisRequest(c))
  /\ UNCHANGED <<callVars, stateVars, lateVars, cancelVars, interrupts>>

(* The query is created but the answer is lost: not a throttling code, so    *)
(* the call is not retried and execute() raises.                             *)
StartAnswerLost(c, q) ==
  /\ pc[c] = "start"
  /\ Service!CreateQuery(q, ThisRequest(c))
  /\ Fail(c)
  /\ UNCHANGED <<seen, lateVars, cancelVars, interrupts>>

(* The on_start_query_execution callbacks return. *)
CallbacksReturn(c) ==
  /\ pc[c] = "callback"
  /\ Goto(c, "poll")
  /\ UNCHANGED <<stmt, execs, attempts, seen, batch, total, affected, outcome,
                 stateVars, serviceVars, lateVars, cancelVars, interrupts>>

(* Mutant: __poll waits for SUCCEEDED or FAILED only. *)
FinishedNotCancelled == {"SUCCEEDED", "FAILED"}

(* The states that end __poll. *)
Finished == {"SUCCEEDED", "FAILED", "CANCELLED"}

(* One iteration of __poll: a live query is polled again after a pause, a    *)
(* succeeded one is collected, any other raises OperationalError.            *)
PollAnswered(c) ==
  /\ pc[c] \in {"poll", "repoll"}
  /\ seen' = [seen EXCEPT ![c] = qstate[query_id[c]]]
  /\ \/ /\ qstate[query_id[c]] \notin Finished
        /\ attempts' = [attempts EXCEPT ![c] = 1]
        /\ UNCHANGED <<pc, stmt, execs, batch, total, affected, outcome, stateVars>>
     \/ /\ qstate[query_id[c]] = "SUCCEEDED"
        /\ Goto(c, "collect")
        /\ attempts' = [attempts EXCEPT ![c] = 1]
        /\ UNCHANGED <<stmt, execs, batch, total, affected, outcome, stateVars>>
     \/ /\ qstate[query_id[c]] \in Finished \ {"SUCCEEDED"}
        /\ Fail(c)
  /\ UNCHANGED <<serviceVars, lateVars, cancelVars, interrupts>>

(* Mutant: the interrupt handler polls again without stopping the query. *)
KillNotSent(c) ==
  /\ pc[c] = "kill"
  /\ Goto(c, "repoll")
  /\ UNCHANGED <<stmt, execs, attempts, seen, batch, total, affected, outcome, stateVars,
                 serviceVars, lateVars, cancelVars, interrupts>>

(* The stop request of the interrupt handler is accepted; poll once more. *)
KillAnswered(c) ==
  /\ pc[c] = "kill"
  /\ Service!AcceptStop(query_id[c], c)
  /\ Goto(c, "repoll")
  /\ attempts' = [attempts EXCEPT ![c] = 1]
  /\ UNCHANGED <<stmt, execs, seen, batch, total, affected, outcome, stateVars,
                 lateVars, cancelVars, interrupts>>

(* Mutant: a known count after an unknown one is added to -1. *)
AddCountToUnknown(sum, count) == IF count >= 0 THEN sum + count ELSE -1

(* executemany()'s sum is -1 from the first unknown count on. *)
AddCount(sum, count) == IF sum >= 0 /\ count >= 0 THEN sum + count ELSE -1

(* The result set is built; executemany() adds its row count and goes on. *)
Collect(c, count) ==
  LET rs == [exec |-> execs[c], query |-> query_id[c], count |-> count] IN
  /\ pc[c] = "collect"
  /\ result_set' = [result_set EXCEPT ![c] = rs]
  /\ open_rs' = [open_rs EXCEPT ![c] = @ \cup {rs}]
  /\ IF batch[c] = NULL
     THEN /\ Goto(c, "idle")
          /\ outcome' = [outcome EXCEPT ![c] = "ok"]
          /\ UNCHANGED <<total, affected>>
     ELSE /\ Goto(c, "batch")
          /\ total' = [total EXCEPT ![c] = AddCount(@, count)]
          /\ affected' = [affected EXCEPT ![c] = Append(@, count)]
          /\ UNCHANGED outcome
  /\ UNCHANGED <<stmt, execs, attempts, seen, batch, query_id, rowcount,
                 serviceVars, lateVars, cancelVars, interrupts>>

(* Mutant: attempts counts the retries, not the calls. *)
AttemptsLeftOffByOne(c) == attempts[c] <= Attempts

AttemptsLeft(c) == attempts[c] < Attempts

(* retry_api_call: a throttled call is made again while attempts are left. *)
RetryApiCall(c) ==
  /\ pc[c] \in ApiCalls
  /\ AttemptsLeft(c)
  /\ attempts' = [attempts EXCEPT ![c] = @ + 1]
  /\ UNCHANGED <<pc, stmt, execs, seen, batch, total, affected, outcome, stateVars,
                 serviceVars, lateVars, cancelVars, interrupts>>

(* An exception ends the step: formatting the query, an API error that is    *)
(* not retried or outlasted its retries, a callback that raises, an error    *)
(* while the result set is read, an error in executemany()'s iterable.       *)
RaiseError(c) ==
  /\ pc[c] # "idle"
  /\ Fail(c)
  /\ UNCHANGED <<seen, serviceVars, lateVars, cancelVars, interrupts>>

(* The cursor is closed between calls: its result set is, its attributes stay. *)
Close(c) ==
  /\ pc[c] = "idle"
  /\ rowcount' = [rowcount EXCEPT ![c] = -1]
  /\ open_rs' = [open_rs EXCEPT ![c] = @ \ {result_set[c]}]
  /\ UNCHANGED <<callVars, query_id, result_set, serviceVars, lateVars, cancelVars, interrupts>>
------------------------------------------------------------------------------
(* Interrupts.                                                               *)

(* A request that was under way when its caller was interrupted. *)
LeaveBehind(c) ==
  /\ lateStarts' = IF pc[c] = "start" THEN lateStarts \cup {ThisRequest(c)} ELSE lateStarts
  /\ lateStops' = IF pc[c] = "kill" THEN lateStops \cup {<<query_id[c], c>>} ELSE lateStops

(* Only the first __poll() of _poll() is guarded by the interrupt handler. *)
Interrupted(c) ==
  /\ interrupts[c] < MaxInterrupts
  /\ interrupts' = [interrupts EXCEPT ![c] = @ + 1]
  /\ IF pc[c] = "poll" /\ c \in KillOnInterrupt
     THEN /\ Goto(c, "kill")
          /\ attempts' = [attempts EXCEPT ![c] = 1]
          /\ UNCHANGED <<stmt, execs, batch, total, affected, outcome, stateVars>>
     ELSE Fail(c)
  /\ UNCHANGED <<seen, serviceVars, cancelVars>>

(* Control-C in the thread of a Cursor: the request may or may not be out. *)
KeyboardInterrupt(c) ==
  /\ c \notin AioCursors
  /\ pc[c] # "idle"
  /\ Interrupted(c)
  /\ LeaveBehind(c) \/ UNCHANGED lateVars

(* task.cancel() reaches an AioCursor where it awaits; the worker thread     *)
(* that makes the API call goes on.                                          *)
TaskCancelled(c) ==
  /\ c \in AioCursors
  /\ pc[c] \in ApiCalls \cup {"lookup", "collect"}
  /\ Interrupted(c)
  /\ LeaveBehind(c)

LateStart(request, q) ==
  /\ request \in lateStarts
  /\ lateStarts' = lateStarts \ {request}
  /\ Service!CreateQuery(q, request)
  /\ UNCHANGED <<callVars, stateVars, lateStops, cancelVars, interrupts>>

LateStop(stop) ==
  /\ stop \in lateStops
  /\ lateStops' = lateStops \ {stop}
  /\ Service!AcceptStop(stop[1], stop[2])
  /\ UNCHANGED <<callVars, stateVars, lateStarts, cancelVars, interrupts>>
------------------------------------------------------------------------------
(* cancel(), called from another thread or task.                             *)

(* The query id is there; a task goes on without giving up the event loop. *)
CancelCheck(c) ==
  /\ cpc[c] = "idle"
  /\ query_id[c] # NULL
  /\ IF c \in AioCursors
     THEN /\ cpc' = [cpc EXCEPT ![c] = "sending"]
          /\ target' = [target EXCEPT ![c] = query_id[c]]
     ELSE /\ cpc' = [cpc EXCEPT ![c] = "checked"]
          /\ UNCHANGED target
  /\ UNCHANGED <<serviceVars, callVars, stateVars, lateVars, interrupts>>

(* A thread reads the attribute again; if execute() has reset it meanwhile   *)
(* the call is rejected before it is sent.                                   *)
CancelRead(c) ==
  /\ cpc[c] = "checked"
  /\ target' = [target EXCEPT ![c] = query_id[c]]
  /\ cpc' = [cpc EXCEPT ![c] = IF query_id[c] = NULL THEN "idle" ELSE "sending"]
  /\ UNCHANGED <<serviceVars, callVars, stateVars, lateVars, interrupts>>

CancelSend(c) ==
  /\ cpc[c] = "sending"
  /\ cpc' = [cpc EXCEPT ![c] = "idle"]
  /\ target' = [target EXCEPT ![c] = NULL]
  /\ Service!AcceptStop(target[c], c) \/ UNCHANGED serviceVars
  /\ UNCHANGED <<callVars, stateVars, lateVars, interrupts>>
------------------------------------------------------------------------------
ServiceStep ==
  /\ Service!ServiceNext
  /\ UNCHANGED <<callVars, stateVars, lateVars, cancelVars, interrupts>>

(* The steps of a call that goes well. *)
Answered(c) ==
  \/ \E q \in QueryIds : LookupHit(c, q) \/ StartAnswered(c, q)
  \/ LookupMiss(c) \/ CallbacksReturn(c) \/ PollAnswered(c) \/ KillAnswered(c)
  \/ \E count \in Counts : Collect(c, count)
  \/ \E s \in Statements : NextParameters(c, s)
  \/ FinishBatch(c)

Next ==
  \/ \E c \in Cursors :
       \/ \E s \in Statements : Execute(c, s)
       \/ \E n \in 0..MaxBatch : ExecuteMany(c, n)
       \/ Answered(c)
       \/ \E q \in QueryIds : StartAnswerLost(c, q)
       \/ RetryApiCall(c) \/ RaiseError(c) \/ Close(c)
       \/ KeyboardInterrupt(c) \/ TaskCancelled(c)
       \/ CancelCheck(c) \/ CancelRead(c) \/ CancelSend(c)
  \/ \E request \in lateStarts, q \in QueryIds : LateStart(request, q)
  \/ \E stop \in lateStops : LateStop(stop)
  \/ ServiceStep

Spec == Init /\ [][Next]_vars

(* A call in progress eventually gets an answer (or an error, which ends it  *)
(* too): retries are bounded and every AWS call has a timeout.  Athena       *)
(* cancels a query it accepted a stop request for.  Nothing makes a query    *)
(* that is not stopped end, and nobody is obliged to interrupt or cancel.    *)
Fairness ==
  /\ \A c \in Cursors : WF_vars(Answered(c))
  /\ Service!ServiceFairness

FairSpec == Spec /\ Fairness
------------------------------------------------------------------------------
(* Properties.                                                               *)

(* A cursor's result set belongs to its latest execute(), to the query its   *)
(* query_id names, and that query succeeded and ran the same statement: no   *)
(* rows of an earlier query, of a failed one or of another statement.        *)
ResultSetIsCurrent ==
  \A c \in Cursors :
    result_set[c] # NULL =>
      /\ result_set[c].exec = execs[c]
      /\ result_set[c].query = query_id[c]
      /\ qstate[query_id[c]] = "SUCCEEDED"
      /\ qreq[query_id[c]].stmt = stmt[c]

(* One execute() starts at most one query, whatever is throttled, lost or    *)
(* interrupted: a statement with side effects is never submitted twice.      *)
AtMostOneQueryPerExecute ==
  \A q1, q2 \in QueryIds :
    (qreq[q1] # NULL /\ qreq[q2] # NULL /\ q1 # q2) =>
      <<qreq[q1].by, qreq[q1].exec>> # <<qreq[q2].by, qreq[q2].exec>>

(* A live query can be cancelled: from the answer of the start call on,      *)
(* through callbacks, polling and the interrupt handler, and after an error  *)
(* or interrupt in any of these, query_id names the query of the latest      *)
(* execute().                                                                *)
LiveQueryIsNamed ==
  \A c \in Cursors, q \in QueryIds :
    /\ qstate[q] \in Service!Live
    /\ qreq[q].by = c /\ qreq[q].exec = execs[c]
    /\ pc[c] \in AfterStart \/ (pc[c] = "idle" /\ outcome[c] \in AfterStart)
    => query_id[c] = q

(* Neither the interrupt handler nor cancel() stops a query some other       *)
(* cursor is running, although query ids are shared through result reuse.    *)
StopsOwnQueriesOnly == \A q \in QueryIds : \A c \in stopreq[q] : qreq[q].by = c

(* Result sets are not leaked: the only one a cursor has open is the one     *)
(* the user can reach through it.                                            *)
NoResultSetLeaked == \A c \in Cursors : open_rs[c] \subseteq {result_set[c]}

SumOf(counts) ==
  LET partial[i \in 0..Len(counts)] == IF i = 0 THEN 0 ELSE partial[i - 1] + counts[i]
  IN partial[Len(counts)]

(* What a batch of these row counts reports: -1 if any of them is unknown.   *)
CountOf(counts) == IF \A i \in DOMAIN counts : counts[i] >= 0 THEN SumOf(counts) ELSE -1

(* executemany() reports the sum of the row counts, -1 if any of them is     *)
(* unknown; when it fails it reports -1 and leaves no result set, never the  *)
(* partial sum or the rows of the executions before.                         *)
BatchReportsSum ==
  [][\A c \in Cursors : (batch[c] # NULL /\ batch'[c] = NULL) =>
       /\ result_set'[c] = NULL
       /\ rowcount'[c] = IF outcome'[c] = "ok" THEN CountOf(affected[c]) ELSE -1]_vars

(* The inductive strengthening of the safety properties.                     *)

(* A request that is out: its execute() is over, or past its start call. *)
Spent(r) ==
  /\ r.exec <= execs[r.by]
  /\ r.exec = execs[r.by] => pc[r.by] \notin {"lookup", "start"}

RequestsAreSpent ==
  /\ \A q \in QueryIds : qstate[q] = "none" <=> qreq[q] = NULL
  /\ \A q \in QueryIds : qreq[q] # NULL => Spent(qreq[q])
  /\ \A r \in lateStarts : Spent(r)
  /\ \A r \in lateStarts, q \in QueryIds :
       qreq[q] # NULL => <<qreq[q].by, qreq[q].exec>> # <<r.by, r.exec>>
  /\ \A r1, r2 \in lateStarts : (r1.by = r2.by /\ r1.exec = r2.exec) => r1 = r2

(* The query a cursor names exists; while it is polled it is for this        *)
(* statement, and it is collected only after it succeeded.                   *)
QueryIsForCall ==
  \A c \in Cursors :
    /\ query_id[c] # NULL => qstate[query_id[c]] # "none"
    /\ pc[c] \in AfterStart => query_id[c] # NULL /\ qreq[query_id[c]].stmt = stmt[c]
    /\ pc[c] = "collect" => qstate[query_id[c]] = "SUCCEEDED"
    /\ pc[c] \notin {"idle", "batch"} => result_set[c] = NULL

(* A query id that is, or will be, sent in a stop request of c: a query of   *)
(* c, or one that is over.                                                   *)
OwnOrOver(q, c) == qreq[q].by = c \/ qstate[q] \in Service!Terminal

StopsAreAimed ==
  /\ \A c \in Cursors : query_id[c] # NULL => OwnOrOver(query_id[c], c)
  /\ \A c \in Cursors : cpc[c] = "sending" => target[c] # NULL
  /\ \A c \in Cursors :
       target[c] # NULL => qstate[target[c]] # "none" /\ OwnOrOver(target[c], c)
  /\ \A q \in QueryIds : qstate[q] = "none" => stopreq[q] = {}
  /\ \A stop \in lateStops : qstate[stop[1]] # "none" /\ OwnOrOver(stop[1], stop[2])

(* A result set is closed unless the cursor refers to it; none is open while *)
(* a statement is being executed.                                            *)
OnlyCurrentOpen ==
  \A c \in Cursors :
    /\ open_rs[c] \subseteq {result_set[c]}
    /\ pc[c] \notin {"idle", "batch"} => open_rs[c] = {}

(* The latest execute() got past its start call. *)
Started(c) == pc[c] \in AfterStart \/ (pc[c] = "idle" /\ outcome[c] \in AfterStart)

(* It made the request r. *)
MadeBy(r, c) == r.by = c /\ r.exec = execs[c]

(* A query it started is the one the cursor names; and then none is under    *)
(* way that it could start behind the cursor's back.                         *)
StartedIsNamed ==
  \A c \in Cursors : Started(c) =>
    /\ \A q \in QueryIds : (qreq[q] # NULL /\ MadeBy(qreq[q], c)) => query_id[c] = q
    /\ \A r \in lateStarts : ~MadeBy(r, c)

(* The running sum is what the executions so far would report.               *)
TotalIsSum == \A c \in Cursors : total[c] = CountOf(affected[c])

IInv ==
  /\ TypeOK
  /\ RequestsAreSpent /\ AtMostOneQueryPerExecute
  /\ QueryIsForCall /\ ResultSetIsCurrent
  /\ StopsAreAimed /\ StopsOwnQueriesOnly
  /\ OnlyCurrentOpen /\ StartedIsNamed

(* Once a stop request was accepted for the query a cursor polls, by its     *)
(* interrupt handler or by cancel(), execute() returns, even if the query    *)
(* would have run for ever.                                                  *)
PollingStopped(c) ==
  /\ pc[c] \in {"poll", "repoll"}
  /\ stopreq[query_id[c]] # {}

StopEndsExecute == \A c \in Cursors : PollingStopped(c) ~> pc[c] \in {"idle", "batch"}

(* With kill_on_interrupt an interrupt that reaches the poll loop ends       *)
(* execute(), even if the query would have run for ever.                     *)
InterruptEndsExecute == \A c \in Cursors : pc[c] = "kill" ~> pc[c] \in {"idle", "batch"}
==============================================================================
