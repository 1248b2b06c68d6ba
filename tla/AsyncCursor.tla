----------------------------- MODULE AsyncCursor ------------------------------
(* AsyncCursor: execute() starts a query on the caller's thread and hands    *)
(* its polling to the cursor's own thread pool, and so do poll(),            *)
(* description(), query_execution() and cancel().  The pool is bounded and   *)
(* shared by all of them.  Worker threads are never interrupted: a           *)
(* KeyboardInterrupt is raised in the user's thread only.                    *)
EXTENDS Naturals, Sequences, FiniteSets

CONSTANTS
  QueryIds, Statements, NULL,
  MaxWorkers,   \* the cursor's max_workers
  MaxExecs,     \* bound: calls of execute()
  MaxTasks      \* bound: tasks submitted to the pool

ASSUME ConstantsAssumption ==
  /\ MaxWorkers \in Nat \ {0}
  /\ MaxExecs \in Nat /\ MaxTasks \in Nat
  /\ NULL \notin QueryIds \cup [exec : 0..MaxExecs, stmt : Statements]

VARIABLES
  qstate, qreq, stopreq,   \* Athena, see AthenaService
  queue, working, closed,  \* the executor, see ThreadPool
  upc,      \* where the user's thread is
  stmt,     \* the statement it is executing
  execs,    \* how many times it entered execute()
  query_id, \* execute()'s local query_id
  raised,   \* history: the calls of execute() that raised
  task,     \* the submitted tasks in submission order: kind and query
  future,   \* state of each task's future, or the step its worker is at
  answer    \* the query state a task's outcome was made from

Service == INSTANCE AthenaService WITH Callers <- 1..MaxTasks
Pool == INSTANCE ThreadPool

serviceVars == <<qstate, qreq, stopreq>>
poolVars == <<queue, working, closed>>
userVars == <<upc, stmt, execs, query_id, raised>>
taskVars == <<task, future, answer>>
vars == <<serviceVars, poolVars, userVars, taskVars>>

Kinds == {"collect", "poll", "description", "query_execution", "cancel"}
Running == {"polling", "building", "getting", "stopping"}
Resolved == {"done", "raised", "cancelled"}
Request == [exec : 0..MaxExecs, stmt : Statements]
Tasks == DOMAIN task

TypeOK ==
  /\ qstate \in [QueryIds -> {"none"} \cup Service!Live \cup Service!Terminal]
  /\ qreq \in [QueryIds -> Request \cup {NULL}]
  /\ stopreq \in [QueryIds -> SUBSET Tasks]
  /\ queue \in Seq(Tasks) /\ working \subseteq Tasks /\ closed \in BOOLEAN
  /\ upc \in {"idle", "lookup", "start", "submit", "closing"}
  /\ stmt \in Statements /\ execs \in 0..MaxExecs
  /\ query_id \in QueryIds \cup {NULL}
  /\ raised \subseteq 1..MaxExecs
  /\ Len(task) <= MaxTasks
  /\ task \in Seq([kind : Kinds, query : QueryIds])
  /\ future \in [Tasks -> {"pending"} \cup Running \cup Resolved]
  /\ answer \in [Tasks -> Service!Live \cup Service!Terminal \cup {NULL}]
  /\ Cardinality(working) <= MaxWorkers
  /\ working = {t \in Tasks : future[t] \in Running}
  /\ {queue[i] : i \in DOMAIN queue} = {t \in Tasks : future[t] = "pending"}

Init ==
  /\ Service!ServiceInit
  /\ Pool!PoolInit
  /\ upc = "idle" /\ stmt \in Statements /\ execs = 0
  /\ query_id = NULL /\ raised = {}
  /\ task = <<>> /\ future = <<>> /\ answer = <<>>
-------------------------------------------------------------------------------
(* The user's thread.                                                        *)

(* executor.submit: a new task at the end of the queue, its future pending. *)
SubmitTask(kind, q) ==
  /\ Len(task) < MaxTasks
  /\ Pool!Submit(Len(task) + 1)
  /\ task' = Append(task, [kind |-> kind, query |-> q])
  /\ future' = Append(future, "pending")
  /\ answer' = Append(answer, NULL)

Execute(s) ==
  /\ upc = "idle" /\ execs < MaxExecs
  /\ upc' = "lookup"
  /\ stmt' = s
  /\ execs' = execs + 1
  /\ query_id' = NULL
  /\ UNCHANGED <<raised, serviceVars, poolVars, taskVars>>

(* An exception or an interrupt ends the call; an id it holds is lost. *)
RaiseInUser ==
  /\ upc' = "idle"
  /\ raised' = raised \cup {execs}
  /\ query_id' = NULL
  /\ UNCHANGED <<stmt, execs>>

LookupHit(q) ==
  /\ upc = "lookup"
  /\ qstate[q] = "SUCCEEDED" /\ qreq[q].stmt = stmt
  /\ upc' = "submit"
  /\ query_id' = q
  /\ UNCHANGED <<stmt, execs, raised, serviceVars, poolVars, taskVars>>

LookupMiss ==
  /\ upc = "lookup"
  /\ upc' = "start"
  /\ UNCHANGED <<stmt, execs, query_id, raised, serviceVars, poolVars, taskVars>>

(* The query is started on the user's thread, before anything is submitted. *)
StartAnswered(q) ==
  /\ upc = "start"
  /\ Service!CreateQuery(q, [exec |-> execs, stmt |-> stmt])
  /\ upc' = "submit"
  /\ query_id' = q
  /\ UNCHANGED <<stmt, execs, raised, poolVars, taskVars>>

(* The query is created, but the answer is lost or the user interrupts. *)
StartAnswerLost(q) ==
  /\ upc = "start"
  /\ Service!CreateQuery(q, [exec |-> execs, stmt |-> stmt])
  /\ RaiseInUser
  /\ UNCHANGED <<poolVars, taskVars>>

(* execute() fails or is interrupted before or after the start call. *)
ExecuteRaises ==
  /\ upc \in {"lookup", "start", "submit"}
  /\ RaiseInUser
  /\ UNCHANGED <<serviceVars, poolVars, taskVars>>

(* Mutant: a closed cursor hands out a future no worker will ever resolve. *)
SubmitCollectorIgnoringClose ==
  /\ upc = "submit"
  /\ upc' = "idle"
  /\ query_id' = NULL
  /\ \/ SubmitTask("collect", query_id)
     \/ closed /\ UNCHANGED <<taskVars, poolVars>>
  /\ UNCHANGED <<stmt, execs, raised, serviceVars>>

(* execute() submits the polling and returns (query_id, future); on a closed *)
(* executor submit() raises although the query has been started.             *)
SubmitCollector ==
  /\ upc = "submit"
  /\ \/ /\ SubmitTask("collect", query_id)
        /\ upc' = "idle"
        /\ query_id' = NULL
        /\ UNCHANGED <<stmt, execs, raised>>
     \/ /\ closed
        /\ RaiseInUser
        /\ UNCHANGED <<taskVars, poolVars>>
  /\ UNCHANGED serviceVars

(* poll(), description(), query_execution(), cancel() of a query the user    *)
(* was given the id of; on a closed executor they raise and change nothing.  *)
Submit(kind, q) ==
  /\ upc = "idle"
  /\ \E t \in Tasks : task[t] = [kind |-> "collect", query |-> q]
  /\ SubmitTask(kind, q)
  /\ UNCHANGED <<userVars, serviceVars>>

(* Future.cancel() on a future that is still pending. *)
CancelFuture(t) ==
  /\ upc = "idle"
  /\ future[t] = "pending"
  /\ Pool!Withdraw(t)
  /\ future' = [future EXCEPT ![t] = "cancelled"]
  /\ UNCHANGED <<task, answer, userVars, serviceVars>>

(* close(wait): with wait the call blocks until every task is resolved. *)
Close(wait) ==
  /\ upc = "idle"
  /\ Pool!Shutdown
  /\ upc' = IF wait THEN "closing" ELSE "idle"
  /\ UNCHANGED <<stmt, execs, query_id, raised, serviceVars, taskVars>>

CloseReturns ==
  /\ upc = "closing"
  /\ queue = <<>> /\ working = {}
  /\ upc' = "idle"
  /\ UNCHANGED <<stmt, execs, query_id, raised, serviceVars, poolVars, taskVars>>
-------------------------------------------------------------------------------
(* The worker threads.                                                       *)

FirstStep(kind) ==
  CASE kind \in {"collect", "poll", "description"} -> "polling"
    [] kind = "query_execution" -> "getting"
    [] kind = "cancel" -> "stopping"

TakeTask(t) ==
  /\ Pool!Take(t)
  /\ future' = [future EXCEPT ![t] = FirstStep(task[t].kind)]
  /\ UNCHANGED <<task, answer, userVars, serviceVars>>

(* Task t ends with its future in state outcome, made from query state a. *)
Resolve(t, outcome, a) ==
  /\ Pool!Release(t)
  /\ future' = [future EXCEPT ![t] = outcome]
  /\ answer' = [answer EXCEPT ![t] = a]

(* Mutants: the poll loop ends once the query runs, misses CANCELLED, or     *)
(* misses FAILED.                                                            *)
FinishedWhenRunning == {"RUNNING", "SUCCEEDED", "FAILED", "CANCELLED"}
FinishedNotCancelled == {"SUCCEEDED", "FAILED"}
FinishedNotFailed == {"SUCCEEDED", "CANCELLED"}

(* The states that end the poll loop. *)
Finished == {"SUCCEEDED", "FAILED", "CANCELLED"}

(* One iteration of _poll: a worker polls until the query is over, whatever  *)
(* its final state; poll() is done then, the others build a result set.      *)
PollIteration(t) ==
  LET state == qstate[task[t].query] IN
  /\ future[t] = "polling"
  /\ state \in Finished
  /\ IF task[t].kind = "poll"
     THEN Resolve(t, "done", state)
     ELSE /\ future' = [future EXCEPT ![t] = "building"]
          /\ answer' = [answer EXCEPT ![t] = state]
          /\ UNCHANGED poolVars
  /\ UNCHANGED <<task, userVars, serviceVars>>

(* The result set (or its description) is made, also of a failed or          *)
(* cancelled query: the caller has to look at its state.                     *)
BuildResultSet(t) ==
  /\ future[t] = "building"
  /\ Resolve(t, "done", answer[t])
  /\ UNCHANGED <<task, userVars, serviceVars>>

GetQueryExecution(t) ==
  /\ future[t] = "getting"
  /\ Resolve(t, "done", qstate[task[t].query])
  /\ UNCHANGED <<task, userVars, serviceVars>>

(* Mutant: the future of cancel() resolves without the stop request. *)
StopNotSent(t) ==
  /\ future[t] = "stopping"
  /\ Resolve(t, "done", NULL)
  /\ UNCHANGED <<task, userVars, serviceVars>>

StopQuery(t) ==
  /\ future[t] = "stopping"
  /\ Service!AcceptStop(task[t].query, t)
  /\ Resolve(t, "done", NULL)
  /\ UNCHANGED <<task, userVars>>

(* An API call fails for good, or an on_poll callback raises: the exception  *)
(* is kept in the future.                                                    *)
TaskRaises(t) ==
  /\ future[t] \in Running
  /\ Resolve(t, "raised", NULL)
  /\ UNCHANGED <<task, userVars, serviceVars>>

WorkerStep(t) ==
  \/ TakeTask(t) \/ PollIteration(t) \/ BuildResultSet(t)
  \/ GetQueryExecution(t) \/ StopQuery(t)

ServiceStep ==
  /\ Service!ServiceNext
  /\ UNCHANGED <<poolVars, userVars, taskVars>>

Next ==
  \/ \E s \in Statements : Execute(s)
  \/ \E q \in QueryIds : LookupHit(q) \/ StartAnswered(q) \/ StartAnswerLost(q)
  \/ LookupMiss \/ ExecuteRaises \/ SubmitCollector \/ CloseReturns
  \/ \E kind \in Kinds \ {"collect"}, q \in QueryIds : Submit(kind, q)
  \/ \E wait \in BOOLEAN : Close(wait)
  \/ \E t \in Tasks : CancelFuture(t) \/ WorkerStep(t) \/ TaskRaises(t)
  \/ ServiceStep

Spec == Init /\ [][Next]_vars

(* The worker threads are scheduled, a blocked close() wakes up when its     *)
(* workers are gone, and Athena cancels the queries it was asked to stop.    *)
Fairness ==
  /\ \A t \in 1..MaxTasks : WF_vars(t \in Tasks /\ WorkerStep(t))
  /\ WF_vars(CloseReturns)
  /\ Service!ServiceFairness

FairSpec == Spec /\ Fairness
-------------------------------------------------------------------------------
(* Properties.                                                               *)

(* A future of execute(), description() or poll() that is done was made from *)
(* the final state of the very query it was submitted for, never from an     *)
(* intermediate one, although many tasks share the workers.                  *)
FutureShowsFinalState ==
  \A t \in Tasks :
    (future[t] = "done" /\ task[t].kind \in {"collect", "poll", "description"}) =>
      /\ answer[t] \in Service!Terminal
      /\ answer[t] = qstate[task[t].query]

(* No query is dropped silently: a query execute() has started is in the     *)
(* hands of the call, or of a submitted collector, or the call has raised,   *)
(* be it because the cursor was closed meanwhile.                            *)
OrphansAreReported ==
  \A q \in QueryIds : qreq[q] # NULL =>
    \/ qreq[q].exec \in raised
    \/ upc = "submit" /\ query_id = q
    \/ \E t \in Tasks : task[t] = [kind |-> "collect", query |-> q]

(* The inductive strengthening.  execute() holds the query it submits the    *)
(* polling of, and names itself in the request if it has started it.         *)
CallHoldsQuery ==
  /\ upc \in {"lookup", "start", "submit"} => execs >= 1
  /\ upc = "submit" => query_id \in QueryIds /\ qstate[query_id] # "none"

Accounted ==
  \A q \in QueryIds : qreq[q] # NULL =>
    \/ qreq[q].exec \in raised
    \/ upc = "submit" /\ query_id = q /\ qreq[q].exec = execs
    \/ \E t \in Tasks : task[t] = [kind |-> "collect", query |-> q]

(* A worker is at a step of its task's kind, and builds a result set of a    *)
(* query that is over.                                                       *)
TaskInOrder(t) ==
  /\ qstate[task[t].query] # "none"
  /\ future[t] = "polling" => task[t].kind \in {"collect", "poll", "description"}
  /\ future[t] = "getting" => task[t].kind = "query_execution"
  /\ future[t] = "stopping" => task[t].kind = "cancel"
  /\ future[t] = "building" =>
       answer[t] \in Service!Terminal /\ answer[t] = qstate[task[t].query]

(* A task is queued once. *)
QueuedOnce == \A i, j \in 1..Len(queue) : queue[i] = queue[j] => i = j

IInv ==
  /\ TypeOK /\ FutureShowsFinalState /\ QueuedOnce
  /\ CallHoldsQuery /\ Accounted /\ \A t \in Tasks : TaskInOrder(t)

(* close(wait=True) returns if the queries end, whatever else is queued.     *)
QueriesEnd == \A q \in QueryIds : <>[](qstate[q] \notin Service!Live)
CloseEnds == QueriesEnd => (upc = "closing" ~> upc = "idle")

CancelPending(t) ==
  /\ t \in Tasks
  /\ task[t].kind = "cancel"
  /\ future[t] \in {"pending", "stopping"}

(* The future of cancel() resolves if, from some time on, fewer unresolved   *)
(* tasks poll live queries than there are workers.  More is not promised:    *)
(* the stop request waits in the pool the pollers occupy.                    *)
Blocking ==
  {t \in Tasks : /\ task[t].kind \in {"collect", "poll", "description"}
                 /\ future[t] \in {"pending", "polling"}
                 /\ qstate[task[t].query] \in Service!Live}

CancelServed ==
  <>[](Cardinality(Blocking) < MaxWorkers) =>
    \A t \in 1..MaxTasks : CancelPending(t) ~> ~CancelPending(t)

(* Once the future of cancel() is done the query does not stay live for ever *)
(* even if it would have run for ever: the stop request has reached Athena.  *)
CancelTakesEffect ==
  \A t \in 1..MaxTasks, q \in QueryIds :
    (t \in Tasks /\ task[t] = [kind |-> "cancel", query |-> q] /\ future[t] = "done")
      ~> qstate[q] \notin Service!Live
===============================================================================
