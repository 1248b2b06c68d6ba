---------------------------- MODULE AsyncSparkCursor ---------------------------
(* An AsyncSparkCursor beside the other Spark cursors: its constructor is    *)
(* theirs and its session may be shared with them, but execute() only starts *)
(* the calculation; the polling, and every other call, goes to the cursor's  *)
(* own thread pool.  close() terminates the session and then shuts down the  *)
(* pool.                                                                     *)
EXTENDS SparkCursor, Sequences, FiniteSets

CONSTANTS
  Async,       \* the cursor that is an AsyncSparkCursor
  MaxWorkers,
  MaxCalls,    \* bound: calls of its execute()
  MaxTasks     \* bound: tasks submitted to the pool

(* It has an execute() of its own. *)
ASSUME AsyncAssumption ==
  /\ Async \in Cursors /\ MaxExecs[Async] = 0
  /\ MaxWorkers \in Nat \ {0} /\ MaxCalls \in Nat /\ MaxTasks \in Nat

VARIABLES
  new_calc,  \* execute()'s local calculation_id
  calls,     \* history: for each call of execute() whether it raised
  waiting,   \* close(wait=True) waits for the executor
  queue, working, shut_down,  \* the executor, see ThreadPool
  task,      \* the submitted tasks: kind and calculation
  future,    \* the state of each task's future, or the step its worker is at
  answer     \* the state in the calculation execution a task has fetched

Pool == INSTANCE ThreadPool WITH closed <- shut_down

poolVars == <<queue, working, shut_down>>
userVars == <<new_calc, calls, waiting>>
taskVars == <<task, future, answer>>
allVars == <<vars, userVars, poolVars, taskVars>>

Kinds == {"poll", "get", "cancel"}
Running == {"polling", "fetching", "getting", "stopping"}
Tasks == DOMAIN task

AsyncInit ==
  /\ Init /\ Pool!PoolInit
  /\ new_calc = NULL /\ calls = <<>> /\ waiting = FALSE
  /\ task = <<>> /\ future = <<>> /\ answer = <<>>
--------------------------------------------------------------------------------
(* The user's threads: one that executes and submits, one that closes. *)

Idle == pc[Async] = "ready" /\ new_calc = NULL

SubmitTask(kind, k) ==
  /\ Len(task) < MaxTasks
  /\ Pool!Submit(Len(task) + 1)
  /\ task' = Append(task, [kind |-> kind, calc |-> k])
  /\ future' = Append(future, "pending")
  /\ answer' = Append(answer, NULL)

(* execute(): _calculate on the user's thread, in the session of the cursor  *)
(* or in the one that is given.  The answer may be lost.                     *)
Calculate(k, s) ==
  /\ Idle /\ Len(calls) < MaxCalls
  /\ Spark!CreateCalc(k, s, [by |-> Async, exec |-> Len(calls) + 1])
  /\ \/ new_calc' = k /\ calls' = Append(calls, "ok")
     \/ UNCHANGED new_calc /\ calls' = Append(calls, "raised")
  /\ UNCHANGED <<waiting, poolVars, taskVars, pc, sessionVars, calcVars, execs, outcome,
                 interrupts, other, closed>>

(* Mutant: a closed cursor returns as if the polling were submitted. *)
SubmitPollIgnoringClose ==
  /\ new_calc # NULL
  /\ \/ SubmitTask("poll", new_calc)
     \/ shut_down /\ UNCHANGED <<poolVars, taskVars>>
  /\ new_calc' = NULL
  /\ UNCHANGED <<calls, waiting, vars>>

(* execute() returns a future; submit() raises on a closed executor, or an   *)
(* interrupt comes before it: the calculation runs, its id is lost.          *)
SubmitPoll ==
  /\ new_calc # NULL
  /\ \/ SubmitTask("poll", new_calc) /\ UNCHANGED calls
     \/ calls' = [calls EXCEPT ![Len(calls)] = "raised"] /\ UNCHANGED <<poolVars, taskVars>>
  /\ new_calc' = NULL
  /\ UNCHANGED <<waiting, vars>>

(* poll(), calculation_execution() and cancel() of a calculation execute()   *)
(* has returned; get_std_out() and get_std_error() are like the second.      *)
Submit(kind, k) ==
  /\ Idle
  /\ \E t \in Tasks : task[t].calc = k
  /\ SubmitTask(kind, k)
  /\ UNCHANGED <<userVars, vars>>

(* close(), once the session is terminated.  When that fails (OtherRaises)   *)
(* the executor goes on.                                                     *)
Shutdown(wait) ==
  /\ closed[Async] /\ ~shut_down
  /\ Pool!Shutdown
  /\ waiting' = wait
  /\ UNCHANGED <<new_calc, calls, taskVars, vars>>

CloseReturns ==
  /\ waiting
  /\ queue = <<>> /\ working = {}
  /\ waiting' = FALSE
  /\ UNCHANGED <<new_calc, calls, poolVars, taskVars, vars>>
--------------------------------------------------------------------------------
(* The worker threads, which no interrupt reaches. *)

FirstStep(kind) ==
  CASE kind = "poll" -> "polling" [] kind = "get" -> "getting" [] kind = "cancel" -> "stopping"

TakeTask(t) ==
  /\ Pool!Take(t)
  /\ future' = [future EXCEPT ![t] = FirstStep(task[t].kind)]
  /\ UNCHANGED <<task, answer, userVars, vars>>

Resolve(t, result, state) ==
  /\ Pool!Release(t)
  /\ future' = [future EXCEPT ![t] = result]
  /\ answer' = [answer EXCEPT ![t] = state]
  /\ UNCHANGED <<task, userVars>>

(* _poll: until the calculation is over, then its execution is fetched. *)
PollTask(t) ==
  /\ future[t] = "polling"
  /\ cstate[task[t].calc] \in Finished
  /\ future' = [future EXCEPT ![t] = "fetching"]
  /\ UNCHANGED <<task, answer, poolVars, userVars, vars>>

GetCalculationExecution(t) ==
  /\ future[t] \in {"fetching", "getting"}
  /\ Resolve(t, "done", cstate[task[t].calc])
  /\ UNCHANGED vars

StopCalculation(t) ==
  /\ future[t] = "stopping"
  /\ Spark!RequestStop(task[t].calc)
  /\ Resolve(t, "done", NULL)
  /\ UNCHANGED <<pc, sessionVars, calcVars, execs, outcome, interrupts, other, closed>>

TaskRaises(t) ==
  /\ future[t] \in Running
  /\ Resolve(t, "raised", NULL)
  /\ UNCHANGED vars

WorkerStep(t) ==
  TakeTask(t) \/ PollTask(t) \/ GetCalculationExecution(t) \/ StopCalculation(t)

(* A step of the constructor, of terminate_session, of another cursor or of  *)
(* the service.                                                              *)
CursorStep == Next /\ UNCHANGED <<userVars, poolVars, taskVars>>

AsyncNext ==
  \/ CursorStep
  \/ \E k \in CalcIds, s \in SessionIds : Calculate(k, s)
  \/ SubmitPoll \/ CloseReturns
  \/ \E kind \in Kinds, k \in CalcIds : Submit(kind, k)
  \/ \E wait \in BOOLEAN : Shutdown(wait)
  \/ \E t \in Tasks : WorkerStep(t) \/ TaskRaises(t)

(* The worker threads are scheduled, and a close() that waits wakes up. *)
AsyncSpec ==
  /\ AsyncInit /\ [][AsyncNext]_allVars
  /\ Fairness
  /\ \A t \in 1..MaxTasks : WF_allVars(t \in Tasks /\ WorkerStep(t))
  /\ WF_allVars(CloseReturns)
--------------------------------------------------------------------------------
(* Properties.                                                               *)

(* No calculation is dropped silently: one that execute() has started is in  *)
(* the hands of the call or of a submitted _poll, or the call has raised, be *)
(* it because the cursor was closed meanwhile; and a future of _poll that is *)
(* done has the final state of the very calculation it was submitted for.    *)
FuturesTell ==
  /\ \A k \in CalcIds : (creq[k] # NULL /\ creq[k].by = Async) =>
       \/ calls[creq[k].exec] = "raised"
       \/ new_calc = k
       \/ \E t \in Tasks : task[t] = [kind |-> "poll", calc |-> k]
  /\ \A t \in Tasks : (future[t] = "done" /\ task[t].kind = "poll") =>
       answer[t] \in Spark!FinalCalc /\ answer[t] = cstate[task[t].calc]

(* The inductive strengthening.  execute() of this cursor is not the one that *)
(* polls; every calculation it has created is there, one per call.           *)
AsyncTypeOK ==
  /\ new_calc \in CalcIds \cup {NULL}
  /\ calls \in Seq({"ok", "raised"}) /\ waiting \in BOOLEAN
  /\ task \in Seq([kind : Kinds, calc : CalcIds])
  /\ future \in [Tasks -> {"pending", "done", "raised"} \cup Running]
  /\ answer \in [Tasks -> {NULL} \cup Spark!LiveCalc \cup Spark!FinalCalc]
  /\ queue \in Seq(Tasks) /\ working \subseteq Tasks /\ shut_down \in BOOLEAN

CallsNumbered ==
  /\ pc[Async] \notin Executing
  /\ \A k \in CalcIds : creq[k] # NULL =>
       cstate[k] # "none" /\ (creq[k].by = Async => creq[k].exec \in 1..Len(calls))
  /\ new_calc # NULL => creq[new_calc] = [by |-> Async, exec |-> Len(calls)]

(* A task is about a calculation that was created, and at a step of its kind. *)
TaskInOrder(t) ==
  /\ cstate[task[t].calc] # "none"
  /\ future[t] \in {"polling", "fetching"} => task[t].kind = "poll"
  /\ future[t] = "getting" => task[t].kind = "get"
  /\ future[t] = "stopping" => task[t].kind = "cancel"
  /\ future[t] = "fetching" => cstate[task[t].calc] \in Spark!FinalCalc

AsyncIInv ==
  /\ IInv /\ AsyncTypeOK /\ CallsNumbered /\ FuturesTell
  /\ \A t \in Tasks : TaskInOrder(t)

(* close(wait=True) returns although calculations would run for ever: it has *)
(* terminated the session before it waits.  Not so if execute() was given    *)
(* another session, whose calculations go on.                                *)
OwnSessionOnly ==
  \A k \in CalcIds : creq[k] # NULL /\ creq[k].by = Async => csession[k] = session_id[Async]

CloseEnds ==
  (waiting /\ OwnSessionOnly /\ sstate[session_id[Async]] \in {"TERMINATING", "TERMINATED"})
    ~> (~waiting \/ ~OwnSessionOnly)

(* Terminating the session is the way out, for an execute() that polls as    *)
(* for a close() that waits.                                                 *)
CallsEnd == TerminationEndsExecute /\ CloseEnds
================================================================================
