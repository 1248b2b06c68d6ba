------------------------------ MODULE SparkCursor ------------------------------
(* SparkCursor and AioSparkCursor: the constructor starts a Spark session or *)
(* attaches to an existing one and waits until it is idle; execute() runs    *)
(* one calculation in it and polls; close() terminates the session.  Another *)
(* thread or task may call cancel() or close() meanwhile.                    *)
EXTENDS Naturals

CONSTANTS
  SessionIds, CalcIds, NULL,
  Cursors,
  Crowds,           \* the sets of cursors that may be created together
  KillOnInterrupt,  \* the cursors created with kill_on_interrupt=True
  MaxExecs,         \* bound: how often each cursor calls execute()
  MaxInterrupts     \* bound: interrupts per cursor

ASSUME ConstantsAssumption ==
  /\ Crowds \subseteq SUBSET Cursors /\ KillOnInterrupt \subseteq Cursors
  /\ MaxExecs \in [Cursors -> Nat] /\ MaxInterrupts \in Nat
  /\ NULL \notin SessionIds \cup CalcIds \cup [by : Cursors, exec : Nat]

VARIABLES
  sstate, cstate, csession, creq,  \* Athena for Spark, see AthenaSpark
  pc,              \* where each cursor's constructor or execute() is
  session_id,      \* the session of the cursor
  started,         \* history: the sessions its constructor has started
  calculation_id,  \* SparkCursor.calculation_id
  calculation_execution, \* id and state of SparkCursor.calculation_execution
  execs,           \* how many times execute() was entered
  outcome,         \* history: how the last call ended
  interrupts,      \* history: interrupts received
  other,           \* the call of another thread or task: "close", or cancel()
                   \* as the calculation id it has read
  closed           \* history: a close() of the cursor has returned

Spark == INSTANCE AthenaSpark

sparkVars == <<sstate, cstate, csession, creq>>
sessionVars == <<session_id, started>>
calcVars == <<calculation_id, calculation_execution>>
vars == <<sparkVars, pc, sessionVars, calcVars, execs, outcome, interrupts, other, closed>>

Constructing == {"start_session", "get_session", "wait"}
Polling == {"poll", "fetch", "repoll", "refetch"}
Executing == {"calculate", "kill", "stderr"} \cup Polling
Execution == [calc : CalcIds, state : Spark!FinalCalc]

TypeOK ==
  /\ sstate \in [SessionIds -> Spark!SessionStates]
  /\ cstate \in [CalcIds -> {"none"} \cup Spark!LiveCalc \cup Spark!FinalCalc]
  /\ csession \in [CalcIds -> SessionIds \cup {NULL}]
  /\ creq \in [CalcIds -> [by : Cursors, exec : Nat] \cup {NULL}]
  /\ pc \in [Cursors -> {"new", "ready", "gone"} \cup Constructing \cup Executing]
  /\ session_id \in [Cursors -> SessionIds \cup {NULL}]
  /\ started \in [Cursors -> SUBSET SessionIds]
  /\ calculation_id \in [Cursors -> CalcIds \cup {NULL}]
  /\ calculation_execution \in [Cursors -> Execution \cup {NULL}]
  /\ execs \in [Cursors -> Nat] /\ \A c \in Cursors : execs[c] <= MaxExecs[c]
  /\ outcome \in [Cursors -> {"none", "ok", "raised"}]
  /\ interrupts \in [Cursors -> 0..MaxInterrupts]
  /\ other \in [Cursors -> {"idle", "close"} \cup CalcIds]
  /\ closed \in [Cursors -> BOOLEAN]

Init ==
  /\ Spark!SparkInit
  /\ \E crowd \in Crowds : pc = [c \in Cursors |-> IF c \in crowd THEN "new" ELSE "gone"]
  /\ session_id = [c \in Cursors |-> NULL]
  /\ started = [c \in Cursors |-> {}]
  /\ calculation_id = [c \in Cursors |-> NULL]
  /\ calculation_execution = [c \in Cursors |-> NULL]
  /\ execs = [c \in Cursors |-> 0]
  /\ outcome = [c \in Cursors |-> "none"]
  /\ interrupts = [c \in Cursors |-> 0]
  /\ other = [c \in Cursors |-> "idle"]
  /\ closed = [c \in Cursors |-> FALSE]
--------------------------------------------------------------------------------
Goto(c, label) == pc' = [pc EXCEPT ![c] = label]
ThisRequest(c) == [by |-> c, exec |-> execs[c]]

(* The constructor, without a session id or with one. *)
New(c) ==
  /\ pc[c] = "new"
  /\ Goto(c, "start_session")
  /\ UNCHANGED <<sparkVars, sessionVars, calcVars, execs, outcome, interrupts, other, closed>>

NewAttached(c, s) ==
  /\ pc[c] = "new"
  /\ Goto(c, "get_session")
  /\ session_id' = [session_id EXCEPT ![c] = s]
  /\ UNCHANGED <<sparkVars, started, calcVars, execs, outcome, interrupts, other, closed>>

(* start_session is accepted, and answered unless the answer is lost.  The   *)
(* id is a local variable of the constructor until it returns.               *)
StartSession(c, s) ==
  /\ pc[c] = "start_session"
  /\ Spark!CreateSession(s)
  /\ started' = [started EXCEPT ![c] = @ \cup {s}]
  /\ \/ Goto(c, "wait") /\ session_id' = [session_id EXCEPT ![c] = s]
     \/ Goto(c, "gone") /\ UNCHANGED session_id
  /\ UNCHANGED <<calcVars, execs, outcome, interrupts, other, closed>>

(* get_session knows the session, in whatever state it is. *)
GetSession(c) ==
  /\ pc[c] = "get_session"
  /\ sstate[session_id[c]] # "none"
  /\ Goto(c, "wait")
  /\ UNCHANGED <<sparkVars, sessionVars, calcVars, execs, outcome, interrupts, other, closed>>

(* _wait_for_idle_session: an iteration that finds the session idle ends the *)
(* constructor.  In any other state the loop goes on, TERMINATED, DEGRADED   *)
(* and FAILED included: the code compares the status object, not its state,  *)
(* with these names, and they are never equal.                               *)
SessionIsIdle(c) ==
  /\ pc[c] = "wait"
  /\ sstate[session_id[c]] = "IDLE"
  /\ Goto(c, "ready")
  /\ UNCHANGED <<sparkVars, sessionVars, calcVars, execs, outcome, interrupts, other, closed>>

(* An error or an interrupt leaves the constructor: there is no cursor, and  *)
(* nobody terminates a session it has started.                               *)
ConstructorRaises(c) ==
  /\ pc[c] \in Constructing
  /\ Goto(c, "gone")
  /\ UNCHANGED <<sparkVars, sessionVars, calcVars, execs, outcome, interrupts, other, closed>>
--------------------------------------------------------------------------------
(* execute() changes none of the attributes before the calculation is there. *)
Execute(c) ==
  /\ pc[c] = "ready" /\ execs[c] < MaxExecs[c]
  /\ Goto(c, "calculate")
  /\ execs' = [execs EXCEPT ![c] = @ + 1]
  /\ outcome' = [outcome EXCEPT ![c] = "none"]
  /\ UNCHANGED <<sparkVars, sessionVars, calcVars, interrupts, other, closed>>

(* An exception leaves execute(): the attributes stay as they are, those of  *)
(* an earlier calculation included.                                          *)
Fail(c) ==
  /\ Goto(c, "ready")
  /\ outcome' = [outcome EXCEPT ![c] = "raised"]

StartCalculation(c, k) ==
  /\ pc[c] = "calculate"
  /\ Spark!CreateCalc(k, session_id[c], ThisRequest(c))
  /\ \/ /\ Goto(c, "poll")
        /\ calculation_id' = [calculation_id EXCEPT ![c] = k]
        /\ UNCHANGED outcome
     \/ Fail(c) /\ UNCHANGED calculation_id
  /\ UNCHANGED <<sessionVars, calculation_execution, execs, interrupts, other, closed>>

(* Mutant: __poll does not know CANCELED. *)
FinishedNotCanceled == {"COMPLETED", "FAILED"}

(* The states that end __poll. *)
Finished == {"COMPLETED", "FAILED", "CANCELED"}

PollAnswered(c) ==
  /\ pc[c] \in {"poll", "repoll"}
  /\ cstate[calculation_id[c]] \in Finished
  /\ Goto(c, IF pc[c] = "poll" THEN "fetch" ELSE "refetch")
  /\ UNCHANGED <<sparkVars, sessionVars, calcVars, execs, outcome, interrupts, other, closed>>

(* Mutant: the outcome is not looked at. *)
FetchIgnoresState(c) ==
  /\ pc[c] \in {"fetch", "refetch"}
  /\ calculation_execution' = [calculation_execution EXCEPT
       ![c] = [calc |-> calculation_id[c], state |-> cstate[calculation_id[c]]]]
  /\ Goto(c, "ready") /\ outcome' = [outcome EXCEPT ![c] = "ok"]
  /\ UNCHANGED <<sparkVars, sessionVars, calculation_id, execs, interrupts, other, closed>>

(* The calculation execution is kept; execute() returns if it completed,     *)
(* otherwise the standard error is read and raised.                          *)
FetchAnswered(c) ==
  LET state == cstate[calculation_id[c]] IN
  /\ pc[c] \in {"fetch", "refetch"}
  /\ calculation_execution' = [calculation_execution EXCEPT
       ![c] = [calc |-> calculation_id[c], state |-> state]]
  /\ IF state = "COMPLETED"
     THEN Goto(c, "ready") /\ outcome' = [outcome EXCEPT ![c] = "ok"]
     ELSE Goto(c, "stderr") /\ UNCHANGED outcome
  /\ UNCHANGED <<sparkVars, sessionVars, calculation_id, execs, interrupts, other, closed>>

StdErrorRead(c) ==
  /\ pc[c] = "stderr"
  /\ Fail(c)
  /\ UNCHANGED <<sparkVars, sessionVars, calcVars, execs, interrupts, other, closed>>

(* KeyboardInterrupt or CancelledError: handled in the first __poll only. *)
Interrupt(c) ==
  /\ pc[c] \in Executing /\ interrupts[c] < MaxInterrupts
  /\ interrupts' = [interrupts EXCEPT ![c] = @ + 1]
  /\ IF pc[c] \in {"poll", "fetch"} /\ c \in KillOnInterrupt
     THEN Goto(c, "kill") /\ UNCHANGED outcome
     ELSE Fail(c)
  /\ UNCHANGED <<sparkVars, sessionVars, calcVars, execs, other, closed>>

KillAnswered(c) ==
  /\ pc[c] = "kill"
  /\ Spark!RequestStop(calculation_id[c])
  /\ Goto(c, "repoll")
  /\ UNCHANGED <<sessionVars, calcVars, execs, outcome, interrupts, other, closed>>

(* An API call fails for good, or an on_poll callback raises. *)
RaiseError(c) ==
  /\ pc[c] \in Executing
  /\ Fail(c)
  /\ UNCHANGED <<sparkVars, sessionVars, calcVars, execs, interrupts, other, closed>>
--------------------------------------------------------------------------------
(* cancel() and close() are called between executions or from elsewhere. *)
HasCursor(c) == pc[c] \in {"ready"} \cup Executing

Cancel(c) ==
  /\ HasCursor(c) /\ other[c] = "idle"
  /\ calculation_id[c] # NULL
  /\ other' = [other EXCEPT ![c] = calculation_id[c]]
  /\ UNCHANGED <<sparkVars, pc, sessionVars, calcVars, execs, outcome, interrupts, closed>>

Close(c) ==
  /\ HasCursor(c) /\ other[c] = "idle"
  /\ other' = [other EXCEPT ![c] = "close"]
  /\ UNCHANGED <<sparkVars, pc, sessionVars, calcVars, execs, outcome, interrupts, closed>>

(* The request carries the id read before; execute() may have moved on.      *)
CancelAnswered(c) ==
  /\ other[c] \in CalcIds
  /\ Spark!RequestStop(other[c])
  /\ other' = [other EXCEPT ![c] = "idle"]
  /\ UNCHANGED <<pc, sessionVars, calcVars, execs, outcome, interrupts, closed>>

(* Mutant: close() only leaves the session to its idle timeout. *)
CloseKeepsSession(c) ==
  /\ other[c] = "close"
  /\ other' = [other EXCEPT ![c] = "idle"]
  /\ closed' = [closed EXCEPT ![c] = TRUE]
  /\ UNCHANGED <<sparkVars, pc, sessionVars, calcVars, execs, outcome, interrupts>>

CloseAnswered(c) ==
  /\ other[c] = "close"
  /\ Spark!RequestTermination(session_id[c])
  /\ other' = [other EXCEPT ![c] = "idle"]
  /\ closed' = [closed EXCEPT ![c] = TRUE]
  /\ UNCHANGED <<pc, sessionVars, calcVars, execs, outcome, interrupts>>

(* stop_calculation_execution or terminate_session fails for good. *)
OtherRaises(c) ==
  /\ other[c] # "idle"
  /\ other' = [other EXCEPT ![c] = "idle"]
  /\ UNCHANGED <<sparkVars, pc, sessionVars, calcVars, execs, outcome, interrupts, closed>>
--------------------------------------------------------------------------------
Answered(c) ==
  \/ GetSession(c) \/ SessionIsIdle(c)
  \/ PollAnswered(c) \/ FetchAnswered(c) \/ StdErrorRead(c) \/ KillAnswered(c)

ServiceStep ==
  /\ Spark!SparkNext
  /\ UNCHANGED <<pc, sessionVars, calcVars, execs, outcome, interrupts, other, closed>>

Next ==
  \/ \E c \in Cursors :
       \/ New(c) \/ ConstructorRaises(c)
       \/ \E s \in SessionIds : NewAttached(c, s) \/ StartSession(c, s)
       \/ Execute(c) \/ \E k \in CalcIds : StartCalculation(c, k)
       \/ Answered(c) \/ Interrupt(c) \/ RaiseError(c)
       \/ Cancel(c) \/ Close(c) \/ CancelAnswered(c) \/ CloseAnswered(c) \/ OtherRaises(c)
  \/ ServiceStep

Spec == Init /\ [][Next]_vars

(* A call that is polling or waiting goes on; termination completes.         *)
Fairness ==
  /\ \A c \in Cursors : WF_vars(Answered(c))
  /\ Spark!SparkFairness

FairSpec == Spec /\ Fairness
--------------------------------------------------------------------------------
(* Properties.                                                               *)

(* When execute() has returned, calculation_execution is that of the         *)
(* calculation this very execute() started, and it completed: not an earlier *)
(* one, although the attributes survive failed calls.                        *)
ReturnedMeansCompleted ==
  \A c \in Cursors : outcome[c] = "ok" =>
    /\ calculation_execution[c] = [calc |-> calculation_id[c], state |-> "COMPLETED"]
    /\ creq[calculation_id[c]] = ThisRequest(c)
    /\ cstate[calculation_id[c]] = "COMPLETED"

(* Sessions cost money while they live.  One a constructor has started is    *)
(* the session of its cursor, unless the constructor raised, and no longer   *)
(* lives on once a close() of the cursor has returned.                       *)
SessionsAreOwned ==
  \A c \in Cursors : \A s \in started[c] :
    /\ pc[c] # "gone" => session_id[c] = s
    /\ closed[c] => sstate[s] \notin Spark!LiveSession

(* The inductive strengthening: who has a session, and that sessions that     *)
(* were started do not vanish.                                               *)
SessionHeld(c) ==
  /\ pc[c] \in {"new", "start_session", "get_session"} => started[c] = {}
  /\ pc[c] \in {"get_session", "wait"} \/ HasCursor(c) => session_id[c] # NULL
  /\ pc[c] = "wait" \/ HasCursor(c) => sstate[session_id[c]] # "none"
  /\ \A s \in started[c] : sstate[s] # "none"
  /\ other[c] # "idle" \/ closed[c] => HasCursor(c)

(* The calculation execute() polls is its own, and over when it is fetched.  *)
CalculationTracked(c) ==
  /\ calculation_id[c] # NULL => cstate[calculation_id[c]] # "none"
  /\ pc[c] \in {"kill", "stderr"} \cup Polling =>
       calculation_id[c] # NULL /\ creq[calculation_id[c]] = ThisRequest(c)
  /\ pc[c] \in {"fetch", "refetch"} => cstate[calculation_id[c]] \in Spark!FinalCalc
  /\ pc[c] \in Executing => outcome[c] = "none"
  /\ outcome[c] = "ok" => calculation_id[c] # NULL

IInv ==
  /\ TypeOK /\ ReturnedMeansCompleted /\ SessionsAreOwned
  /\ \A c \in Cursors : SessionHeld(c) /\ CalculationTracked(c)

(* close() from another thread is the way out of a calculation that never    *)
(* ends: execute() returns once the session is terminating.                  *)
TerminationEndsExecute ==
  \A c \in {c \in Cursors : MaxExecs[c] > 0} :
    (pc[c] \in Polling /\ sstate[csession[calculation_id[c]]] = "TERMINATING")
      ~> pc[c] \notin Polling

(* "raise OperationalError(session_status.state_change_reason)": the         *)
(* constructor does not wait for a session that is terminated, degraded or   *)
(* failed.                                                                   *)
SessionWaitEnds ==
  \A c \in Cursors :
    (pc[c] = "wait" /\ sstate[session_id[c]] \in Spark!DeadSession) ~> pc[c] # "wait"
================================================================================
