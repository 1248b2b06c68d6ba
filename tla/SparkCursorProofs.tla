--------------------------- MODULE SparkCursorProofs ---------------------------
(* Proofs about SparkCursor, for every value of its constants.               *)
EXTENDS SparkCursor, TLAPS

(* The types of the service's variables and of the cursors'.                 *)
ServiceTypeOK ==
  /\ sstate \in [SessionIds -> Spark!SessionStates]
  /\ cstate \in [CalcIds -> {"none"} \cup Spark!LiveCalc \cup Spark!FinalCalc]
  /\ csession \in [CalcIds -> SessionIds \cup {NULL}]
  /\ creq \in [CalcIds -> [by : Cursors, exec : Nat] \cup {NULL}]

CursorTypeOK ==
  /\ pc \in [Cursors -> {"new", "ready", "gone"} \cup Constructing \cup Executing]
  /\ session_id \in [Cursors -> SessionIds \cup {NULL}]
  /\ started \in [Cursors -> SUBSET SessionIds]
  /\ calculation_id \in [Cursors -> CalcIds \cup {NULL}]
  /\ calculation_execution \in [Cursors -> Execution \cup {NULL}]
  /\ execs \in [Cursors -> Nat] /\ \A c \in Cursors : execs[c] <= MaxExecs[c]
  /\ outcome \in [Cursors -> {"none", "ok", "raised"}]
  /\ interrupts \in [Cursors -> 0..MaxInterrupts]
  /\ other \in [Cursors -> {"idle", "close"} \cup CalcIds]
  /\ closed \in [Cursors -> BOOLEAN]

(* TypeOK is both. *)
LEMMA TypeSplit == TypeOK <=> ServiceTypeOK /\ CursorTypeOK
  BY DEF TypeOK, ServiceTypeOK, CursorTypeOK

(* What no step of the system undoes: calculations that were created keep    *)
(* their request, those that are over keep their outcome, and sessions that  *)
(* are over stay so.                                                         *)
CalcsKept ==
  \A k \in CalcIds : cstate[k] # "none" =>
    /\ cstate'[k] # "none" /\ creq'[k] = creq[k]
    /\ cstate[k] \in Spark!FinalCalc => cstate'[k] = cstate[k]

SessionsKept ==
  \A s \in SessionIds : sstate[s] # "none" =>
    /\ sstate'[s] # "none"
    /\ sstate[s] \notin Spark!LiveSession => sstate'[s] \notin Spark!LiveSession

Evolves == ServiceTypeOK' /\ CalcsKept /\ SessionsKept

(* The request of the execution under way is a request. *)
LEMMA ThisRequestType ==
  ASSUME TypeOK, NEW c \in Cursors
  PROVE  ThisRequest(c) \in [by : Cursors, exec : Nat]
  BY DEF TypeOK, ThisRequest

(* Steps that leave the service alone. *)
LEMMA StutterEvolves == TypeOK /\ UNCHANGED sparkVars => Evolves
  BY DEF TypeOK, sparkVars, Evolves, ServiceTypeOK, CalcsKept, SessionsKept

(* A new session is none that was there. *)
LEMMA CreateSessionEvolves ==
  ASSUME TypeOK, NEW s \in SessionIds, Spark!CreateSession(s)
  PROVE  Evolves
  BY DEF TypeOK, Evolves, ServiceTypeOK, CalcsKept, SessionsKept, Spark!CreateSession,
         Spark!SessionStates, Spark!LiveSession, Spark!DeadSession

(* The termination of a session leaves the calculations to SessionEnds. *)
LEMMA RequestTerminationEvolves ==
  ASSUME TypeOK, NEW s, Spark!RequestTermination(s)
  PROVE  Evolves
  BY DEF TypeOK, Evolves, ServiceTypeOK, CalcsKept, SessionsKept, Spark!RequestTermination,
         Spark!SessionStates, Spark!LiveSession, Spark!DeadSession

(* A new calculation is none that was there, in a session that lives. *)
LEMMA CreateCalcEvolves ==
  ASSUME TypeOK, NEW k \in CalcIds, NEW s \in SessionIds,
         NEW r \in [by : Cursors, exec : Nat], Spark!CreateCalc(k, s, r)
  PROVE  Evolves
<1>1. ServiceTypeOK'
  BY DEF TypeOK, ServiceTypeOK, Spark!CreateCalc, Spark!SessionStates, Spark!LiveSession,
     Spark!LiveCalc
<1>2. CalcsKept /\ SessionsKept
  BY DEF TypeOK, CalcsKept, SessionsKept, Spark!CreateCalc, Spark!LiveSession
<1>3. QED BY <1>1, <1>2 DEF Evolves

(* A stop request does not touch a calculation that is over. *)
LEMMA RequestStopEvolves ==
  ASSUME TypeOK, NEW k, Spark!RequestStop(k)
  PROVE  Evolves
  BY DEF TypeOK, Evolves, ServiceTypeOK, CalcsKept, SessionsKept, Spark!RequestStop,
         Spark!LiveCalc, Spark!FinalCalc

(* Nor does the service, in any step of its own. *)
LEMMA SparkNextEvolves ==
  ASSUME TypeOK, Spark!SparkNext
  PROVE  Evolves
<1>1. ASSUME NEW s \in SessionIds, Spark!SessionChanges(s) PROVE Evolves
  BY <1>1 DEF TypeOK, Evolves, ServiceTypeOK, CalcsKept, SessionsKept, Spark!SessionChanges,
     Spark!SessionStates, Spark!LiveSession, Spark!DeadSession
<1>2. ASSUME NEW s \in SessionIds, Spark!SessionEnds(s) PROVE Evolves
  BY <1>2 DEF TypeOK, Evolves, ServiceTypeOK, CalcsKept, SessionsKept, Spark!SessionEnds,
     Spark!SessionStates, Spark!LiveSession, Spark!DeadSession, Spark!LiveCalc, Spark!FinalCalc
<1>3. ASSUME NEW k \in CalcIds, Spark!CalcRuns(k) PROVE Evolves
  BY <1>3 DEF TypeOK, Evolves, ServiceTypeOK, CalcsKept, SessionsKept, Spark!CalcRuns,
     Spark!LiveCalc, Spark!FinalCalc
<1>4. ASSUME NEW k \in CalcIds, Spark!CalcEnds(k) PROVE Evolves
  <2>1. cstate' \in [CalcIds -> {"none"} \cup Spark!LiveCalc \cup Spark!FinalCalc] /\ CalcsKept
    BY <1>4 DEF TypeOK, CalcsKept, Spark!CalcEnds, Spark!LiveCalc, Spark!FinalCalc
  <2>2. sstate' \in [SessionIds -> Spark!SessionStates] /\ SessionsKept
    BY <1>4 DEF TypeOK, SessionsKept, Spark!CalcEnds, Spark!SessionStates, Spark!LiveSession
  <2>3. QED BY <1>4, <2>1, <2>2 DEF TypeOK, Evolves, ServiceTypeOK, Spark!CalcEnds
<1>5. QED BY <1>1, <1>2, <1>3, <1>4 DEF Spark!SparkNext
--------------------------------------------------------------------------------
(* The invariant, one cursor at a time. *)
Returned(c) == outcome[c] = "ok" =>
  /\ calculation_execution[c] = [calc |-> calculation_id[c], state |-> "COMPLETED"]
  /\ creq[calculation_id[c]] = ThisRequest(c)
  /\ cstate[calculation_id[c]] = "COMPLETED"

Owned(c) == \A s \in started[c] :
  /\ pc[c] # "gone" => session_id[c] = s
  /\ closed[c] => sstate[s] \notin Spark!LiveSession

Good(c) == SessionHeld(c) /\ CalculationTracked(c) /\ Returned(c) /\ Owned(c)

(* The invariant is that of every cursor, and the types. *)
LEMMA InvSplit == IInv <=> TypeOK /\ \A c \in Cursors : Good(c)
  BY DEF IInv, Good, Returned, Owned, ReturnedMeansCompleted, SessionsAreOwned

(* What c has and where it is. *)
Stays(c) ==
  /\ pc'[c] = pc[c] /\ session_id'[c] = session_id[c] /\ started'[c] = started[c]
  /\ calculation_id'[c] = calculation_id[c] /\ execs'[c] = execs[c]
  /\ calculation_execution'[c] = calculation_execution[c]
  /\ outcome'[c] = outcome[c] /\ other'[c] = other[c] /\ closed'[c] = closed[c]

(* A cursor that does nothing stays good, whatever the service does. *)
LEMMA StaysGood ==
  ASSUME TypeOK, Evolves, NEW c \in Cursors, Good(c), Stays(c)
  PROVE  Good(c)'
<1>1. session_id[c] # NULL => session_id[c] \in SessionIds
  BY DEF TypeOK
<1>2. calculation_id[c] # NULL => calculation_id[c] \in CalcIds
  BY DEF TypeOK
<1>3. started[c] \subseteq SessionIds
  BY DEF TypeOK
<1>4. SessionHeld(c)'
  BY <1>1, <1>3 DEF Good, SessionHeld, Stays, Evolves, SessionsKept, HasCursor
<1>5. CalculationTracked(c)'
  BY <1>2 DEF Good, CalculationTracked, Stays, Evolves, CalcsKept, ThisRequest, Polling
<1>6. Returned(c)'
  BY <1>2 DEF Good, CalculationTracked, Returned, Stays, Evolves,
     CalcsKept, ThisRequest, Spark!FinalCalc
<1>7. Owned(c)'
  BY <1>3 DEF Good, SessionHeld, Owned, Stays, Evolves, SessionsKept
<1>8. QED BY <1>4, <1>5, <1>6, <1>7 DEF Good
--------------------------------------------------------------------------------
(* A step of c keeps the types, keeps c good and leaves the others alone.    *)
Moves(c) == Evolves /\ CursorTypeOK' /\ Good(c)' /\ \A d \in Cursors \ {c} : Stays(d)

(* Every step is about types, places in the code and groups of variables.    *)
USE DEF ConstantsAssumption, CursorTypeOK, Goto, Constructing, Executing, Polling,
        HasCursor, ThisRequest, sessionVars, calcVars

(* The constructor begins. *)
LEMMA NewMoves ==
  ASSUME TypeOK, NEW c \in Cursors, Good(c), New(c)
  PROVE  Moves(c)
<1>1. Evolves
  BY StutterEvolves DEF New
<1>2. CursorTypeOK' /\ \A d \in Cursors \ {c} : Stays(d)
  BY TypeSplit, ConstantsAssumption DEF New, Stays
<1>3. Good(c)'
  BY <1>1, TypeSplit, ConstantsAssumption
  DEF New, Good, SessionHeld, CalculationTracked, Returned, Owned,
      Evolves, CalcsKept, SessionsKept, Spark!FinalCalc
<1>4. QED BY <1>1, <1>2, <1>3 DEF Moves

(* It begins with a session that is given. *)
LEMMA NewAttachedMoves ==
  ASSUME TypeOK, NEW c \in Cursors, Good(c), NEW s \in SessionIds, NewAttached(c, s)
  PROVE  Moves(c)
<1>1. Evolves
  BY StutterEvolves DEF NewAttached
<1>2. CursorTypeOK' /\ \A d \in Cursors \ {c} : Stays(d)
  BY TypeSplit, ConstantsAssumption DEF NewAttached, Stays
<1>3. Good(c)'
  BY <1>1, TypeSplit, ConstantsAssumption
  DEF NewAttached, Good, SessionHeld, CalculationTracked, Returned, Owned,
      Evolves, CalcsKept, SessionsKept, Spark!FinalCalc
<1>4. QED BY <1>1, <1>2, <1>3 DEF Moves

(* A session it starts is its own. *)
LEMMA StartSessionMoves ==
  ASSUME TypeOK, NEW c \in Cursors, Good(c), NEW s \in SessionIds, StartSession(c, s)
  PROVE  Moves(c)
<1>1. Evolves
  BY CreateSessionEvolves DEF StartSession
<1>2. CursorTypeOK' /\ \A d \in Cursors \ {c} : Stays(d)
  BY TypeSplit, ConstantsAssumption DEF StartSession, Stays
<1>3. SessionHeld(c)'
  BY <1>1, TypeSplit, ConstantsAssumption
  DEF StartSession, Good, SessionHeld, Evolves, SessionsKept,
      ServiceTypeOK, Spark!CreateSession
<1>4. CalculationTracked(c)'
  BY <1>1, TypeSplit, ConstantsAssumption
  DEF StartSession, Good, CalculationTracked, Evolves, CalcsKept,
      ServiceTypeOK, Spark!CreateSession
<1>5. Returned(c)'
  BY <1>1, TypeSplit, ConstantsAssumption
  DEF StartSession, Good, CalculationTracked, Returned, Spark!FinalCalc, Evolves, CalcsKept,
      ServiceTypeOK, Spark!CreateSession
<1>6. Owned(c)'
  BY <1>1, TypeSplit, ConstantsAssumption
  DEF StartSession, Good, SessionHeld, Owned, Evolves, SessionsKept,
      ServiceTypeOK, Spark!CreateSession
<1>7. QED BY <1>1, <1>2, <1>3, <1>4, <1>5, <1>6 DEF Good, Moves

(* The session it attaches to is there. *)
LEMMA GetSessionMoves ==
  ASSUME TypeOK, NEW c \in Cursors, Good(c), GetSession(c)
  PROVE  Moves(c)
<1>1. Evolves
  BY StutterEvolves DEF GetSession
<1>2. CursorTypeOK' /\ \A d \in Cursors \ {c} : Stays(d)
  BY TypeSplit, ConstantsAssumption DEF GetSession, Stays
<1>3. Good(c)'
  BY <1>1, TypeSplit, ConstantsAssumption
  DEF GetSession, Good, SessionHeld, CalculationTracked, Returned, Owned,
      Evolves, CalcsKept, SessionsKept, Spark!FinalCalc
<1>4. QED BY <1>1, <1>2, <1>3 DEF Moves

(* The constructor ends. *)
LEMMA SessionIsIdleMoves ==
  ASSUME TypeOK, NEW c \in Cursors, Good(c), SessionIsIdle(c)
  PROVE  Moves(c)
<1>1. Evolves
  BY StutterEvolves DEF SessionIsIdle
<1>2. CursorTypeOK' /\ \A d \in Cursors \ {c} : Stays(d)
  BY TypeSplit, ConstantsAssumption DEF SessionIsIdle, Stays
<1>3. Good(c)'
  BY <1>1, TypeSplit, ConstantsAssumption
  DEF SessionIsIdle, Good, SessionHeld, CalculationTracked, Returned, Owned,
      Evolves, CalcsKept, SessionsKept, Spark!FinalCalc
<1>4. QED BY <1>1, <1>2, <1>3 DEF Moves

(* The constructor raises. *)
LEMMA ConstructorRaisesMoves ==
  ASSUME TypeOK, NEW c \in Cursors, Good(c), ConstructorRaises(c)
  PROVE  Moves(c)
<1>1. Evolves
  BY StutterEvolves DEF ConstructorRaises
<1>2. CursorTypeOK' /\ \A d \in Cursors \ {c} : Stays(d)
  BY TypeSplit, ConstantsAssumption DEF ConstructorRaises, Stays
<1>3. Good(c)'
  BY <1>1, TypeSplit, ConstantsAssumption
  DEF ConstructorRaises, Good, SessionHeld, CalculationTracked, Returned, Owned,
      Evolves, CalcsKept, SessionsKept, Spark!FinalCalc
<1>4. QED BY <1>1, <1>2, <1>3 DEF Moves

(* execute() begins with an outcome of its own. *)
LEMMA ExecuteMoves ==
  ASSUME TypeOK, NEW c \in Cursors, Good(c), Execute(c)
  PROVE  Moves(c)
<1>1. Evolves
  BY StutterEvolves DEF Execute
<1>2. CursorTypeOK' /\ \A d \in Cursors \ {c} : Stays(d)
  BY TypeSplit, ConstantsAssumption DEF Execute, Stays
<1>3. Good(c)'
  BY <1>1, TypeSplit, ConstantsAssumption
  DEF Execute, Good, SessionHeld, CalculationTracked, Returned, Owned,
      Evolves, CalcsKept, SessionsKept, Spark!FinalCalc
<1>4. QED BY <1>1, <1>2, <1>3 DEF Moves

(* The calculation it starts is new, and its own. *)
LEMMA StartCalculationMoves ==
  ASSUME TypeOK, NEW c \in Cursors, Good(c), NEW k \in CalcIds, StartCalculation(c, k)
  PROVE  Moves(c)
<1>1. Evolves
  <2>1. session_id[c] \in SessionIds
    BY TypeSplit DEF CursorTypeOK, StartCalculation, Good, SessionHeld, HasCursor, Executing
  <2>2. Spark!CreateCalc(k, session_id[c], ThisRequest(c))
    BY DEF StartCalculation
  <2>3. QED BY <2>1, <2>2, CreateCalcEvolves, ThisRequestType
<1>2. CursorTypeOK' /\ \A d \in Cursors \ {c} : Stays(d)
  BY TypeSplit, ConstantsAssumption DEF StartCalculation, Fail, Stays
<1>3. SessionHeld(c)'
  BY <1>1, TypeSplit, ConstantsAssumption
  DEF StartCalculation, Fail, Good, SessionHeld, Evolves, SessionsKept,
      ServiceTypeOK, Spark!CreateCalc
<1>4. CalculationTracked(c)'
  BY <1>1, TypeSplit, ConstantsAssumption
  DEF StartCalculation, Fail, Good, CalculationTracked, Evolves, CalcsKept,
      ServiceTypeOK, Spark!CreateCalc
<1>5. Returned(c)'
  BY <1>1, TypeSplit, ConstantsAssumption
  DEF StartCalculation, Fail, Good, CalculationTracked, Returned, Spark!FinalCalc, Evolves, CalcsKept,
      ServiceTypeOK, Spark!CreateCalc
<1>6. Owned(c)'
  BY <1>1, TypeSplit, ConstantsAssumption
  DEF StartCalculation, Fail, Good, SessionHeld, Owned, Evolves, SessionsKept,
      ServiceTypeOK, Spark!CreateCalc
<1>7. QED BY <1>1, <1>2, <1>3, <1>4, <1>5, <1>6 DEF Good, Moves

(* A calculation that is over is fetched. *)
LEMMA PollAnsweredMoves ==
  ASSUME TypeOK, NEW c \in Cursors, Good(c), PollAnswered(c)
  PROVE  Moves(c)
<1>1. Evolves
  BY StutterEvolves DEF PollAnswered
<1>2. CursorTypeOK' /\ \A d \in Cursors \ {c} : Stays(d)
  BY TypeSplit, ConstantsAssumption DEF PollAnswered, Stays
<1>3. Good(c)'
  BY <1>1, TypeSplit, ConstantsAssumption
  DEF PollAnswered, Good, SessionHeld, CalculationTracked, Returned, Owned,
      Evolves, CalcsKept, SessionsKept, Spark!FinalCalc, Finished
<1>4. QED BY <1>1, <1>2, <1>3 DEF Moves

(* execute() returns if its calculation completed. *)
LEMMA FetchAnsweredMoves ==
  ASSUME TypeOK, NEW c \in Cursors, Good(c), FetchAnswered(c)
  PROVE  Moves(c)
<1>1. Evolves
  BY StutterEvolves DEF FetchAnswered
<1>2. CursorTypeOK' /\ \A d \in Cursors \ {c} : Stays(d)
  BY TypeSplit, ConstantsAssumption DEF FetchAnswered, Stays, Execution, Good, CalculationTracked
<1>3. Good(c)'
  BY <1>1, TypeSplit, ConstantsAssumption
  DEF FetchAnswered, Good, SessionHeld, CalculationTracked, Returned, Owned,
      Evolves, CalcsKept, SessionsKept, Spark!FinalCalc
<1>4. QED BY <1>1, <1>2, <1>3 DEF Moves

(* Otherwise it raises. *)
LEMMA StdErrorReadMoves ==
  ASSUME TypeOK, NEW c \in Cursors, Good(c), StdErrorRead(c)
  PROVE  Moves(c)
<1>1. Evolves
  BY StutterEvolves DEF StdErrorRead
<1>2. CursorTypeOK' /\ \A d \in Cursors \ {c} : Stays(d)
  BY TypeSplit, ConstantsAssumption DEF StdErrorRead, Fail, Stays
<1>3. Good(c)'
  BY <1>1, TypeSplit, ConstantsAssumption
  DEF StdErrorRead, Fail, Good, SessionHeld, CalculationTracked, Returned, Owned,
      Evolves, CalcsKept, SessionsKept, Spark!FinalCalc
<1>4. QED BY <1>1, <1>2, <1>3 DEF Moves

(* An interrupt forgets nothing but the call. *)
LEMMA InterruptMoves ==
  ASSUME TypeOK, NEW c \in Cursors, Good(c), Interrupt(c)
  PROVE  Moves(c)
<1>1. Evolves
  BY StutterEvolves DEF Interrupt
<1>2. CursorTypeOK' /\ \A d \in Cursors \ {c} : Stays(d)
  BY TypeSplit, ConstantsAssumption DEF Interrupt, Fail, Stays
<1>3. Good(c)'
  BY <1>1, TypeSplit, ConstantsAssumption
  DEF Interrupt, Fail, Good, SessionHeld, CalculationTracked, Returned, Owned,
      Evolves, CalcsKept, SessionsKept, Spark!FinalCalc
<1>4. QED BY <1>1, <1>2, <1>3 DEF Moves

(* A stop request does not take the outcome. *)
LEMMA KillAnsweredMoves ==
  ASSUME TypeOK, NEW c \in Cursors, Good(c), KillAnswered(c)
  PROVE  Moves(c)
<1>1. Evolves
  BY RequestStopEvolves DEF KillAnswered
<1>2. CursorTypeOK' /\ \A d \in Cursors \ {c} : Stays(d)
  BY TypeSplit, ConstantsAssumption DEF KillAnswered, Stays
<1>3. Good(c)'
  BY <1>1, TypeSplit, ConstantsAssumption
  DEF KillAnswered, Good, SessionHeld, CalculationTracked, Returned, Owned,
      Evolves, CalcsKept, SessionsKept, Spark!FinalCalc
<1>4. QED BY <1>1, <1>2, <1>3 DEF Moves

(* Nor does an error. *)
LEMMA RaiseErrorMoves ==
  ASSUME TypeOK, NEW c \in Cursors, Good(c), RaiseError(c)
  PROVE  Moves(c)
<1>1. Evolves
  BY StutterEvolves DEF RaiseError
<1>2. CursorTypeOK' /\ \A d \in Cursors \ {c} : Stays(d)
  BY TypeSplit, ConstantsAssumption DEF RaiseError, Fail, Stays
<1>3. Good(c)'
  BY <1>1, TypeSplit, ConstantsAssumption
  DEF RaiseError, Fail, Good, SessionHeld, CalculationTracked, Returned, Owned,
      Evolves, CalcsKept, SessionsKept, Spark!FinalCalc
<1>4. QED BY <1>1, <1>2, <1>3 DEF Moves

(* cancel() reads the calculation id. *)
LEMMA CancelMoves ==
  ASSUME TypeOK, NEW c \in Cursors, Good(c), Cancel(c)
  PROVE  Moves(c)
<1>1. Evolves
  BY StutterEvolves DEF Cancel
<1>2. CursorTypeOK' /\ \A d \in Cursors \ {c} : Stays(d)
  BY TypeSplit, ConstantsAssumption DEF Cancel, Stays
<1>3. Good(c)'
  BY <1>1, TypeSplit, ConstantsAssumption
  DEF Cancel, Good, SessionHeld, CalculationTracked, Returned, Owned,
      Evolves, CalcsKept, SessionsKept, Spark!FinalCalc
<1>4. QED BY <1>1, <1>2, <1>3 DEF Moves

(* close() changes nothing before it is answered. *)
LEMMA CloseMoves ==
  ASSUME TypeOK, NEW c \in Cursors, Good(c), Close(c)
  PROVE  Moves(c)
<1>1. Evolves
  BY StutterEvolves DEF Close
<1>2. CursorTypeOK' /\ \A d \in Cursors \ {c} : Stays(d)
  BY TypeSplit, ConstantsAssumption DEF Close, Stays
<1>3. Good(c)'
  BY <1>1, TypeSplit, ConstantsAssumption
  DEF Close, Good, SessionHeld, CalculationTracked, Returned, Owned,
      Evolves, CalcsKept, SessionsKept, Spark!FinalCalc
<1>4. QED BY <1>1, <1>2, <1>3 DEF Moves

(* cancel() stops what it has read. *)
LEMMA CancelAnsweredMoves ==
  ASSUME TypeOK, NEW c \in Cursors, Good(c), CancelAnswered(c)
  PROVE  Moves(c)
<1>1. Evolves
  BY RequestStopEvolves DEF CancelAnswered
<1>2. CursorTypeOK' /\ \A d \in Cursors \ {c} : Stays(d)
  BY TypeSplit, ConstantsAssumption DEF CancelAnswered, Stays
<1>3. Good(c)'
  BY <1>1, TypeSplit, ConstantsAssumption
  DEF CancelAnswered, Good, SessionHeld, CalculationTracked, Returned, Owned,
      Evolves, CalcsKept, SessionsKept, Spark!FinalCalc
<1>4. QED BY <1>1, <1>2, <1>3 DEF Moves

(* After close() the session does not live. *)
LEMMA CloseAnsweredMoves ==
  ASSUME TypeOK, NEW c \in Cursors, Good(c), CloseAnswered(c)
  PROVE  Moves(c)
<1>1. Evolves
  BY RequestTerminationEvolves DEF CloseAnswered
<1>2. CursorTypeOK' /\ \A d \in Cursors \ {c} : Stays(d)
  BY TypeSplit, ConstantsAssumption DEF CloseAnswered, Stays
<1>3. SessionHeld(c)'
  BY <1>1, TypeSplit, ConstantsAssumption
  DEF CloseAnswered, Good, SessionHeld, Evolves, SessionsKept,
      ServiceTypeOK, Spark!RequestTermination, Spark!LiveSession
<1>4. CalculationTracked(c)'
  BY <1>1, TypeSplit, ConstantsAssumption
  DEF CloseAnswered, Good, CalculationTracked, Evolves, CalcsKept,
      ServiceTypeOK, Spark!RequestTermination, Spark!LiveSession
<1>5. Returned(c)'
  BY <1>1, TypeSplit, ConstantsAssumption
  DEF CloseAnswered, Good, CalculationTracked, Returned, Spark!FinalCalc, Evolves, CalcsKept,
      ServiceTypeOK, Spark!RequestTermination, Spark!LiveSession
<1>6. Owned(c)'
  BY <1>1, TypeSplit, ConstantsAssumption
  DEF CloseAnswered, Good, SessionHeld, Owned, Evolves, SessionsKept,
      ServiceTypeOK, Spark!RequestTermination, Spark!LiveSession
<1>7. QED BY <1>1, <1>2, <1>3, <1>4, <1>5, <1>6 DEF Good, Moves

(* They may fail. *)
LEMMA OtherRaisesMoves ==
  ASSUME TypeOK, NEW c \in Cursors, Good(c), OtherRaises(c)
  PROVE  Moves(c)
<1>1. Evolves
  BY StutterEvolves DEF OtherRaises
<1>2. CursorTypeOK' /\ \A d \in Cursors \ {c} : Stays(d)
  BY TypeSplit, ConstantsAssumption DEF OtherRaises, Stays
<1>3. Good(c)'
  BY <1>1, TypeSplit, ConstantsAssumption
  DEF OtherRaises, Good, SessionHeld, CalculationTracked, Returned, Owned,
      Evolves, CalcsKept, SessionsKept, Spark!FinalCalc
<1>4. QED BY <1>1, <1>2, <1>3 DEF Moves

HIDE DEF ConstantsAssumption, CursorTypeOK, Goto, Constructing, Executing, Polling,
         HasCursor, ThisRequest, sessionVars, calcVars
--------------------------------------------------------------------------------
(* In the beginning there are no sessions and no calculations. *)
LEMMA InitInv == Init => IInv
<1> SUFFICES ASSUME Init PROVE IInv
  OBVIOUS
<1>1. ServiceTypeOK
  BY DEF Init, ServiceTypeOK, Spark!SparkInit, Spark!SessionStates
<1>2. CursorTypeOK
  BY ConstantsAssumption
  DEF ConstantsAssumption, Init, CursorTypeOK, Constructing, Executing
<1>3. ASSUME NEW c \in Cursors PROVE Good(c)
  BY <1>3 DEF Init, Good, SessionHeld, CalculationTracked, Returned, Owned, HasCursor,
     Executing, Polling
<1>4. QED BY <1>1, <1>2, <1>3, TypeSplit, InvSplit

(* A cursor moves and the others stay. *)
LEMMA MovesInv ==
  ASSUME IInv, NEW c \in Cursors, Moves(c)
  PROVE  IInv'
<1>1. \A d \in Cursors : Good(d)'
  BY InvSplit, StaysGood DEF Moves
<1>2. TypeOK'
  BY TypeSplit DEF Moves, Evolves, ServiceTypeOK, CursorTypeOK, TypeOK
<1>3. QED
  BY <1>1, <1>2 DEF IInv, Good, Returned, Owned, ReturnedMeansCompleted, SessionsAreOwned

(* The service moves and all cursors stay. *)
LEMMA ServiceInv ==
  ASSUME IInv, Evolves,
         UNCHANGED <<pc, sessionVars, calcVars, execs, outcome, interrupts, other, closed>>
  PROVE  IInv'
<1>1. CursorTypeOK'
  BY InvSplit, TypeSplit DEF CursorTypeOK, sessionVars, calcVars
<1>2. \A c \in Cursors : Stays(c)
  BY DEF Stays, sessionVars, calcVars
<1>3. \A c \in Cursors : Good(c)'
  BY <1>2, InvSplit, StaysGood
<1>4. TypeOK'
  BY <1>1 DEF Evolves, ServiceTypeOK, CursorTypeOK, TypeOK
<1>5. QED
  BY <1>3, <1>4 DEF IInv, Good, Returned, Owned, ReturnedMeansCompleted, SessionsAreOwned

(* Every step is one or the other, and undoes nothing. *)
LEMMA StepEvolves ==
  ASSUME IInv, [Next]_vars
  PROVE  Evolves /\ IInv'
<1>1. TypeOK /\ \A c \in Cursors : Good(c)
  BY InvSplit
<1>2. ASSUME NEW c \in Cursors, Moves(c) PROVE Evolves /\ IInv'
  BY <1>2, MovesInv DEF Moves
<1>3. CASE UNCHANGED vars
  BY <1>1, <1>3, ServiceInv, StutterEvolves DEF vars
<1>4. CASE ServiceStep
  BY <1>1, <1>4, ServiceInv, SparkNextEvolves DEF ServiceStep
<1>5. ASSUME NEW c \in Cursors,
             \/ New(c) \/ ConstructorRaises(c)
             \/ \E s \in SessionIds : NewAttached(c, s) \/ StartSession(c, s)
             \/ GetSession(c) \/ SessionIsIdle(c)
      PROVE  Moves(c)
  BY <1>1, <1>5, NewMoves, ConstructorRaisesMoves, NewAttachedMoves, StartSessionMoves,
     GetSessionMoves, SessionIsIdleMoves
<1>6. ASSUME NEW c \in Cursors,
             \/ Execute(c) \/ \E k \in CalcIds : StartCalculation(c, k)
             \/ PollAnswered(c) \/ FetchAnswered(c) \/ StdErrorRead(c) \/ KillAnswered(c)
             \/ Interrupt(c) \/ RaiseError(c)
      PROVE  Moves(c)
  BY <1>1, <1>6, ExecuteMoves, StartCalculationMoves, PollAnsweredMoves, FetchAnsweredMoves,
     StdErrorReadMoves, KillAnsweredMoves, InterruptMoves, RaiseErrorMoves
<1>7. ASSUME NEW c \in Cursors,
             Cancel(c) \/ Close(c) \/ CancelAnswered(c) \/ CloseAnswered(c) \/ OtherRaises(c)
      PROVE  Moves(c)
  BY <1>1, <1>7, CancelMoves, CloseMoves, CancelAnsweredMoves, CloseAnsweredMoves,
     OtherRaisesMoves
<1>8. QED BY <1>2, <1>3, <1>4, <1>5, <1>6, <1>7 DEF Next, Answered

(* Every step keeps the invariant. *)
LEMMA StepInv == IInv /\ [Next]_vars => IInv'
  BY StepEvolves
--------------------------------------------------------------------------------
(* The inductive invariant of the Spark cursors, constructor, execute(),     *)
(* cancel() and close() from elsewhere included, always holds.               *)
THEOREM Invariance == Spec => []IInv
  BY InitInv, StepInv, PTL DEF Spec

(* Every variable keeps its type. *)
THEOREM TypeCorrect == Spec => []TypeOK
  BY Invariance, PTL DEF IInv

(* When execute() has returned, calculation_execution is that of the         *)
(* calculation it started itself, and it completed.                          *)
THEOREM ReturnedCompleted == Spec => []ReturnedMeansCompleted
  BY Invariance, PTL DEF IInv

(* A session a constructor has started is the cursor's, unless it raised,    *)
(* and no longer lives once a close() has returned.                          *)
THEOREM StartedSessionsAreOwned == Spec => []SessionsAreOwned
  BY Invariance, PTL DEF IInv
================================================================================
