---------------------------- MODULE CursorProofs -----------------------------
(* Proofs about Cursor, for every value of its constants.                    *)
EXTENDS Cursor, TLAPS

(* The service's steps keep its variables well typed. *)
LEMMA CreateQueryType ==
  ASSUME ServiceTypeOK, NEW q \in QueryIds, NEW r \in Request, Service!CreateQuery(q, r)
  PROVE  ServiceTypeOK'
  BY DEF ServiceTypeOK, Service!CreateQuery, Service!Live

(* A stop request keeps the service's variables well typed. *)
LEMMA AcceptStopType ==
  ASSUME ServiceTypeOK, NEW q, NEW c \in Cursors, Service!AcceptStop(q, c)
  PROVE  ServiceTypeOK'
  BY DEF ServiceTypeOK, Service!AcceptStop

(* So do the steps the service takes on its own. *)
LEMMA ServiceNextType ==
  ASSUME ServiceTypeOK, Service!ServiceNext
  PROVE  ServiceTypeOK'
  BY DEF ServiceTypeOK, Service!ServiceNext, Service!RunQuery, Service!CompleteQuery,
         Service!CancelQuery, Service!Live, Service!Terminal

(* The request of the execution under way is a request. *)
LEMMA ThisRequestType ==
  ASSUME CallTypeOK, NEW c \in Cursors
  PROVE  ThisRequest(c) \in Request
  BY DEF CallTypeOK, ThisRequest, Request

(* Steps that leave a group of variables alone keep its type. *)
LEMMA ServiceStutter == ServiceTypeOK /\ UNCHANGED serviceVars => ServiceTypeOK'
  BY DEF ServiceTypeOK, serviceVars

(* Likewise for this group of variables. *)
LEMMA EventStutter ==
  EventTypeOK /\ UNCHANGED <<seen, lateVars, cancelVars, interrupts>> => EventTypeOK'
  BY DEF EventTypeOK, lateVars, cancelVars

(* Likewise for this group of variables. *)
LEMMA CallStutter == CallTypeOK /\ UNCHANGED callVars => CallTypeOK'
  BY DEF CallTypeOK, callVars

(* Likewise for this group of variables. *)
LEMMA StateStutter == StateTypeOK /\ UNCHANGED stateVars => StateTypeOK'
  BY DEF StateTypeOK, stateVars

(* Leaving execute() by an exception keeps the cursor's types. *)
LEMMA FailType ==
  ASSUME CallTypeOK, StateTypeOK, NEW c \in Cursors, Fail(c)
  PROVE  CallTypeOK' /\ StateTypeOK'
<1>1. CallTypeOK'
  BY ConstantsAssumption DEF ConstantsAssumption, CallTypeOK, Fail, Goto, Labels, ApiCalls
<1>2. StateTypeOK'
  BY DEF StateTypeOK, Fail
<1>3. QED BY <1>1, <1>2

(* _reset_state keeps the types of the cursor's attributes. *)
LEMMA ResetStateType ==
  ASSUME StateTypeOK, NEW c \in Cursors, NEW n \in Nat \cup {-1}, ResetState(c, n)
  PROVE  StateTypeOK'
  BY DEF StateTypeOK, ResetState

(* Entering execute() keeps the types of call and attributes. *)
LEMMA EnterExecuteType ==
  ASSUME TypeOK, NEW c \in Cursors, NEW s \in Statements, EnterExecute(c, s)
  PROVE  /\ StateTypeOK'
         /\ pc' \in [Cursors -> Labels] /\ stmt' \in [Cursors -> Statements]
         /\ execs' \in [Cursors -> 0..MaxExecs] /\ attempts' \in [Cursors -> 1..Attempts]
         /\ outcome' \in [Cursors -> Labels \cup {"none", "ok"}]
         /\ seen' \in [Cursors -> Service!Live \cup Service!Terminal \cup {NULL}]
<1>1. StateTypeOK'
  BY ResetStateType DEF TypeOK, EnterExecute
<1>2. pc' \in [Cursors -> Labels] /\ outcome' \in [Cursors -> Labels \cup {"none", "ok"}]
  BY DEF TypeOK, CallTypeOK, EnterExecute, Goto, Labels, ApiCalls
<1>3. stmt' \in [Cursors -> Statements] /\ execs' \in [Cursors -> 0..MaxExecs]
  BY ConstantsAssumption DEF TypeOK, CallTypeOK, EnterExecute
<1>4. attempts' \in [Cursors -> 1..Attempts]
  BY ConstantsAssumption DEF TypeOK, CallTypeOK, EnterExecute
<1>5. seen' \in [Cursors -> Service!Live \cup Service!Terminal \cup {NULL}]
  BY DEF TypeOK, EventTypeOK, EnterExecute
<1>6. QED BY <1>1, <1>2, <1>3, <1>4, <1>5

(* Assigning query_id keeps the types of call and attributes. *)
LEMMA AssignQueryIdType ==
  ASSUME TypeOK, NEW c \in Cursors, NEW q \in QueryIds, AssignQueryId(c, q)
  PROVE  CallTypeOK' /\ StateTypeOK'
  BY ConstantsAssumption
  DEF ConstantsAssumption, TypeOK, CallTypeOK, StateTypeOK, AssignQueryId, Goto, Labels, ApiCalls

(* The initial states are well typed. *)
THEOREM InitType == Init => TypeOK
<1> SUFFICES ASSUME Init PROVE TypeOK
  OBVIOUS
<1>1. ServiceTypeOK
  BY DEF Init, ServiceTypeOK, Service!ServiceInit
<1>2. CallTypeOK
  BY ConstantsAssumption DEF ConstantsAssumption, Init, CallTypeOK, Labels
<1>3. StateTypeOK
  BY DEF Init, StateTypeOK
<1>4. EventTypeOK
  BY ConstantsAssumption DEF ConstantsAssumption, Init, EventTypeOK
<1>5. QED BY <1>1, <1>2, <1>3, <1>4 DEF TypeOK

(* Action Execute keeps TypeOK. *)
LEMMA ExecuteType ==
  ASSUME TypeOK, NEW c \in Cursors, NEW s \in Statements, Execute(c, s)
  PROVE  TypeOK'
<1>1. ServiceTypeOK'
  BY ServiceStutter DEF TypeOK, Execute
<1>2. CallTypeOK'
  BY EnterExecuteType DEF TypeOK, Execute, CallTypeOK
<1>3. StateTypeOK'
  BY EnterExecuteType DEF TypeOK, Execute
<1>4. EventTypeOK'
  BY EnterExecuteType DEF TypeOK, Execute, EventTypeOK, lateVars, cancelVars
<1>5. QED BY <1>1, <1>2, <1>3, <1>4 DEF TypeOK

(* Action ExecuteMany keeps TypeOK. *)
LEMMA ExecuteManyType ==
  ASSUME TypeOK, NEW c \in Cursors, NEW n \in 0..MaxBatch, ExecuteMany(c, n)
  PROVE  TypeOK'
<1>1. ServiceTypeOK'
  BY ServiceStutter DEF TypeOK, ExecuteMany
<1>2. CallTypeOK'
  BY DEF TypeOK, ExecuteMany, CallTypeOK, Goto, Labels
<1>3. StateTypeOK'
  BY ResetStateType DEF TypeOK, ExecuteMany, ResetState
<1>4. EventTypeOK'
  BY EventStutter DEF TypeOK, ExecuteMany
<1>5. QED BY <1>1, <1>2, <1>3, <1>4 DEF TypeOK

(* Action NextParameters keeps TypeOK. *)
LEMMA NextParametersType ==
  ASSUME TypeOK, NEW c \in Cursors, NEW s \in Statements, NextParameters(c, s)
  PROVE  TypeOK'
<1>1. ServiceTypeOK'
  BY ServiceStutter DEF TypeOK, NextParameters
<1>2. CallTypeOK'
  <2>1. batch' \in [Cursors -> 0..MaxBatch \cup {NULL}]
    <3>1. batch[c] - 1 \in 0..MaxBatch
      BY ConstantsAssumption DEF ConstantsAssumption, NextParameters
    <3>2. QED BY <3>1 DEF TypeOK, CallTypeOK, NextParameters
  <2>2. UNCHANGED <<total, affected>>
    BY DEF NextParameters
  <2>3. QED
    BY <2>1, <2>2, EnterExecuteType DEF TypeOK, CallTypeOK, NextParameters
<1>3. StateTypeOK'
  BY EnterExecuteType DEF TypeOK, NextParameters
<1>4. EventTypeOK'
  BY EnterExecuteType DEF TypeOK, NextParameters, EventTypeOK, lateVars, cancelVars
<1>5. QED BY <1>1, <1>2, <1>3, <1>4 DEF TypeOK

(* Action FinishBatch keeps TypeOK. *)
LEMMA FinishBatchType ==
  ASSUME TypeOK, NEW c \in Cursors, FinishBatch(c)
  PROVE  TypeOK'
<1>1. ServiceTypeOK'
  BY ServiceStutter DEF TypeOK, FinishBatch
<1>2. CallTypeOK'
  BY DEF TypeOK, FinishBatch, CallTypeOK, Goto, Labels
<1>3. StateTypeOK'
  BY ResetStateType DEF TypeOK, FinishBatch, CallTypeOK
<1>4. EventTypeOK'
  BY EventStutter DEF TypeOK, FinishBatch
<1>5. QED BY <1>1, <1>2, <1>3, <1>4 DEF TypeOK

(* Action LookupHit keeps TypeOK. *)
LEMMA LookupHitType ==
  ASSUME TypeOK, NEW c \in Cursors, NEW q \in QueryIds, LookupHit(c, q)
  PROVE  TypeOK'
<1>1. ServiceTypeOK'
  BY ServiceStutter DEF TypeOK, LookupHit
<1>2. CallTypeOK'
  BY AssignQueryIdType DEF TypeOK, LookupHit
<1>3. StateTypeOK'
  BY AssignQueryIdType DEF TypeOK, LookupHit
<1>4. EventTypeOK'
  BY EventStutter DEF TypeOK, LookupHit, AssignQueryId
<1>5. QED BY <1>1, <1>2, <1>3, <1>4 DEF TypeOK

(* Action LookupMiss keeps TypeOK. *)
LEMMA LookupMissType ==
  ASSUME TypeOK, NEW c \in Cursors, LookupMiss(c)
  PROVE  TypeOK'
<1>1. ServiceTypeOK'
  BY ServiceStutter DEF TypeOK, LookupMiss
<1>2. CallTypeOK'
  BY DEF TypeOK, LookupMiss, CallTypeOK, Goto, Labels, ApiCalls
<1>3. StateTypeOK'
  BY StateStutter DEF TypeOK, LookupMiss
<1>4. EventTypeOK'
  BY EventStutter DEF TypeOK, LookupMiss
<1>5. QED BY <1>1, <1>2, <1>3, <1>4 DEF TypeOK

(* Action StartAnswered keeps TypeOK. *)
LEMMA StartAnsweredType ==
  ASSUME TypeOK, NEW c \in Cursors, NEW q \in QueryIds, StartAnswered(c, q)
  PROVE  TypeOK'
<1>1. ServiceTypeOK'
  BY CreateQueryType, ThisRequestType DEF TypeOK, StartAnswered
<1>2. CallTypeOK'
  BY AssignQueryIdType DEF TypeOK, StartAnswered
<1>3. StateTypeOK'
  BY AssignQueryIdType DEF TypeOK, StartAnswered
<1>4. EventTypeOK'
  BY EventStutter DEF TypeOK, StartAnswered, AssignQueryId
<1>5. QED BY <1>1, <1>2, <1>3, <1>4 DEF TypeOK

(* Action StartAnswerLost keeps TypeOK. *)
LEMMA StartAnswerLostType ==
  ASSUME TypeOK, NEW c \in Cursors, NEW q \in QueryIds, StartAnswerLost(c, q)
  PROVE  TypeOK'
<1>1. ServiceTypeOK'
  BY CreateQueryType, ThisRequestType DEF TypeOK, StartAnswerLost
<1>2. CallTypeOK'
  BY FailType DEF TypeOK, StartAnswerLost
<1>3. StateTypeOK'
  BY FailType DEF TypeOK, StartAnswerLost
<1>4. EventTypeOK'
  BY EventStutter DEF TypeOK, StartAnswerLost
<1>5. QED BY <1>1, <1>2, <1>3, <1>4 DEF TypeOK

(* Action CallbacksReturn keeps TypeOK. *)
LEMMA CallbacksReturnType ==
  ASSUME TypeOK, NEW c \in Cursors, CallbacksReturn(c)
  PROVE  TypeOK'
<1>1. ServiceTypeOK'
  BY ServiceStutter DEF TypeOK, CallbacksReturn
<1>2. CallTypeOK'
  BY DEF TypeOK, CallbacksReturn, CallTypeOK, Goto, Labels, ApiCalls
<1>3. StateTypeOK'
  BY StateStutter DEF TypeOK, CallbacksReturn
<1>4. EventTypeOK'
  BY EventStutter DEF TypeOK, CallbacksReturn
<1>5. QED BY <1>1, <1>2, <1>3, <1>4 DEF TypeOK

(* Action PollAnswered keeps TypeOK. *)
LEMMA PollAnsweredType ==
  ASSUME TypeOK, QueryIsForCall, NEW c \in Cursors, PollAnswered(c)
  PROVE  TypeOK'
<1>1. ServiceTypeOK'
  BY ServiceStutter DEF TypeOK, PollAnswered
<1>2. CallTypeOK' /\ StateTypeOK'
  <2>1. CASE Fail(c)
    BY <2>1, FailType DEF TypeOK
  <2>2. CASE attempts' = [attempts EXCEPT ![c] = 1] /\ ~Fail(c)
    <3>1. StateTypeOK'
      BY <2>2, StateStutter DEF TypeOK, PollAnswered
    <3>2. UNCHANGED <<stmt, execs, batch, total, affected, outcome>>
      BY <2>2 DEF PollAnswered
    <3>3. pc' = pc \/ pc' = [pc EXCEPT ![c] = "collect"]
      BY <2>2 DEF PollAnswered, Goto
    <3>4. pc' \in [Cursors -> Labels]
      <4>1. "collect" \in Labels
        BY DEF Labels
      <4>2. pc \in [Cursors -> Labels]
        BY DEF TypeOK, CallTypeOK
      <4>3. QED BY ONLY <3>3, <4>1, <4>2
    <3>5. attempts' \in [Cursors -> 1..Attempts]
      <4>1. 1 \in 1..Attempts
        BY ConstantsAssumption
      <4>2. attempts \in [Cursors -> 1..Attempts]
        BY DEF TypeOK, CallTypeOK
      <4>3. QED BY ONLY <2>2, <4>1, <4>2
    <3>6. CallTypeOK'
      BY <3>2, <3>4, <3>5 DEF TypeOK, CallTypeOK
    <3>7. QED BY <3>1, <3>6
  <2>3. QED BY <2>1, <2>2 DEF PollAnswered
<1>3. EventTypeOK'
  <2>1. query_id[c] \in QueryIds /\ qstate[query_id[c]] # "none"
    BY DEF TypeOK, StateTypeOK, QueryIsForCall, PollAnswered, AfterStart
  <2>2. qstate[query_id[c]] \in Service!Live \cup Service!Terminal
    BY <2>1 DEF TypeOK, ServiceTypeOK
  <2>3. QED
    BY <2>2 DEF TypeOK, EventTypeOK, PollAnswered, lateVars, cancelVars
<1>4. QED BY <1>1, <1>2, <1>3 DEF TypeOK

(* Action KillAnswered keeps TypeOK. *)
LEMMA KillAnsweredType ==
  ASSUME TypeOK, NEW c \in Cursors, KillAnswered(c)
  PROVE  TypeOK'
<1>1. ServiceTypeOK'
  BY AcceptStopType DEF TypeOK, KillAnswered
<1>2. CallTypeOK'
  BY ConstantsAssumption DEF TypeOK, KillAnswered, ConstantsAssumption, CallTypeOK, Goto, Labels, ApiCalls
<1>3. StateTypeOK'
  BY StateStutter DEF TypeOK, KillAnswered
<1>4. EventTypeOK'
  BY EventStutter DEF TypeOK, KillAnswered
<1>5. QED BY <1>1, <1>2, <1>3, <1>4 DEF TypeOK

(* Action Collect keeps TypeOK. *)
LEMMA CollectType ==
  ASSUME TypeOK, QueryIsForCall, NEW c \in Cursors, NEW count \in Counts, Collect(c, count)
  PROVE  TypeOK'
<1> DEFINE rs == [exec |-> execs[c], query |-> query_id[c], count |-> count]
<1>1. ServiceTypeOK'
  BY ServiceStutter DEF TypeOK, Collect
<1>2. query_id[c] \in QueryIds
  BY DEF TypeOK, StateTypeOK, QueryIsForCall, Collect, AfterStart
<1>3. rs \in ResultSet
  BY <1>2 DEF TypeOK, CallTypeOK, ResultSet
<1>4. CallTypeOK'
  <2>1. AddCount(total[c], count) \in Nat \cup {-1}
    <3>1. total[c] \in Nat \cup {-1}
      BY DEF TypeOK, CallTypeOK
    <3>2. count \in Nat \cup {-1}
      BY ConstantsAssumption DEF ConstantsAssumption
    <3>3. QED BY <3>1, <3>2 DEF AddCount
  <2>2. Append(affected[c], count) \in Seq(Counts)
    BY DEF TypeOK, CallTypeOK
  <2>3. UNCHANGED <<stmt, execs, attempts, batch>>
    BY DEF Collect
  <2>4. pc' \in [Cursors -> Labels] /\ outcome' \in [Cursors -> Labels \cup {"none", "ok"}]
    BY DEF Collect, TypeOK, CallTypeOK, Goto, Labels
  <2>5. total' \in [Cursors -> Nat \cup {-1}]
    BY <2>1 DEF Collect, TypeOK, CallTypeOK
  <2>6. affected' \in [Cursors -> Seq(Counts)]
    BY <2>2 DEF Collect, TypeOK, CallTypeOK
  <2>7. QED BY <2>3, <2>4, <2>5, <2>6 DEF TypeOK, CallTypeOK
<1>5. StateTypeOK'
  BY <1>3 DEF TypeOK, StateTypeOK, Collect
<1>6. EventTypeOK'
  BY EventStutter DEF TypeOK, Collect
<1>7. QED BY <1>1, <1>4, <1>5, <1>6 DEF TypeOK

(* Action RetryApiCall keeps TypeOK. *)
LEMMA RetryApiCallType ==
  ASSUME TypeOK, NEW c \in Cursors, RetryApiCall(c)
  PROVE  TypeOK'
<1>1. ServiceTypeOK'
  BY ServiceStutter DEF TypeOK, RetryApiCall
<1>2. CallTypeOK'
  BY ConstantsAssumption DEF TypeOK, RetryApiCall, ConstantsAssumption, CallTypeOK, AttemptsLeft
<1>3. StateTypeOK'
  BY StateStutter DEF TypeOK, RetryApiCall
<1>4. EventTypeOK'
  BY EventStutter DEF TypeOK, RetryApiCall
<1>5. QED BY <1>1, <1>2, <1>3, <1>4 DEF TypeOK

(* Action RaiseError keeps TypeOK. *)
LEMMA RaiseErrorType ==
  ASSUME TypeOK, NEW c \in Cursors, RaiseError(c)
  PROVE  TypeOK'
<1>1. ServiceTypeOK'
  BY ServiceStutter DEF TypeOK, RaiseError
<1>2. CallTypeOK'
  BY FailType DEF TypeOK, RaiseError
<1>3. StateTypeOK'
  BY FailType DEF TypeOK, RaiseError
<1>4. EventTypeOK'
  BY EventStutter DEF TypeOK, RaiseError
<1>5. QED BY <1>1, <1>2, <1>3, <1>4 DEF TypeOK

(* Action Close keeps TypeOK. *)
LEMMA CloseType ==
  ASSUME TypeOK, NEW c \in Cursors, Close(c)
  PROVE  TypeOK'
<1>1. ServiceTypeOK'
  BY ServiceStutter DEF TypeOK, Close
<1>2. CallTypeOK'
  BY CallStutter DEF TypeOK, Close
<1>3. StateTypeOK'
  BY DEF TypeOK, Close, StateTypeOK
<1>4. EventTypeOK'
  BY EventStutter DEF TypeOK, Close, callVars
<1>5. QED BY <1>1, <1>2, <1>3, <1>4 DEF TypeOK

(* Action CancelCheck keeps TypeOK. *)
LEMMA CancelCheckType ==
  ASSUME TypeOK, NEW c \in Cursors, CancelCheck(c)
  PROVE  TypeOK'
<1>1. ServiceTypeOK'
  BY ServiceStutter DEF TypeOK, CancelCheck
<1>2. CallTypeOK'
  BY CallStutter DEF TypeOK, CancelCheck
<1>3. StateTypeOK'
  BY StateStutter DEF TypeOK, CancelCheck
<1>4. EventTypeOK'
  BY DEF TypeOK, CancelCheck, EventTypeOK, StateTypeOK, callVars, lateVars
<1>5. QED BY <1>1, <1>2, <1>3, <1>4 DEF TypeOK

(* Action CancelRead keeps TypeOK. *)
LEMMA CancelReadType ==
  ASSUME TypeOK, NEW c \in Cursors, CancelRead(c)
  PROVE  TypeOK'
<1>1. ServiceTypeOK'
  BY ServiceStutter DEF TypeOK, CancelRead
<1>2. CallTypeOK'
  BY CallStutter DEF TypeOK, CancelRead
<1>3. StateTypeOK'
  BY StateStutter DEF TypeOK, CancelRead
<1>4. EventTypeOK'
  BY DEF TypeOK, CancelRead, EventTypeOK, StateTypeOK, callVars, lateVars
<1>5. QED BY <1>1, <1>2, <1>3, <1>4 DEF TypeOK

(* Action CancelSend keeps TypeOK. *)
LEMMA CancelSendType ==
  ASSUME TypeOK, NEW c \in Cursors, CancelSend(c)
  PROVE  TypeOK'
<1>1. ServiceTypeOK'
  BY AcceptStopType, ServiceStutter DEF TypeOK, CancelSend
<1>2. CallTypeOK'
  BY CallStutter DEF TypeOK, CancelSend
<1>3. StateTypeOK'
  BY StateStutter DEF TypeOK, CancelSend
<1>4. EventTypeOK'
  BY DEF TypeOK, CancelSend, EventTypeOK, callVars, lateVars
<1>5. QED BY <1>1, <1>2, <1>3, <1>4 DEF TypeOK

(* What an interrupted caller leaves under way is well typed. *)
LEMMA LeaveBehindType ==
  ASSUME TypeOK, QueryIsForCall, NEW c \in Cursors, LeaveBehind(c)
  PROVE  lateStarts' \subseteq Request /\ lateStops' \subseteq QueryIds \X Cursors
<1>1. lateStarts' \subseteq Request
  BY ThisRequestType DEF TypeOK, EventTypeOK, LeaveBehind
<1>2. pc[c] = "kill" => query_id[c] \in QueryIds
  BY DEF TypeOK, StateTypeOK, QueryIsForCall, AfterStart
<1>3. lateStops' \subseteq QueryIds \X Cursors
  BY <1>2 DEF TypeOK, EventTypeOK, LeaveBehind
<1>4. QED BY <1>1, <1>3

(* An interrupt, handled or raised, keeps the types. *)
LEMMA InterruptedType ==
  ASSUME TypeOK, QueryIsForCall, NEW c \in Cursors, Interrupted(c),
         LeaveBehind(c) \/ UNCHANGED lateVars
  PROVE  TypeOK'
<1>1. ServiceTypeOK'
  BY ServiceStutter DEF TypeOK, Interrupted
<1>2. CallTypeOK' /\ StateTypeOK'
  <2>1. CASE Fail(c)
    BY <2>1, FailType DEF TypeOK
  <2>2. CASE ~Fail(c)
    <3>1. StateTypeOK'
      BY <2>2, StateStutter DEF TypeOK, Interrupted
    <3>2. /\ pc' = [pc EXCEPT ![c] = "kill"]
          /\ attempts' = [attempts EXCEPT ![c] = 1]
          /\ UNCHANGED <<stmt, execs, batch, total, affected, outcome>>
      BY <2>2 DEF Interrupted, Goto
    <3>3. CallTypeOK'
      BY <3>2, ConstantsAssumption
      DEF ConstantsAssumption, TypeOK, CallTypeOK, Labels, ApiCalls
    <3>4. QED BY <3>1, <3>3
  <2>3. QED BY <2>1, <2>2
<1>3. EventTypeOK'
  <2>1. lateStarts' \subseteq Request /\ lateStops' \subseteq QueryIds \X Cursors
    BY LeaveBehindType DEF TypeOK, EventTypeOK, lateVars
  <2>2. interrupts' \in [Cursors -> 0..MaxInterrupts]
    BY ConstantsAssumption DEF ConstantsAssumption, TypeOK, EventTypeOK, Interrupted
  <2>3. QED
    BY <2>1, <2>2 DEF TypeOK, EventTypeOK, Interrupted, cancelVars
<1>4. QED BY <1>1, <1>2, <1>3 DEF TypeOK

(* Steps that belong to no call in progress: late requests and Athena itself. *)
LEMMA LateAndServiceType ==
  ASSUME TypeOK,
         \/ \E request \in lateStarts, q \in QueryIds : LateStart(request, q)
         \/ \E stop \in lateStops : LateStop(stop)
         \/ ServiceStep
  PROVE  TypeOK'
<1>1. CallTypeOK' /\ StateTypeOK'
  BY CallStutter, StateStutter DEF TypeOK, LateStart, LateStop, ServiceStep
<1>2. ServiceTypeOK'
  BY CreateQueryType, AcceptStopType, ServiceNextType
  DEF TypeOK, EventTypeOK, LateStart, LateStop, ServiceStep
<1>3. EventTypeOK'
  BY DEF TypeOK, EventTypeOK, LateStart, LateStop, ServiceStep, callVars, lateVars, cancelVars
<1>4. QED BY <1>1, <1>2, <1>3 DEF TypeOK

(* Every step keeps TypeOK: one case per action of Next. *)
LEMMA NextType ==
  ASSUME TypeOK, QueryIsForCall, [Next]_vars
  PROVE  TypeOK'
<1>1. CASE UNCHANGED vars
  BY <1>1, ServiceStutter, CallStutter, StateStutter, EventStutter DEF vars, TypeOK, callVars
<1>2. ASSUME NEW c \in Cursors, Answered(c) PROVE TypeOK'
  BY <1>2, LookupHitType, StartAnsweredType, LookupMissType, CallbacksReturnType,
     PollAnsweredType, KillAnsweredType, CollectType, NextParametersType, FinishBatchType
  DEF Answered
<1>3. ASSUME NEW c \in Cursors, KeyboardInterrupt(c) \/ TaskCancelled(c) PROVE TypeOK'
  BY <1>3, InterruptedType DEF KeyboardInterrupt, TaskCancelled
<1>4. ASSUME NEW c \in Cursors,
             \/ \E s \in Statements : Execute(c, s)
             \/ \E n \in 0..MaxBatch : ExecuteMany(c, n)
             \/ \E q \in QueryIds : StartAnswerLost(c, q)
             \/ RetryApiCall(c) \/ RaiseError(c) \/ Close(c)
             \/ CancelCheck(c) \/ CancelRead(c) \/ CancelSend(c)
      PROVE TypeOK'
  BY <1>4, ExecuteType, ExecuteManyType, StartAnswerLostType, RetryApiCallType,
     RaiseErrorType, CloseType, CancelCheckType, CancelReadType, CancelSendType
<1>5. QED BY <1>1, <1>2, <1>3, <1>4, LateAndServiceType DEF Next
------------------------------------------------------------------------------
(* What every step keeps: queries do not vanish, change hands or leave a     *)
(* terminal state, and a call only moves forward.                            *)

ServiceEvolves ==
  \A q \in QueryIds :
    /\ qstate[q] # "none" => qstate'[q] # "none" /\ qreq'[q] = qreq[q]
    /\ qstate[q] \in Service!Terminal => qstate'[q] = qstate[q]

CallsMoveOn ==
  \A d \in Cursors :
    \/ execs'[d] > execs[d]
    \/ /\ execs'[d] = execs[d]
       /\ pc[d] \notin {"lookup", "start"} => pc'[d] \notin {"lookup", "start"}

(* ServiceEvolves holds of a step that leaves the service alone. *)
LEMMA StutterEvolves == UNCHANGED serviceVars => ServiceEvolves
  BY DEF serviceVars, ServiceEvolves

(* It holds of a query that is created. *)
LEMMA CreateQueryEvolves ==
  ASSUME TypeOK, NEW q \in QueryIds, NEW r, Service!CreateQuery(q, r)
  PROVE  ServiceEvolves
  BY DEF TypeOK, ServiceTypeOK, Service!CreateQuery, ServiceEvolves, Service!Terminal

(* It holds of a stop request. *)
LEMMA AcceptStopEvolves ==
  ASSUME NEW q, NEW c, Service!AcceptStop(q, c)
  PROVE  ServiceEvolves
  BY DEF Service!AcceptStop, ServiceEvolves

(* It holds of the steps the service takes on its own. *)
LEMMA ServiceNextEvolves ==
  ASSUME TypeOK, Service!ServiceNext
  PROVE  ServiceEvolves
  BY DEF TypeOK, ServiceTypeOK, Service!ServiceNext, Service!RunQuery, Service!CompleteQuery,
         Service!CancelQuery, ServiceEvolves, Service!Terminal, Service!Live

(* It holds of every step of the system. *)
LEMMA NextEvolves ==
  ASSUME TypeOK, [Next]_vars
  PROVE  ServiceEvolves
<1>1. CASE UNCHANGED serviceVars
  BY <1>1, StutterEvolves
<1>2. CASE \E q \in QueryIds : \E r : Service!CreateQuery(q, r)
  BY <1>2, CreateQueryEvolves
<1>3. CASE \E q, c : Service!AcceptStop(q, c)
  BY <1>3, AcceptStopEvolves
<1>4. CASE Service!ServiceNext
  BY <1>4, ServiceNextEvolves
<1>5. QED
  <2>1. ASSUME NEW c \in Cursors, Answered(c)
        PROVE \/ UNCHANGED serviceVars
              \/ \E q \in QueryIds : \E r : Service!CreateQuery(q, r)
              \/ \E q, d : Service!AcceptStop(q, d)
    BY <2>1 DEF Answered, LookupHit, StartAnswered, LookupMiss, CallbacksReturn, PollAnswered,
       KillAnswered, Collect, NextParameters, FinishBatch
  <2>2. ASSUME Next
        PROVE \/ UNCHANGED serviceVars
              \/ \E q \in QueryIds : \E r : Service!CreateQuery(q, r)
              \/ \E q, d : Service!AcceptStop(q, d)
              \/ Service!ServiceNext
    BY <2>1, <2>2 DEF Next, Execute, ExecuteMany, StartAnswerLost, RetryApiCall, RaiseError,
       Close, KeyboardInterrupt, TaskCancelled, Interrupted, CancelCheck, CancelRead,
       CancelSend, LateStart, LateStop, ServiceStep
  <2>3. QED BY <2>2, <1>1, <1>2, <1>3, <1>4 DEF vars

(* A step of cursor c moves no other cursor. *)
OthersStay(c) ==
  \A d \in Cursors \ {c} :
    /\ pc'[d] = pc[d] /\ stmt'[d] = stmt[d] /\ execs'[d] = execs[d]
    /\ query_id'[d] = query_id[d] /\ result_set'[d] = result_set[d]
    /\ outcome'[d] = outcome[d] /\ open_rs'[d] = open_rs[d]

CursorStep(c) ==
  \/ \E s \in Statements : Execute(c, s)
  \/ \E n \in 0..MaxBatch : ExecuteMany(c, n)
  \/ Answered(c)
  \/ \E q \in QueryIds : StartAnswerLost(c, q)
  \/ RetryApiCall(c) \/ RaiseError(c) \/ Close(c)
  \/ KeyboardInterrupt(c) \/ TaskCancelled(c)
  \/ CancelCheck(c) \/ CancelRead(c) \/ CancelSend(c)

OtherStep ==
  \/ \E request \in lateStarts, q \in QueryIds : LateStart(request, q)
  \/ \E stop \in lateStops : LateStop(stop)
  \/ ServiceStep
  \/ UNCHANGED vars

(* A step is one of a cursor's call, or leaves all calls alone. *)
LEMMA StepKinds == [Next]_vars => OtherStep \/ \E c \in Cursors : CursorStep(c)
  BY DEF Next, OtherStep, CursorStep

(* A call that fails leaves the other cursors alone. *)
LEMMA FailOthersStay ==
  ASSUME TypeOK, NEW c \in Cursors, Fail(c)
  PROVE  OthersStay(c)
  BY DEF TypeOK, CallTypeOK, StateTypeOK, Fail, Goto, OthersStay

(* A step of one cursor's call leaves the other cursors alone. *)
LEMMA CursorStepOthersStay ==
  ASSUME TypeOK, NEW c \in Cursors, CursorStep(c)
  PROVE  OthersStay(c)
<1> USE DEF TypeOK, CallTypeOK, StateTypeOK, Goto, OthersStay, stateVars, callVars
<1>1. CASE Fail(c)
  BY <1>1, FailOthersStay
<1>2. CASE \E s \in Statements : Execute(c, s) \/ NextParameters(c, s)
  BY <1>2 DEF Execute, NextParameters, EnterExecute, ResetState
<1>3. CASE (\E n \in 0..MaxBatch : ExecuteMany(c, n)) \/ FinishBatch(c)
  BY <1>3 DEF ExecuteMany, FinishBatch, ResetState
<1>4. CASE \E q \in QueryIds : LookupHit(c, q) \/ StartAnswered(c, q)
  BY <1>4 DEF LookupHit, StartAnswered, AssignQueryId
<1>5. CASE LookupMiss(c) \/ CallbacksReturn(c)
  BY <1>5 DEF LookupMiss, CallbacksReturn
<1>6. CASE PollAnswered(c) /\ ~Fail(c)
  BY <1>6 DEF PollAnswered
<1>7. CASE KillAnswered(c)
  BY <1>7 DEF KillAnswered
<1>8. CASE \E count \in Counts : Collect(c, count)
  BY <1>8 DEF Collect
<1>9. CASE RetryApiCall(c) \/ Close(c) \/ CancelCheck(c) \/ CancelRead(c) \/ CancelSend(c)
  BY <1>9 DEF RetryApiCall, Close, CancelCheck, CancelRead, CancelSend
<1>10. CASE Interrupted(c) /\ ~Fail(c)
  BY <1>10 DEF Interrupted
<1>11. QED
  BY <1>1, <1>2, <1>3, <1>4, <1>5, <1>6, <1>7, <1>8, <1>9, <1>10
  DEF CursorStep, Answered, StartAnswerLost, RaiseError, KeyboardInterrupt, TaskCancelled

(* Service, cancel() and late requests leave all calls alone. *)
LEMMA OtherStepStays == OtherStep => UNCHANGED callVars /\ UNCHANGED stateVars
  BY DEF OtherStep, LateStart, LateStop, ServiceStep, vars
------------------------------------------------------------------------------
(* The call invariant: QueryIsForCall and ResultSetIsCurrent, one cursor at  *)
(* a time.                                                                   *)

CallInv(c) ==
  /\ query_id[c] # NULL => qstate[query_id[c]] # "none"
  /\ pc[c] \in AfterStart => query_id[c] # NULL /\ qreq[query_id[c]].stmt = stmt[c]
  /\ pc[c] = "collect" => qstate[query_id[c]] = "SUCCEEDED"
  /\ pc[c] \notin {"idle", "batch"} => result_set[c] = NULL
  /\ result_set[c] # NULL =>
       /\ result_set[c].exec = execs[c]
       /\ result_set[c].query = query_id[c]
       /\ query_id[c] # NULL
       /\ qstate[query_id[c]] = "SUCCEEDED"
       /\ qreq[query_id[c]].stmt = stmt[c]

(* A cursor's part of the invariant survives a step elsewhere. *)
LEMMA CallInvFrame ==
  ASSUME TypeOK, NEW c \in Cursors, CallInv(c), ServiceEvolves,
         pc'[c] = pc[c], stmt'[c] = stmt[c], execs'[c] = execs[c],
         query_id'[c] = query_id[c], result_set'[c] = result_set[c]
  PROVE  CallInv(c)'
<1>1. query_id[c] = NULL \/ query_id[c] \in QueryIds
  BY DEF TypeOK, StateTypeOK
<1>2. QED
  BY <1>1 DEF CallInv, ServiceEvolves, Service!Terminal, AfterStart

(* It holds of a cursor that has no query and no result set. *)
LEMMA CallInvNoQuery ==
  ASSUME NEW c \in Cursors, query_id'[c] = NULL, result_set'[c] = NULL,
         pc'[c] \notin AfterStart
  PROVE  CallInv(c)'
  BY DEF CallInv, AfterStart

(* It holds after an exception has left execute(). *)
LEMMA CallInvFail ==
  ASSUME TypeOK, NEW c \in Cursors, CallInv(c), ServiceEvolves, Fail(c)
  PROVE  CallInv(c)'
<1>1. query_id[c] = NULL \/ query_id[c] \in QueryIds
  BY DEF TypeOK, StateTypeOK
<1>2. pc'[c] = "idle" /\ result_set'[c] = NULL /\ query_id'[c] = query_id[c]
  BY DEF Fail, Goto, TypeOK, CallTypeOK, StateTypeOK
<1>3. QED
  BY <1>1, <1>2 DEF CallInv, ServiceEvolves, AfterStart

(* Between the start of polling and the result set only pc moves. *)
LEMMA CallInvPolling ==
  ASSUME TypeOK, NEW c \in Cursors, CallInv(c), ServiceEvolves,
         pc[c] \in AfterStart, pc'[c] \in AfterStart, UNCHANGED <<stmt, execs, query_id, result_set>>,
         pc'[c] = "collect" => qstate[query_id[c]] = "SUCCEEDED"
  PROVE  CallInv(c)'
<1>1. query_id[c] \in QueryIds
  BY DEF TypeOK, StateTypeOK, CallInv
<1>2. QED
  BY <1>1 DEF CallInv, ServiceEvolves, Service!Terminal, AfterStart

(* A step of a cursor's call keeps its part of the invariant. *)
LEMMA CursorStepCallInv ==
  ASSUME TypeOK, NEW c \in Cursors, CallInv(c), ServiceEvolves, CursorStep(c)
  PROVE  CallInv(c)'
<1>1. CASE Fail(c)
  BY <1>1, CallInvFail
<1>2. CASE \E s \in Statements : Execute(c, s) \/ NextParameters(c, s)
  BY <1>2, CallInvNoQuery
  DEF Execute, NextParameters, EnterExecute, ResetState, Goto, TypeOK, CallTypeOK, StateTypeOK, AfterStart
<1>3. CASE (\E n \in 0..MaxBatch : ExecuteMany(c, n)) \/ FinishBatch(c)
  BY <1>3, CallInvNoQuery
  DEF ExecuteMany, FinishBatch, ResetState, Goto, TypeOK, CallTypeOK, StateTypeOK, AfterStart
<1>4. ASSUME NEW q \in QueryIds, AssignQueryId(c, q), pc[c] \in {"lookup", "start"},
             qstate'[q] # "none", qreq'[q].stmt = stmt[c]
      PROVE  CallInv(c)'
  <2>1. /\ query_id'[c] = q /\ pc'[c] = "callback" /\ result_set'[c] = NULL
        /\ stmt'[c] = stmt[c] /\ execs'[c] = execs[c]
    BY <1>4 DEF AssignQueryId, Goto, TypeOK, CallTypeOK, StateTypeOK, CallInv
  <2>2. q # NULL
    BY ConstantsAssumption DEF ConstantsAssumption
  <2>3. QED BY <1>4, <2>1, <2>2 DEF CallInv
<1>5. CASE \E q \in QueryIds : LookupHit(c, q)
  <2>1. PICK q \in QueryIds : LookupHit(c, q)
    BY <1>5
  <2>2. QED
    BY <2>1, <1>4 DEF LookupHit, Reusable, serviceVars
<1>6. CASE \E q \in QueryIds : StartAnswered(c, q)
  <2>1. PICK q \in QueryIds : StartAnswered(c, q)
    BY <1>6
  <2>2. qstate'[q] # "none" /\ qreq'[q] = ThisRequest(c)
    BY <2>1 DEF StartAnswered, Service!CreateQuery, TypeOK, ServiceTypeOK
  <2>3. ThisRequest(c).stmt = stmt[c]
    BY DEF ThisRequest
  <2>4. QED
    BY <2>1, <2>2, <2>3, <1>4 DEF StartAnswered
<1>7. CASE LookupMiss(c)
  BY <1>7 DEF LookupMiss, Goto, CallInv, AfterStart, TypeOK, CallTypeOK, stateVars, serviceVars
<1>8. CASE CallbacksReturn(c) \/ KillAnswered(c)
  BY <1>8, CallInvPolling
  DEF CallbacksReturn, KillAnswered, Goto, AfterStart, TypeOK, CallTypeOK, stateVars
<1>9. CASE PollAnswered(c) /\ ~Fail(c)
  BY <1>9, CallInvPolling
  DEF PollAnswered, Goto, AfterStart, TypeOK, CallTypeOK, stateVars
<1>10. CASE Interrupted(c) /\ ~Fail(c)
  BY <1>10, CallInvPolling DEF Interrupted, Goto, AfterStart, TypeOK, CallTypeOK, stateVars
<1>11. CASE \E count \in Counts : Collect(c, count)
  <2>1. PICK count \in Counts : Collect(c, count)
    BY <1>11
  <2>2. query_id[c] \in QueryIds /\ qstate[query_id[c]] = "SUCCEEDED" /\ query_id[c] # NULL
        /\ qreq[query_id[c]].stmt = stmt[c]
    BY <2>1 DEF Collect, CallInv, AfterStart, TypeOK, StateTypeOK
  <2>3. /\ pc'[c] \in {"idle", "batch"}
        /\ result_set'[c] = [exec |-> execs[c], query |-> query_id[c], count |-> count]
        /\ UNCHANGED <<query_id, execs, stmt, qstate, qreq>>
    BY <2>1 DEF Collect, Goto, TypeOK, CallTypeOK, StateTypeOK, serviceVars
  <2>4. QED BY <2>2, <2>3 DEF CallInv, AfterStart
<1>12. CASE RetryApiCall(c) \/ Close(c) \/ CancelCheck(c) \/ CancelRead(c) \/ CancelSend(c)
  BY <1>12, CallInvFrame
  DEF RetryApiCall, Close, CancelCheck, CancelRead, CancelSend, callVars, stateVars
<1>13. QED
  BY <1>1, <1>2, <1>3, <1>5, <1>6, <1>7, <1>8, <1>9, <1>10, <1>11, <1>12
  DEF CursorStep, Answered, StartAnswerLost, RaiseError, KeyboardInterrupt, TaskCancelled

(* QueryIsForCall and ResultSetIsCurrent, cursor by cursor. *)
LEMMA CallInvs ==
  ASSUME TypeOK
  PROVE  (\A c \in Cursors : CallInv(c)) <=> QueryIsForCall /\ ResultSetIsCurrent
<1>1. ASSUME NEW c \in Cursors, result_set[c] # NULL, result_set[c].query = query_id[c]
      PROVE  query_id[c] # NULL
  <2>1. result_set[c] \in ResultSet
    BY <1>1 DEF TypeOK, StateTypeOK
  <2>2. query_id[c] \in QueryIds
    BY <1>1, <2>1 DEF ResultSet
  <2>3. QED BY <2>2, ConstantsAssumption DEF ConstantsAssumption
<1>2. QED BY <1>1 DEF CallInv, QueryIsForCall, ResultSetIsCurrent

(* Every step keeps QueryIsForCall and ResultSetIsCurrent. *)
LEMMA NextCall ==
  ASSUME TypeOK, \A c \in Cursors : CallInv(c), [Next]_vars
  PROVE  \A c \in Cursors : CallInv(c)'
<1>1. ServiceEvolves
  BY NextEvolves
<1>2. CASE OtherStep
  BY <1>1, <1>2, OtherStepStays, CallInvFrame DEF callVars, stateVars
<1>3. ASSUME NEW d \in Cursors, CursorStep(d), NEW c \in Cursors
      PROVE  CallInv(c)'
  <2>1. CASE c = d
    BY <1>1, <1>3, <2>1, CursorStepCallInv
  <2>2. CASE c # d
    <3>1. OthersStay(d)
      BY <1>3, CursorStepOthersStay
    <3>2. QED BY <1>1, <2>2, <3>1, CallInvFrame DEF OthersStay
  <2>3. QED BY <2>1, <2>2
<1>4. QED BY <1>2, <1>3, StepKinds
------------------------------------------------------------------------------
(* Requests: RequestsAreSpent and AtMostOneQueryPerExecute.                  *)

(* A call never goes back before its start request. *)
LEMMA NextMovesOn ==
  ASSUME TypeOK, [Next]_vars
  PROVE  CallsMoveOn
<1>1. CASE OtherStep
  BY <1>1, OtherStepStays DEF callVars, CallsMoveOn
<1>2. ASSUME NEW c \in Cursors, CursorStep(c)
      PROVE  CallsMoveOn
  <2> USE DEF Goto, TypeOK, CallTypeOK
  <2>1. \/ execs'[c] > execs[c]
        \/ execs'[c] = execs[c] /\ (pc[c] \notin {"lookup", "start"} => pc'[c] \notin {"lookup", "start"})
    <3>1. CASE Fail(c)
      BY <3>1 DEF Fail
    <3>2. CASE \E s \in Statements : Execute(c, s) \/ NextParameters(c, s)
      <4>1. execs' = [execs EXCEPT ![c] = execs[c] + 1]
        BY <3>2 DEF Execute, NextParameters, EnterExecute
      <4>2. execs[c] \in Nat
        BY ConstantsAssumption DEF ConstantsAssumption
      <4>3. QED BY <4>1, <4>2
    <3>3. CASE (\E n \in 0..MaxBatch : ExecuteMany(c, n)) \/ FinishBatch(c)
      BY <3>3 DEF ExecuteMany, FinishBatch
    <3>4. CASE \E q \in QueryIds : LookupHit(c, q) \/ StartAnswered(c, q)
      BY <3>4 DEF LookupHit, StartAnswered, AssignQueryId
    <3>5. CASE LookupMiss(c) \/ CallbacksReturn(c) \/ KillAnswered(c)
      BY <3>5 DEF LookupMiss, CallbacksReturn, KillAnswered
    <3>6. CASE PollAnswered(c) /\ ~Fail(c)
      BY <3>6 DEF PollAnswered
    <3>7. CASE \E count \in Counts : Collect(c, count)
      BY <3>7 DEF Collect
    <3>8. CASE RetryApiCall(c) \/ Close(c) \/ CancelCheck(c) \/ CancelRead(c) \/ CancelSend(c)
      BY <3>8 DEF RetryApiCall, Close, CancelCheck, CancelRead, CancelSend, callVars
    <3>9. CASE Interrupted(c) /\ ~Fail(c)
      BY <3>9 DEF Interrupted
    <3>10. QED
      BY <1>2, <3>1, <3>2, <3>3, <3>4, <3>5, <3>6, <3>7, <3>8, <3>9
      DEF CursorStep, Answered, StartAnswerLost, RaiseError, KeyboardInterrupt, TaskCancelled
  <2>2. OthersStay(c)
    BY <1>2, CursorStepOthersStay
  <2>3. QED BY <2>1, <2>2 DEF CallsMoveOn, OthersStay
<1>3. QED BY <1>1, <1>2, StepKinds

(* Spent after the step, of a request of before it. *)
StillSpent(r) ==
  /\ r.exec <= execs'[r.by]
  /\ r.exec = execs'[r.by] => pc'[r.by] \notin {"lookup", "start"}

(* So a spent request stays spent. *)
LEMMA SpentStays ==
  ASSUME TypeOK, TypeOK', CallsMoveOn, NEW r \in Request, Spent(r)
  PROVE  StillSpent(r)
<1>1. r.by \in Cursors /\ r.exec \in Int
  BY ConstantsAssumption DEF Request, ConstantsAssumption
<1>2. execs[r.by] \in Int /\ execs'[r.by] \in Int
  BY <1>1, ConstantsAssumption DEF TypeOK, CallTypeOK, ConstantsAssumption
<1>3. CASE execs'[r.by] > execs[r.by]
  BY <1>1, <1>2, <1>3 DEF Spent, StillSpent
<1>4. CASE execs'[r.by] = execs[r.by] /\ (pc[r.by] \notin {"lookup", "start"} => pc'[r.by] \notin {"lookup", "start"})
  BY <1>4 DEF Spent, StillSpent
<1>5. QED BY <1>1, <1>3, <1>4 DEF CallsMoveOn

(* The four things a step can do to requests. *)
RequestsKept ==
  /\ qreq' = qreq
  /\ \A q \in QueryIds : qstate'[q] = "none" <=> qstate[q] = "none"
  /\ lateStarts' = lateStarts

RequestAccepted(c, q) ==
  /\ pc[c] = "start" /\ pc'[c] \notin {"lookup", "start"} /\ execs'[c] = execs[c]
  /\ Service!CreateQuery(q, ThisRequest(c))
  /\ lateStarts' = lateStarts

RequestLeft(c) ==
  /\ pc[c] = "start" /\ pc'[c] \notin {"lookup", "start"} /\ execs'[c] = execs[c]
  /\ UNCHANGED <<qstate, qreq>>
  /\ lateStarts' = lateStarts \cup {ThisRequest(c)}

LateAccepted(r, q) ==
  /\ r \in lateStarts /\ lateStarts' = lateStarts \ {r}
  /\ Service!CreateQuery(q, r)

(* A step without a new request keeps RequestsAreSpent. *)
LEMMA KeptRequests ==
  ASSUME TypeOK, TypeOK', RequestsAreSpent, AtMostOneQueryPerExecute, CallsMoveOn, RequestsKept
  PROVE  RequestsAreSpent' /\ AtMostOneQueryPerExecute'
<1>1. \A q \in QueryIds : qreq[q] # NULL => StillSpent(qreq[q])
  BY SpentStays DEF RequestsAreSpent, TypeOK, ServiceTypeOK, RequestsKept
<1>2. \A r \in lateStarts : StillSpent(r)
  BY SpentStays DEF RequestsAreSpent, TypeOK, EventTypeOK
<1>3. QED
  BY <1>1, <1>2 DEF RequestsAreSpent, RequestsKept, AtMostOneQueryPerExecute, Spent, StillSpent

(* The request of a cursor at "start" is new: no query and no request left   *)
(* behind has the same execute().                                            *)
LEMMA RequestIsNew ==
  ASSUME TypeOK, RequestsAreSpent, NEW c \in Cursors, pc[c] = "start"
  PROVE  /\ \A q \in QueryIds : qreq[q] # NULL => <<qreq[q].by, qreq[q].exec>> # <<c, execs[c]>>
         /\ \A r \in lateStarts : <<r.by, r.exec>> # <<c, execs[c]>>
  BY DEF RequestsAreSpent, Spent

(* No request has been spent for an execution about to start. *)
LEMMA ThisRequestSpent ==
  ASSUME TypeOK, NEW c \in Cursors, pc'[c] \notin {"lookup", "start"}, execs'[c] = execs[c]
  PROVE  \A r : (r.by = c /\ r.exec = execs[c]) => StillSpent(r)
<1>1. execs[c] \in Int
  BY ConstantsAssumption DEF ConstantsAssumption, TypeOK, CallTypeOK
<1>2. QED BY <1>1 DEF StillSpent

(* A start request that is accepted keeps RequestsAreSpent. *)
LEMMA AcceptedRequests ==
  ASSUME TypeOK, TypeOK', RequestsAreSpent, AtMostOneQueryPerExecute, CallsMoveOn,
         NEW c \in Cursors, NEW q \in QueryIds, RequestAccepted(c, q)
  PROVE  RequestsAreSpent' /\ AtMostOneQueryPerExecute'
<1> DEFINE new == ThisRequest(c)
<1>1. new \in Request /\ new.by = c /\ new.exec = execs[c] /\ new # NULL
  <2>1. new \in Request
    BY ThisRequestType DEF TypeOK
  <2>2. QED BY <2>1, ConstantsAssumption DEF ThisRequest, Request, ConstantsAssumption
<1>2. /\ qstate'[q] # "none" /\ qreq'[q] = new /\ lateStarts' = lateStarts
      /\ \A p \in QueryIds \ {q} : qstate'[p] = qstate[p] /\ qreq'[p] = qreq[p]
  BY DEF RequestAccepted, Service!CreateQuery, TypeOK, ServiceTypeOK
<1>3. StillSpent(new)
  BY <1>1, ThisRequestSpent DEF RequestAccepted
<1>4. \A p \in QueryIds \ {q} : qreq[p] # NULL => StillSpent(qreq[p])
  BY SpentStays DEF RequestsAreSpent, TypeOK, ServiceTypeOK
<1>5. \A r \in lateStarts : StillSpent(r)
  BY SpentStays DEF RequestsAreSpent, TypeOK, EventTypeOK
<1>6. /\ \A p \in QueryIds : qreq[p] # NULL => <<qreq[p].by, qreq[p].exec>> # <<new.by, new.exec>>
      /\ \A r \in lateStarts : <<r.by, r.exec>> # <<new.by, new.exec>>
  BY <1>1, RequestIsNew DEF RequestAccepted
<1>7. AtMostOneQueryPerExecute'
  BY <1>1, <1>2, <1>6 DEF AtMostOneQueryPerExecute
<1>8. RequestsAreSpent'
  BY <1>1, <1>2, <1>3, <1>4, <1>5, <1>6 DEF RequestsAreSpent, Spent, StillSpent
<1>9. QED BY <1>7, <1>8

(* One that is left under way by an interrupt does, too. *)
LEMMA LeftRequests ==
  ASSUME TypeOK, TypeOK', RequestsAreSpent, AtMostOneQueryPerExecute, CallsMoveOn,
         NEW c \in Cursors, RequestLeft(c)
  PROVE  RequestsAreSpent' /\ AtMostOneQueryPerExecute'
<1> DEFINE new == ThisRequest(c)
<1>1. new.by = c /\ new.exec = execs[c]
  BY DEF ThisRequest
<1>2. StillSpent(new)
  BY <1>1, ThisRequestSpent DEF RequestLeft
<1>3. \A q \in QueryIds : qreq[q] # NULL => StillSpent(qreq[q])
  BY SpentStays DEF RequestsAreSpent, TypeOK, ServiceTypeOK
<1>4. \A r \in lateStarts : StillSpent(r)
  BY SpentStays DEF RequestsAreSpent, TypeOK, EventTypeOK
<1>5. /\ \A q \in QueryIds : qreq[q] # NULL => <<qreq[q].by, qreq[q].exec>> # <<new.by, new.exec>>
      /\ \A r \in lateStarts : <<r.by, r.exec>> # <<new.by, new.exec>>
  BY <1>1, RequestIsNew DEF RequestLeft
<1>6. UNCHANGED <<qstate, qreq>> /\ lateStarts' = lateStarts \cup {new}
  BY DEF RequestLeft
<1>7. RequestsAreSpent'
  BY <1>2, <1>3, <1>4, <1>5, <1>6 DEF RequestsAreSpent, Spent, StillSpent
<1>8. QED BY <1>6, <1>7 DEF AtMostOneQueryPerExecute

(* One that arrives after its caller was interrupted does, too. *)
LEMMA LateRequests ==
  ASSUME TypeOK, TypeOK', RequestsAreSpent, AtMostOneQueryPerExecute, CallsMoveOn,
         NEW r \in Request, NEW q \in QueryIds, LateAccepted(r, q)
  PROVE  RequestsAreSpent' /\ AtMostOneQueryPerExecute'
<1>1. r # NULL
  BY ConstantsAssumption DEF ConstantsAssumption, Request
<1>2. /\ qstate'[q] # "none" /\ qreq'[q] = r /\ lateStarts' = lateStarts \ {r} /\ r \in lateStarts
      /\ \A p \in QueryIds \ {q} : qstate'[p] = qstate[p] /\ qreq'[p] = qreq[p]
  BY DEF LateAccepted, Service!CreateQuery, TypeOK, ServiceTypeOK
<1>3. StillSpent(r)
  BY <1>2, SpentStays DEF RequestsAreSpent
<1>4. \A p \in QueryIds \ {q} : qreq[p] # NULL => StillSpent(qreq[p])
  BY SpentStays DEF RequestsAreSpent, TypeOK, ServiceTypeOK
<1>5. \A s \in lateStarts : StillSpent(s)
  BY SpentStays DEF RequestsAreSpent, TypeOK, EventTypeOK
<1>6. /\ \A p \in QueryIds : qreq[p] # NULL => <<qreq[p].by, qreq[p].exec>> # <<r.by, r.exec>>
      /\ \A s \in lateStarts' : <<s.by, s.exec>> # <<r.by, r.exec>>
  BY <1>2 DEF RequestsAreSpent
<1>7. AtMostOneQueryPerExecute'
  BY <1>1, <1>2, <1>6 DEF AtMostOneQueryPerExecute
<1>8. RequestsAreSpent'
  BY <1>1, <1>2, <1>3, <1>4, <1>5, <1>6 DEF RequestsAreSpent, Spent, StillSpent
<1>9. QED BY <1>7, <1>8

(* Every step does one of these things to the start requests. *)
LEMMA RequestKinds ==
  ASSUME TypeOK, [Next]_vars
  PROVE  \/ RequestsKept
         \/ \E c \in Cursors, q \in QueryIds : RequestAccepted(c, q)
         \/ \E c \in Cursors : RequestLeft(c)
         \/ \E r \in Request, q \in QueryIds : LateAccepted(r, q)
<1>1. CASE UNCHANGED serviceVars /\ lateStarts' = lateStarts
  BY <1>1 DEF RequestsKept, serviceVars
<1>2. CASE (\E q, c : Service!AcceptStop(q, c)) /\ lateStarts' = lateStarts
  BY <1>2 DEF RequestsKept, Service!AcceptStop
<1>3. CASE ServiceStep
  BY <1>3 DEF RequestsKept, ServiceStep, Service!ServiceNext, Service!RunQuery,
     Service!CompleteQuery, Service!CancelQuery, Service!Live, TypeOK, ServiceTypeOK, lateVars
<1>4. ASSUME NEW r \in lateStarts, NEW q \in QueryIds, LateStart(r, q)
      PROVE  \E t \in Request, p \in QueryIds : LateAccepted(t, p)
  BY <1>4 DEF LateStart, LateAccepted, TypeOK, EventTypeOK
<1>5. ASSUME NEW c \in Cursors, NEW q \in QueryIds, StartAnswered(c, q) \/ StartAnswerLost(c, q)
      PROVE  RequestAccepted(c, q)
  <2>1. pc'[c] \in {"callback", "idle"} /\ execs' = execs
    BY <1>5 DEF StartAnswered, StartAnswerLost, AssignQueryId, Fail, Goto, TypeOK, CallTypeOK
  <2>2. QED
    BY <1>5, <2>1 DEF StartAnswered, StartAnswerLost, RequestAccepted, lateVars
<1>6. ASSUME NEW c \in Cursors, KeyboardInterrupt(c) \/ TaskCancelled(c), lateStarts' # lateStarts
      PROVE  RequestLeft(c)
  <2>1. pc[c] = "start" /\ lateStarts' = lateStarts \cup {ThisRequest(c)} /\ Interrupted(c)
    BY <1>6 DEF KeyboardInterrupt, TaskCancelled, LeaveBehind, lateVars
  <2>2. pc'[c] = "idle" /\ execs' = execs /\ UNCHANGED serviceVars
    BY <2>1 DEF Interrupted, Fail, Goto, TypeOK, CallTypeOK
  <2>3. QED BY <2>1, <2>2 DEF RequestLeft, serviceVars
<1>7. ASSUME NEW c \in Cursors, KeyboardInterrupt(c) \/ TaskCancelled(c), lateStarts' = lateStarts
      PROVE  RequestsKept
  BY <1>7 DEF KeyboardInterrupt, TaskCancelled, Interrupted, RequestsKept, serviceVars
<1>8. ASSUME NEW c \in Cursors, CursorStep(c),
             ~(KeyboardInterrupt(c) \/ TaskCancelled(c)),
             ~\E q \in QueryIds : StartAnswered(c, q) \/ StartAnswerLost(c, q)
      PROVE  \/ UNCHANGED serviceVars /\ lateStarts' = lateStarts
             \/ (\E q, d : Service!AcceptStop(q, d)) /\ lateStarts' = lateStarts
  <2>1. CASE Answered(c)
    BY <1>8, <2>1 DEF Answered, LookupHit, LookupMiss, CallbacksReturn, PollAnswered,
       KillAnswered, Collect, NextParameters, FinishBatch, lateVars
  <2>2. CASE ~Answered(c)
    BY <1>8, <2>2 DEF CursorStep, Execute, ExecuteMany, RetryApiCall, RaiseError, Close,
       CancelCheck, CancelRead, CancelSend, lateVars
  <2>3. QED BY <2>1, <2>2
<1>9. CASE UNCHANGED vars \/ \E stop \in lateStops : LateStop(stop)
  BY <1>1, <1>2, <1>9 DEF vars, lateVars, LateStop
<1>10. QED
  BY <1>1, <1>2, <1>3, <1>4, <1>5, <1>6, <1>7, <1>8, <1>9, StepKinds DEF OtherStep

(* Every step keeps the invariants about start requests. *)
LEMMA NextRequests ==
  ASSUME TypeOK, TypeOK', RequestsAreSpent, AtMostOneQueryPerExecute, [Next]_vars
  PROVE  RequestsAreSpent' /\ AtMostOneQueryPerExecute'
  BY NextMovesOn, RequestKinds, KeptRequests, AcceptedRequests, LeftRequests, LateRequests
------------------------------------------------------------------------------
(* Stop requests: StopsAreAimed and StopsOwnQueriesOnly.                     *)

(* OwnOrOver after the step, of a query id of before it. *)
StillOwnOrOver(q, c) == qreq'[q].by = c \/ qstate'[q] \in Service!Terminal

(* A query stays its cursor's own, or over. *)
LEMMA OwnOrOverStays ==
  ASSUME ServiceEvolves, NEW q \in QueryIds, NEW c, qstate[q] # "none", OwnOrOver(q, c)
  PROVE  qstate'[q] # "none" /\ StillOwnOrOver(q, c)
  BY DEF ServiceEvolves, OwnOrOver, StillOwnOrOver

(* A step leaves query_id alone, resets it, or sets it to an own or a        *)
(* finished query.                                                           *)
LEMMA QueryIdKinds ==
  ASSUME TypeOK, QueryIsForCall, ServiceEvolves, NEW c \in Cursors, CursorStep(c)
  PROVE  \/ query_id'[c] = query_id[c]
         \/ query_id'[c] = NULL
         \/ \E q \in QueryIds : query_id'[c] = q /\ StillOwnOrOver(q, c)
<1> USE DEF TypeOK, StateTypeOK, stateVars
<1>1. ASSUME NEW q \in QueryIds, LookupHit(c, q)
      PROVE  query_id'[c] = q /\ StillOwnOrOver(q, c)
  BY <1>1 DEF LookupHit, Reusable, AssignQueryId, StillOwnOrOver, Service!Terminal, serviceVars
<1>2. ASSUME NEW q \in QueryIds, StartAnswered(c, q)
      PROVE  query_id'[c] = q /\ StillOwnOrOver(q, c)
  BY <1>2 DEF StartAnswered, AssignQueryId, Service!CreateQuery, ThisRequest, StillOwnOrOver, ServiceTypeOK
<1>3. CASE \E s \in Statements : Execute(c, s) \/ NextParameters(c, s)
  BY <1>3 DEF Execute, NextParameters, EnterExecute, ResetState
<1>4. CASE (\E n \in 0..MaxBatch : ExecuteMany(c, n)) \/ FinishBatch(c)
  BY <1>4 DEF ExecuteMany, FinishBatch, ResetState
<1>5. CASE Fail(c)
  BY <1>5 DEF Fail
<1>6. CASE PollAnswered(c) \/ KillAnswered(c) \/ LookupMiss(c) \/ CallbacksReturn(c)
  BY <1>5, <1>6 DEF PollAnswered, KillAnswered, LookupMiss, CallbacksReturn
<1>7. CASE \E count \in Counts : Collect(c, count)
  BY <1>7 DEF Collect
<1>8. CASE RetryApiCall(c) \/ Close(c) \/ CancelCheck(c) \/ CancelRead(c) \/ CancelSend(c)
  BY <1>8 DEF RetryApiCall, Close, CancelCheck, CancelRead, CancelSend
<1>9. CASE Interrupted(c)
  BY <1>5, <1>9 DEF Interrupted
<1>10. QED
  BY <1>1, <1>2, <1>3, <1>4, <1>5, <1>6, <1>7, <1>8, <1>9
  DEF CursorStep, Answered, StartAnswerLost, RaiseError, KeyboardInterrupt, TaskCancelled

(* Every step keeps the invariants about stop requests. *)
LEMMA NextAimed ==
  ASSUME TypeOK, TypeOK', QueryIsForCall, StopsAreAimed, StopsOwnQueriesOnly, [Next]_vars
  PROVE  StopsAreAimed' /\ StopsOwnQueriesOnly'
<1>1. ServiceEvolves
  BY NextEvolves
<1>2. \A c \in Cursors : query_id'[c] # NULL => OwnOrOver(query_id[c], c)'
  <2>1. SUFFICES ASSUME NEW c \in Cursors, query_id'[c] # NULL
                 PROVE  StillOwnOrOver(query_id'[c], c)
    BY DEF OwnOrOver, StillOwnOrOver
  <2>2. CASE query_id'[c] = query_id[c]
    <3>1. query_id[c] \in QueryIds /\ qstate[query_id[c]] # "none" /\ OwnOrOver(query_id[c], c)
      BY <2>1, <2>2 DEF TypeOK, StateTypeOK, QueryIsForCall, StopsAreAimed
    <3>2. QED BY <1>1, <2>2, <3>1, OwnOrOverStays
  <2>3. CASE \E q \in QueryIds : query_id'[c] = q /\ StillOwnOrOver(q, c)
    BY <2>3
  <2>4. CASE OtherStep
    BY <2>2, <2>4, OtherStepStays DEF stateVars
  <2>5. ASSUME NEW d \in Cursors, CursorStep(d), c # d
        PROVE query_id'[c] = query_id[c]
    BY <2>5, CursorStepOthersStay DEF OthersStay
  <2>6. QED
    BY <1>1, <2>1, <2>2, <2>3, <2>4, <2>5, StepKinds, QueryIdKinds
<1>3. \/ UNCHANGED cancelVars
      \/ \E c \in Cursors : CancelCheck(c) \/ CancelRead(c) \/ CancelSend(c)
  BY StepKinds DEF CursorStep, Answered, LookupHit, StartAnswered, LookupMiss, CallbacksReturn,
     PollAnswered, KillAnswered, Collect, NextParameters, FinishBatch, Execute, ExecuteMany,
     StartAnswerLost, RetryApiCall, RaiseError, Close, KeyboardInterrupt, TaskCancelled,
     Interrupted, OtherStep, LateStart, LateStop, ServiceStep, vars
<1>4. \A c \in Cursors :
        /\ cpc'[c] = "sending" => target'[c] # NULL
        /\ target'[c] # NULL =>
             \/ target'[c] = target[c]
             \/ target'[c] = query_id[c]
  <2>1. CASE UNCHANGED cancelVars
    BY <2>1 DEF StopsAreAimed, cancelVars
  <2>2. ASSUME NEW d \in Cursors, CancelCheck(d) \/ CancelRead(d) \/ CancelSend(d),
               NEW c \in Cursors
        PROVE  /\ cpc'[c] = "sending" => target'[c] # NULL
               /\ target'[c] # NULL =>
                    \/ target'[c] = target[c]
                    \/ target'[c] = query_id[c]
    BY <2>2 DEF CancelCheck, CancelRead, CancelSend, StopsAreAimed, TypeOK, EventTypeOK
  <2>3. QED BY <1>3, <2>1, <2>2
<1>5. ASSUME NEW c \in Cursors, target'[c] # NULL
      PROVE  qstate'[target'[c]] # "none" /\ StillOwnOrOver(target'[c], c)
  <2>1. target'[c] \in QueryIds
    BY <1>5 DEF TypeOK, EventTypeOK
  <2>2. qstate[target'[c]] # "none" /\ OwnOrOver(target'[c], c)
    BY <1>4, <1>5 DEF StopsAreAimed, QueryIsForCall
  <2>3. QED BY <1>1, <2>1, <2>2, OwnOrOverStays
<1>6. lateStops' \subseteq lateStops \cup
        {stop \in QueryIds \X Cursors : pc[stop[2]] = "kill" /\ query_id[stop[2]] = stop[1]}
  <2>1. ASSUME NEW c \in Cursors, LeaveBehind(c)
        PROVE  lateStops' \subseteq lateStops \cup
          {stop \in QueryIds \X Cursors : pc[stop[2]] = "kill" /\ query_id[stop[2]] = stop[1]}
    BY <2>1 DEF LeaveBehind, QueryIsForCall, AfterStart, TypeOK, StateTypeOK
  <2>2. lateStops' \subseteq lateStops \/ \E c \in Cursors : LeaveBehind(c)
    BY StepKinds DEF CursorStep, Answered, LookupHit, StartAnswered, LookupMiss, CallbacksReturn,
       PollAnswered, KillAnswered, Collect, NextParameters, FinishBatch, Execute, ExecuteMany,
       StartAnswerLost, RetryApiCall, RaiseError, Close, KeyboardInterrupt, TaskCancelled,
       CancelCheck, CancelRead, CancelSend, OtherStep, LateStart, LateStop, ServiceStep, vars, lateVars
  <2>3. QED BY <2>1, <2>2
<1>7. ASSUME NEW stop \in lateStops'
      PROVE  qstate'[stop[1]] # "none" /\ StillOwnOrOver(stop[1], stop[2])
  <2>1. stop[1] \in QueryIds /\ stop[2] \in Cursors
    BY <1>7 DEF TypeOK, EventTypeOK
  <2>2. qstate[stop[1]] # "none" /\ OwnOrOver(stop[1], stop[2])
    <3>1. CASE stop \in lateStops
      BY <3>1 DEF StopsAreAimed
    <3>2. CASE pc[stop[2]] = "kill" /\ query_id[stop[2]] = stop[1]
      BY <2>1, <3>2 DEF StopsAreAimed, QueryIsForCall, AfterStart
    <3>3. QED BY <1>6, <1>7, <3>1, <3>2
  <2>3. QED BY <1>1, <2>1, <2>2, OwnOrOverStays
<1>8. \/ UNCHANGED stopreq
      \/ \E q \in QueryIds, c \in Cursors :
           Service!AcceptStop(q, c) /\ qstate[q] # "none" /\ OwnOrOver(q, c)
  <2>1. ASSUME NEW c \in Cursors, KillAnswered(c)
        PROVE  /\ query_id[c] \in QueryIds /\ Service!AcceptStop(query_id[c], c)
               /\ qstate[query_id[c]] # "none" /\ OwnOrOver(query_id[c], c)
    BY <2>1 DEF KillAnswered, QueryIsForCall, StopsAreAimed, AfterStart, TypeOK, StateTypeOK
  <2>2. ASSUME NEW c \in Cursors, CancelSend(c), ~UNCHANGED serviceVars
        PROVE  /\ target[c] \in QueryIds /\ Service!AcceptStop(target[c], c)
               /\ qstate[target[c]] # "none" /\ OwnOrOver(target[c], c)
    BY <2>2 DEF CancelSend, StopsAreAimed, TypeOK, EventTypeOK
  <2>3. ASSUME NEW stop \in lateStops, LateStop(stop)
        PROVE  /\ stop[1] \in QueryIds /\ stop[2] \in Cursors /\ Service!AcceptStop(stop[1], stop[2])
               /\ qstate[stop[1]] # "none" /\ OwnOrOver(stop[1], stop[2])
    BY <2>3 DEF LateStop, StopsAreAimed, TypeOK, EventTypeOK
  <2>4. \/ UNCHANGED stopreq
        \/ \E c \in Cursors : KillAnswered(c) \/ (CancelSend(c) /\ ~UNCHANGED serviceVars)
        \/ \E stop \in lateStops : LateStop(stop)
    BY StepKinds DEF CursorStep, Answered, LookupHit, StartAnswered, LookupMiss, CallbacksReturn,
       PollAnswered, Collect, NextParameters, FinishBatch, Execute, ExecuteMany,
       StartAnswerLost, RetryApiCall, RaiseError, Close, KeyboardInterrupt, TaskCancelled,
       Interrupted, CancelCheck, CancelRead, CancelSend, OtherStep, LateStart, ServiceStep,
       vars, serviceVars, Service!CreateQuery, Service!ServiceNext, Service!RunQuery,
       Service!CompleteQuery, Service!CancelQuery
  <2>5. QED BY <2>1, <2>2, <2>3, <2>4
<1>9. /\ \A q \in QueryIds : qstate'[q] = "none" => stopreq'[q] = {}
      /\ StopsOwnQueriesOnly'
  <2>1. ASSUME NEW q \in QueryIds, stopreq'[q] = stopreq[q]
        PROVE  /\ qstate'[q] = "none" => stopreq'[q] = {}
               /\ \A c \in stopreq'[q] : qreq'[q].by = c
    BY <1>1, <2>1 DEF ServiceEvolves, StopsAreAimed, StopsOwnQueriesOnly
  <2>2. CASE UNCHANGED stopreq
    BY <2>1, <2>2 DEF StopsOwnQueriesOnly
  <2>3. ASSUME NEW p \in QueryIds, NEW c \in Cursors,
               Service!AcceptStop(p, c), qstate[p] # "none", OwnOrOver(p, c), NEW q \in QueryIds
        PROVE  /\ qstate'[q] = "none" => stopreq'[q] = {}
               /\ \A d \in stopreq'[q] : qreq'[q].by = d
    <3>1. CASE stopreq'[q] = stopreq[q]
      BY <2>1, <3>1
    <3>2. CASE stopreq'[q] # stopreq[q]
      <4>1. q = p /\ qstate[p] \in Service!Live /\ stopreq'[q] = stopreq[q] \cup {c}
        BY <2>3, <3>2 DEF Service!AcceptStop, TypeOK, ServiceTypeOK
      <4>2. qreq[q].by = c
        BY <2>3, <4>1 DEF OwnOrOver, Service!Live, Service!Terminal
      <4>3. QED
        BY <1>1, <2>3, <4>1, <4>2 DEF StopsOwnQueriesOnly, ServiceEvolves
    <3>3. QED BY <3>1, <3>2
  <2>4. QED BY <1>8, <2>2, <2>3 DEF StopsOwnQueriesOnly
<1>10. StopsAreAimed'
  BY <1>2, <1>4, <1>5, <1>7, <1>9 DEF StopsAreAimed, OwnOrOver, StillOwnOrOver
<1>11. QED BY <1>9, <1>10
------------------------------------------------------------------------------
(* Result sets: OnlyCurrentOpen.                                             *)

OpenInv(c) ==
  /\ open_rs[c] \subseteq {result_set[c]}
  /\ pc[c] \notin {"idle", "batch"} => open_rs[c] = {}

(* What a step of a cursor can do to its result sets: nothing, close the     *)
(* current one, or make a new one at the end of execute().                   *)
LEMMA ResultSetKinds ==
  ASSUME TypeOK, NEW c \in Cursors, CursorStep(c)
  PROVE  \/ /\ result_set'[c] = result_set[c] /\ open_rs'[c] = open_rs[c]
            /\ pc[c] \in {"idle", "batch"} => pc'[c] \in {"idle", "batch"}
         \/ open_rs'[c] = open_rs[c] \ {result_set[c]}
         \/ /\ pc[c] = "collect" /\ pc'[c] \in {"idle", "batch"}
            /\ open_rs'[c] = open_rs[c] \cup {result_set'[c]}
<1> USE DEF TypeOK, StateTypeOK, CallTypeOK, Goto
<1>1. CASE Fail(c)
  BY <1>1 DEF Fail
<1>2. CASE \E s \in Statements : Execute(c, s) \/ NextParameters(c, s)
  BY <1>2 DEF Execute, NextParameters, EnterExecute, ResetState
<1>3. CASE (\E n \in 0..MaxBatch : ExecuteMany(c, n)) \/ FinishBatch(c)
  BY <1>3 DEF ExecuteMany, FinishBatch, ResetState
<1>4. CASE \E q \in QueryIds : LookupHit(c, q) \/ StartAnswered(c, q)
  BY <1>4 DEF LookupHit, StartAnswered, AssignQueryId
<1>5. CASE \/ LookupMiss(c) \/ CallbacksReturn(c) \/ KillAnswered(c) \/ RetryApiCall(c)
           \/ CancelCheck(c) \/ CancelRead(c) \/ CancelSend(c)
  BY <1>5 DEF LookupMiss, CallbacksReturn, KillAnswered, RetryApiCall, CancelCheck, CancelRead,
              CancelSend, stateVars, callVars
<1>6. CASE PollAnswered(c) /\ ~Fail(c)
  BY <1>6 DEF PollAnswered, stateVars
<1>7. CASE \E count \in Counts : Collect(c, count)
  BY <1>7 DEF Collect
<1>8. CASE Close(c)
  BY <1>8 DEF Close
<1>9. CASE Interrupted(c) /\ ~Fail(c)
  BY <1>9 DEF Interrupted, stateVars
<1> QED
  BY <1>1, <1>2, <1>3, <1>4, <1>5, <1>6, <1>7, <1>8, <1>9
  DEF CursorStep, Answered, StartAnswerLost, RaiseError, KeyboardInterrupt, TaskCancelled

(* Every step keeps OnlyCurrentOpen. *)
LEMMA NextOpen ==
  ASSUME TypeOK, OnlyCurrentOpen, [Next]_vars
  PROVE  OnlyCurrentOpen'
<1>1. CASE OtherStep
  BY <1>1, OtherStepStays DEF OnlyCurrentOpen, stateVars, callVars
<1>2. ASSUME NEW d \in Cursors, CursorStep(d), NEW c \in Cursors
      PROVE  OpenInv(c)'
  <2>1. CASE c = d
    BY <1>2, <2>1, ResultSetKinds DEF OpenInv, OnlyCurrentOpen
  <2>2. CASE c # d
    BY <1>2, <2>2, CursorStepOthersStay DEF OthersStay, OpenInv, OnlyCurrentOpen
  <2> QED
    BY <2>1, <2>2
<1> QED
  BY <1>1, <1>2, StepKinds DEF OpenInv, OnlyCurrentOpen
------------------------------------------------------------------------------
(* The query a cursor names: StartedIsNamed.                                 *)

(* How the latest execute() of a cursor comes to be past its start call: it  *)
(* was before, or it has just got its query id.                              *)
LEMMA StartedKinds ==
  ASSUME TypeOK, [Next]_vars, NEW c \in Cursors, Started(c)'
  PROVE  \/ Started(c) /\ execs'[c] = execs[c] /\ query_id'[c] = query_id[c]
         \/ \E q \in QueryIds : LookupHit(c, q) \/ StartAnswered(c, q)
<1>1. CASE OtherStep
  BY <1>1, OtherStepStays DEF callVars, stateVars, Started
<1>2. ASSUME NEW d \in Cursors, CursorStep(d), d # c
      PROVE  Started(c) /\ execs'[c] = execs[c] /\ query_id'[c] = query_id[c]
  <2>1. OthersStay(d)
    BY <1>2, CursorStepOthersStay
  <2> QED
    BY <1>2, <2>1 DEF OthersStay, Started
<1>3. CASE CursorStep(c)
  <2> USE DEF TypeOK, CallTypeOK, StateTypeOK, Goto, AfterStart
  <2>1. CASE Fail(c)
    BY <2>1 DEF Fail, Started
  <2>2. CASE \E s \in Statements : Execute(c, s) \/ NextParameters(c, s)
    BY <2>2 DEF Execute, NextParameters, EnterExecute, Started
  <2>3. CASE (\E n \in 0..MaxBatch : ExecuteMany(c, n)) \/ FinishBatch(c)
    BY <2>3 DEF ExecuteMany, FinishBatch, Started
  <2>4. CASE LookupMiss(c)
    BY <2>4 DEF LookupMiss, Started
  <2>5. CASE CallbacksReturn(c) \/ KillAnswered(c)
    BY <2>5 DEF CallbacksReturn, KillAnswered, Started, stateVars
  <2>6. CASE PollAnswered(c) /\ ~Fail(c)
    BY <2>6 DEF PollAnswered, Started, stateVars
  <2>7. CASE \E count \in Counts : Collect(c, count)
    BY <2>7 DEF Collect, Started
  <2>8. CASE RetryApiCall(c) \/ Close(c) \/ CancelCheck(c) \/ CancelRead(c) \/ CancelSend(c)
    BY <2>8 DEF RetryApiCall, Close, CancelCheck, CancelRead, CancelSend, Started, callVars,
                stateVars
  <2>9. CASE Interrupted(c) /\ ~Fail(c)
    BY <2>9 DEF Interrupted, Started, stateVars
  <2> QED
    BY <1>3, <2>1, <2>2, <2>3, <2>4, <2>5, <2>6, <2>7, <2>8, <2>9
    DEF CursorStep, Answered, StartAnswerLost, RaiseError, KeyboardInterrupt, TaskCancelled
<1> QED
  BY <1>1, <1>2, <1>3, StepKinds

(* A call past its start call is not the one that is making its request. *)
LEMMA StartedIsPast ==
  ASSUME NEW c \in Cursors, Started(c), NEW d \in Cursors, pc[d] = "start"
  PROVE  d # c
  BY DEF Started, AfterStart

(* The next state of StartedIsNamed, for one cursor. *)
NamedNext(c) ==
  /\ \A q \in QueryIds :
       (qreq'[q] # NULL /\ qreq'[q].by = c /\ qreq'[q].exec = execs'[c]) => query_id'[c] = q
  /\ \A r \in lateStarts' : ~(r.by = c /\ r.exec = execs'[c])

(* A request of the call at "start" becomes a query, or is left under way.   *)
LEMMA NamedStays ==
  ASSUME TypeOK, [Next]_vars, StartedIsNamed, NEW c \in Cursors, Started(c),
         execs'[c] = execs[c], query_id'[c] = query_id[c]
  PROVE  NamedNext(c)
<1>1. /\ \A q \in QueryIds : (qreq[q] # NULL /\ MadeBy(qreq[q], c)) => query_id[c] = q
      /\ \A r \in lateStarts : ~MadeBy(r, c)
  BY DEF StartedIsNamed
<1>2. CASE RequestsKept
  BY <1>1, <1>2 DEF RequestsKept, NamedNext, MadeBy
<1>3. ASSUME NEW d \in Cursors, NEW p \in QueryIds, RequestAccepted(d, p)
      PROVE  NamedNext(c)
  <2>1. d # c
    BY <1>3, StartedIsPast DEF RequestAccepted
  <2>2. /\ qreq'[p].by = d /\ lateStarts' = lateStarts
        /\ \A q \in QueryIds \ {p} : qreq'[q] = qreq[q]
    BY <1>3 DEF RequestAccepted, Service!CreateQuery, ThisRequest, TypeOK, ServiceTypeOK
  <2> QED
    BY <1>1, <2>1, <2>2 DEF NamedNext, MadeBy
<1>4. ASSUME NEW d \in Cursors, RequestLeft(d)
      PROVE  NamedNext(c)
  <2>1. d # c
    BY <1>4, StartedIsPast DEF RequestLeft
  <2>2. ThisRequest(d).by = d
    BY DEF ThisRequest
  <2>3. qreq' = qreq /\ lateStarts' = lateStarts \cup {ThisRequest(d)}
    BY <1>4 DEF RequestLeft
  <2> QED
    BY <1>1, <2>1, <2>2, <2>3 DEF NamedNext, MadeBy
<1>5. ASSUME NEW r \in Request, NEW p \in QueryIds, LateAccepted(r, p)
      PROVE  NamedNext(c)
  <2>1. ~MadeBy(r, c)
    BY <1>1, <1>5 DEF LateAccepted
  <2>2. /\ qreq'[p] = r /\ lateStarts' \subseteq lateStarts
        /\ \A q \in QueryIds \ {p} : qreq'[q] = qreq[q]
    BY <1>5 DEF LateAccepted, Service!CreateQuery, TypeOK, ServiceTypeOK
  <2> QED
    BY <1>1, <2>1, <2>2 DEF NamedNext, MadeBy
<1> QED
  BY <1>2, <1>3, <1>4, <1>5, RequestKinds

(* The query id is assigned with the answer that brings it. *)
LEMMA NamedNow ==
  ASSUME TypeOK, RequestsAreSpent, NEW c \in Cursors, NEW p \in QueryIds,
         LookupHit(c, p) \/ StartAnswered(c, p)
  PROVE  NamedNext(c)
<1>1. /\ pc[c] \in {"lookup", "start"} /\ execs'[c] = execs[c] /\ query_id'[c] = p
      /\ lateStarts' = lateStarts
  BY DEF LookupHit, StartAnswered, AssignQueryId, TypeOK, StateTypeOK, lateVars
<1>2. \A q \in QueryIds \ {p} : qreq'[q] = qreq[q]
  BY DEF LookupHit, StartAnswered, Service!CreateQuery, TypeOK, ServiceTypeOK, serviceVars
<1>3. /\ \A q \in QueryIds : qreq[q] # NULL => ~(qreq[q].by = c /\ qreq[q].exec = execs[c])
      /\ \A r \in lateStarts : ~(r.by = c /\ r.exec = execs[c])
  BY <1>1 DEF RequestsAreSpent, Spent
<1> QED
  BY <1>1, <1>2, <1>3 DEF NamedNext

(* Every step keeps StartedIsNamed. *)
LEMMA NextNamed ==
  ASSUME TypeOK, RequestsAreSpent, StartedIsNamed, [Next]_vars
  PROVE  StartedIsNamed'
<1>1. ASSUME NEW c \in Cursors, Started(c)'
      PROVE  NamedNext(c)
  BY <1>1, StartedKinds, NamedStays, NamedNow
<1> QED
  BY <1>1 DEF StartedIsNamed, MadeBy, NamedNext
------------------------------------------------------------------------------
(* The theorems.                                                             *)

(* The inductive invariant holds of a fresh set of cursors, which have neither
   queries nor result sets. *)
THEOREM InitIInv == Init => IInv
<1> SUFFICES ASSUME Init PROVE IInv
  OBVIOUS
<1>1. TypeOK
  BY InitType
<1>2. RequestsAreSpent /\ AtMostOneQueryPerExecute
  BY DEF Init, Service!ServiceInit, RequestsAreSpent, AtMostOneQueryPerExecute
<1>3. QueryIsForCall /\ ResultSetIsCurrent
  BY DEF Init, QueryIsForCall, ResultSetIsCurrent, AfterStart
<1>4. StopsAreAimed /\ StopsOwnQueriesOnly
  BY DEF Init, Service!ServiceInit, StopsAreAimed, StopsOwnQueriesOnly
<1>5. OnlyCurrentOpen /\ StartedIsNamed
  BY DEF Init, OnlyCurrentOpen, StartedIsNamed, Started, AfterStart
<1>6. QED BY <1>1, <1>2, <1>3, <1>4, <1>5 DEF IInv

(* Every step of the cursors, of the callers of cancel(), of late requests and
   of Athena keeps the inductive invariant. *)
THEOREM NextIInv == IInv /\ [Next]_vars => IInv'
<1> SUFFICES ASSUME IInv, [Next]_vars PROVE IInv'
  OBVIOUS
<1> USE DEF IInv
<1>1. TypeOK'
  BY NextType
<1>2. RequestsAreSpent' /\ AtMostOneQueryPerExecute'
  BY <1>1, NextRequests
<1>3. QueryIsForCall' /\ ResultSetIsCurrent'
  <2>1. \A c \in Cursors : CallInv(c)'
    BY CallInvs, NextCall
  <2>2. QED BY <2>1 DEF CallInv, QueryIsForCall, ResultSetIsCurrent
<1>4. StopsAreAimed' /\ StopsOwnQueriesOnly'
  BY <1>1, NextAimed
<1>5. OnlyCurrentOpen' /\ StartedIsNamed'
  BY NextOpen, NextNamed
<1>6. QED BY <1>1, <1>2, <1>3, <1>4, <1>5

(* The inductive invariant holds throughout; the theorems after it           *)
(* read off what it is for.                                                  *)
THEOREM Invariance == Spec => []IInv
  BY InitIInv, NextIInv, PTL DEF Spec

(* Every variable keeps its type, in particular attempts never exceeds       *)
(* RetryConfig.attempt.                                                      *)
THEOREM TypeCorrect == Spec => []TypeOK
<1>1. IInv => TypeOK
  BY DEF IInv
<1>2. QED BY <1>1, Invariance, PTL

(* No execute() ever starts two queries.                                     *)
THEOREM ExecuteStartsOnce == Spec => []AtMostOneQueryPerExecute
<1>1. IInv => AtMostOneQueryPerExecute
  BY DEF IInv
<1>2. QED BY <1>1, Invariance, PTL

(* A result set is the one of the latest execute(), of a query that          *)
(* succeeded and ran the same statement.                                     *)
THEOREM ResultSetsAreCurrent == Spec => []ResultSetIsCurrent
<1>1. IInv => ResultSetIsCurrent
  BY DEF IInv
<1>2. QED BY <1>1, Invariance, PTL

(* No cursor stops a query another cursor is running.                        *)
THEOREM StopsHitOwnQueries == Spec => []StopsOwnQueriesOnly
<1>1. IInv => StopsOwnQueriesOnly
  BY DEF IInv
<1>2. QED BY <1>1, Invariance, PTL

(* A result set that is open can be reached, and closed, through the cursor. *)
THEOREM NoLeaks == Spec => []NoResultSetLeaked
<1>1. IInv => NoResultSetLeaked
  BY DEF IInv, OnlyCurrentOpen, NoResultSetLeaked
<1>2. QED BY <1>1, Invariance, PTL

(* While it runs, the query of the latest execute() can be cancelled: the    *)
(* cursor names it from the answer of the start call on.                     *)
THEOREM LiveQueriesAreNamed == Spec => []LiveQueryIsNamed
<1>1. IInv => LiveQueryIsNamed
  BY DEF IInv, RequestsAreSpent, StartedIsNamed, Started, MadeBy, LiveQueryIsNamed, Service!Live
<1>2. QED BY <1>1, Invariance, PTL
------------------------------------------------------------------------------
(* The row count of a batch.                                                 *)

(* p holds the partial sums of counts.                                       *)
PartialSums(counts, p) ==
  p = [i \in 0..Len(counts) |-> IF i = 0 THEN 0 ELSE p[i - 1] + counts[i]]

(* There are partial sums of counts, and all of them end in t.  This is kept *)
(* along the behaviour: the counts come one at a time.                       *)
SumsTo(counts, t) ==
  /\ \E p : PartialSums(counts, p)
  /\ \A p : PartialSums(counts, p) => p[Len(counts)] = t

(* It determines SumOf.                                                      *)
LEMMA SumsToSumOf ==
  ASSUME NEW counts, NEW t, SumsTo(counts, t)
  PROVE  SumOf(counts) = t
<1> DEFINE p == CHOOSE f : PartialSums(counts, f)
<1>1. PartialSums(counts, p)
  BY DEF SumsTo
<1>2. p[Len(counts)] = t
  BY <1>1 DEF SumsTo
<1>3. SumOf(counts) = p[Len(counts)]
  BY DEF SumOf, PartialSums
<1>4. QED BY <1>2, <1>3

(* The empty batch adds up to 0.                                             *)
LEMMA NothingSumsTo == SumsTo(<<>>, 0)
<1>1. Len(<<>>) = 0
  OBVIOUS
<1>2. PartialSums(<<>>, [i \in 0..0 |-> 0])
  BY <1>1 DEF PartialSums
<1>3. ASSUME NEW p, PartialSums(<<>>, p) PROVE p[0] = 0
  BY <1>1, <1>3 DEF PartialSums
<1>4. QED BY <1>1, <1>2, <1>3 DEF SumsTo

(* One more count adds to the sum.                                           *)
LEMMA OneMoreSumsTo ==
  ASSUME NEW counts \in Seq(Int), NEW t \in Int, NEW n \in Int, SumsTo(counts, t)
  PROVE  SumsTo(Append(counts, n), t + n)
<1> DEFINE more == Append(counts, n)
           len == Len(counts)
<1>1. len \in Nat /\ Len(more) = len + 1 /\ more[len + 1] = n
  OBVIOUS
<1>2. \A i \in 1..len : more[i] = counts[i]
  OBVIOUS
<1> HIDE DEF more, len
<1>3. \E p : PartialSums(more, p)
  <2>1. PICK p : PartialSums(counts, p)
    BY DEF SumsTo
  <2> DEFINE q == [i \in 0..(len + 1) |-> IF i = len + 1 THEN t + n ELSE p[i]]
  <2>2. p[len] = t
    BY <2>1 DEF SumsTo, len
  <2>3. p = [i \in 0..len |-> IF i = 0 THEN 0 ELSE p[i - 1] + counts[i]]
    BY <2>1 DEF PartialSums, len
  <2>4. ASSUME NEW i \in 0..(len + 1)
        PROVE  q[i] = IF i = 0 THEN 0 ELSE q[i - 1] + more[i]
    <3>1. CASE i = len + 1
      <4>1. q[i] = t + n /\ q[i - 1] = p[len] /\ i # 0
        BY <1>1, <3>1
      <4>2. QED BY <1>1, <2>2, <3>1, <4>1
    <3>2. CASE i # len + 1 /\ i # 0
      <4>1. i \in 1..len /\ i - 1 \in 0..len /\ i - 1 # len + 1
        BY <1>1, <3>2
      <4>2. q[i] = p[i] /\ q[i - 1] = p[i - 1]
        BY <1>1, <3>2, <4>1
      <4>3. p[i] = p[i - 1] + counts[i]
        BY <1>1, <2>3, <4>1
      <4>4. QED BY <1>2, <3>2, <4>1, <4>2, <4>3
    <3>3. CASE i = 0
      <4>1. q[i] = p[0] /\ p[0] = 0
        BY <1>1, <2>3, <3>3
      <4>2. QED BY <3>3, <4>1
    <3>4. QED BY <3>1, <3>2, <3>3
  <2>5. q = [i \in 0..(len + 1) |-> q[i]]
    OBVIOUS
  <2> HIDE DEF q
  <2>6. q = [i \in 0..(len + 1) |-> IF i = 0 THEN 0 ELSE q[i - 1] + more[i]]
    BY <2>4, <2>5
  <2>7. QED BY <1>1, <2>6 DEF PartialSums
<1>4. ASSUME NEW p, PartialSums(more, p)
      PROVE  p[len + 1] = t + n
  <2> DEFINE q == [i \in 0..len |-> p[i]]
  <2>1. p = [i \in 0..(len + 1) |-> IF i = 0 THEN 0 ELSE p[i - 1] + more[i]]
    BY <1>1, <1>4 DEF PartialSums
  <2>2. ASSUME NEW i \in 0..len
        PROVE  q[i] = IF i = 0 THEN 0 ELSE q[i - 1] + counts[i]
    <3>1. CASE i = 0
      BY <1>1, <2>1, <3>1
    <3>2. CASE i # 0
      <4>1. i \in 1..len /\ i - 1 \in 0..len /\ i \in 0..(len + 1)
        BY <1>1, <3>2
      <4>2. q[i] = p[i] /\ q[i - 1] = p[i - 1] /\ p[i] = p[i - 1] + more[i]
        BY <2>1, <3>2, <4>1
      <4>3. QED BY <1>2, <3>2, <4>1, <4>2
    <3>3. QED BY <3>1, <3>2
  <2>3. q = [i \in 0..len |-> q[i]]
    OBVIOUS
  <2> HIDE DEF q
  <2>4. q = [i \in 0..len |-> IF i = 0 THEN 0 ELSE q[i - 1] + counts[i]]
    BY <2>2, <2>3
  <2>5. q[len] = t
    BY <2>4 DEF PartialSums, SumsTo, len
  <2>6. p[len] = t
    BY <1>1, <2>5 DEF q
  <2>7. p[len + 1] = p[len] + more[len + 1]
    <3>1. len + 1 \in 0..(len + 1) /\ len + 1 # 0 /\ (len + 1) - 1 = len
      BY <1>1
    <3>2. QED BY <2>1, <3>1
  <2>8. QED BY <1>1, <2>6, <2>7
<1>5. QED BY <1>1, <1>3, <1>4 DEF SumsTo, more

(* The running sum of a cursor's batch is t, if no count was unknown.        *)
Tallied(counts, sum) ==
  \E t \in Int :
    /\ SumsTo(counts, t)
    /\ IF \A i \in DOMAIN counts : counts[i] >= 0 THEN sum = t /\ t >= 0 ELSE sum = -1

(* Then it is what the counts so far report.                                 *)
LEMMA TalliedIsCount ==
  ASSUME NEW counts, NEW sum, Tallied(counts, sum)
  PROVE  sum = CountOf(counts)
  BY SumsToSumOf DEF Tallied, CountOf

(* It starts at 0.                                                           *)
LEMMA NothingTallied == Tallied(<<>>, 0)
<1>1. DOMAIN <<>> = {} /\ 0 \in Int /\ 0 >= 0
  OBVIOUS
<1>2. QED BY <1>1, NothingSumsTo DEF Tallied

(* AddCount keeps it up to date, also after the first unknown count.         *)
LEMMA OneMoreTallied ==
  ASSUME NEW counts \in Seq(Int), NEW sum, NEW n \in Int, Tallied(counts, sum)
  PROVE  Tallied(Append(counts, n), AddCount(sum, n))
<1>1. PICK t \in Int :
        /\ SumsTo(counts, t)
        /\ IF \A i \in DOMAIN counts : counts[i] >= 0 THEN sum = t /\ t >= 0 ELSE sum = -1
  BY DEF Tallied
<1> DEFINE more == Append(counts, n)
           len == Len(counts)
<1>2. SumsTo(more, t + n)
  BY <1>1, OneMoreSumsTo
<1>3. /\ len \in Nat /\ DOMAIN counts = 1..len /\ DOMAIN more = 1..(len + 1)
      /\ more[len + 1] = n /\ \A i \in 1..len : more[i] = counts[i] /\ counts[i] \in Int
  OBVIOUS
<1> HIDE DEF more, len
<1>4. (\A i \in DOMAIN more : more[i] >= 0) <=> (\A i \in DOMAIN counts : counts[i] >= 0) /\ n >= 0
  <2>1. ASSUME \A i \in DOMAIN more : more[i] >= 0, NEW i \in DOMAIN counts
        PROVE  counts[i] >= 0
    BY <1>3, <2>1
  <2>2. ASSUME \A i \in DOMAIN more : more[i] >= 0
        PROVE  n >= 0
    <3>1. len + 1 \in DOMAIN more
      BY <1>3
    <3>2. QED BY <1>3, <2>2, <3>1
  <2>3. ASSUME \A i \in DOMAIN counts : counts[i] >= 0, n >= 0, NEW i \in DOMAIN more
        PROVE  more[i] >= 0
    <3>1. i \in DOMAIN counts \/ i = len + 1
      BY <1>3
    <3>2. QED BY <1>3, <2>3, <3>1
  <2>4. QED BY <2>1, <2>2, <2>3
<1>5. CASE (\A i \in DOMAIN counts : counts[i] >= 0) /\ n >= 0
  <2>1. AddCount(sum, n) = t + n /\ t + n >= 0 /\ t + n \in Int
    BY <1>1, <1>5 DEF AddCount
  <2>2. QED BY <1>2, <1>4, <1>5, <2>1 DEF Tallied, more
<1>6. CASE ~((\A i \in DOMAIN counts : counts[i] >= 0) /\ n >= 0)
  <2>1. AddCount(sum, n) = -1 /\ t + n \in Int
    BY <1>1, <1>6 DEF AddCount
  <2>2. QED BY <1>2, <1>4, <1>6, <2>1 DEF Tallied, more
<1>7. QED BY <1>5, <1>6

(* Every cursor's sum is tallied.                                            *)
TallyInv == \A c \in Cursors : Tallied(affected[c], total[c])

(* A step leaves the tally of a cursor alone, starts it or adds a count.     *)
TallyStays(c) == affected'[c] = affected[c] /\ total'[c] = total[c]
TallyStep(c) ==
  \/ TallyStays(c)
  \/ affected'[c] = <<>> /\ total'[c] = 0
  \/ \E count \in Counts : /\ affected'[c] = Append(affected[c], count)
                           /\ total'[c] = AddCount(total[c], count)

(* Every step does, for each of the cursors.                                 *)
LEMMA TallySteps ==
  ASSUME TypeOK, [Next]_vars, NEW d \in Cursors
  PROVE  TallyStep(d)
<1>1. CASE UNCHANGED <<total, affected>>
  BY <1>1 DEF TallyStep, TallyStays
<1>2. ASSUME NEW c \in Cursors, NEW n, ExecuteMany(c, n)
      PROVE  TallyStep(d)
  <2>1. CASE d = c
    BY <1>2, <2>1 DEF ExecuteMany, TallyStep, TypeOK, CallTypeOK
  <2>2. CASE d # c
    BY <1>2, <2>2 DEF ExecuteMany, TallyStep, TallyStays, TypeOK, CallTypeOK
  <2>3. QED BY <2>1, <2>2
<1>3. ASSUME NEW c \in Cursors, NEW count \in Counts, Collect(c, count)
      PROVE  TallyStep(d)
  <2>1. CASE UNCHANGED <<total, affected>>
    BY <2>1, <1>1
  <2>2. CASE /\ total' = [total EXCEPT ![c] = AddCount(@, count)]
             /\ affected' = [affected EXCEPT ![c] = Append(@, count)]
    <3>1. CASE d = c
      BY <2>2, <3>1 DEF TallyStep, TypeOK, CallTypeOK
    <3>2. CASE d # c
      BY <2>2, <3>2 DEF TallyStep, TallyStays, TypeOK, CallTypeOK
    <3>3. QED BY <3>1, <3>2
  <2>3. QED BY <1>3, <2>1, <2>2 DEF Collect
<1>4. QED
  <2>1. OtherStep => UNCHANGED <<total, affected>>
    BY OtherStepStays DEF callVars
  <2>2. ASSUME NEW c \in Cursors, CursorStep(c)
        PROVE  \/ UNCHANGED <<total, affected>>
               \/ \E n : ExecuteMany(c, n)
               \/ \E count \in Counts : Collect(c, count)
    BY <2>2 DEF CursorStep, Answered, Execute, StartAnswerLost, RetryApiCall, RaiseError,
       Close, KeyboardInterrupt, TaskCancelled, Interrupted, Fail, CancelCheck, CancelRead,
       CancelSend, LookupHit, StartAnswered, LookupMiss, CallbacksReturn, PollAnswered,
       KillAnswered, NextParameters, FinishBatch, EnterExecute, AssignQueryId, callVars
  <2>3. QED BY <1>1, <1>2, <1>3, <2>1, <2>2, StepKinds

(* So all of them stay tallied.                                              *)
LEMMA NextTally ==
  ASSUME TypeOK, TallyInv, [Next]_vars
  PROVE  TallyInv'
<1> SUFFICES ASSUME NEW c \in Cursors PROVE Tallied(affected'[c], total'[c])
  BY DEF TallyInv
<1>1. Tallied(affected[c], total[c]) /\ affected[c] \in Seq(Int)
  <2>1. affected[c] \in Seq(Counts) /\ Counts \subseteq Int
    BY ConstantsAssumption DEF TypeOK, CallTypeOK
  <2>2. ASSUME NEW s \in Seq(Counts) PROVE s \in Seq(Int)
    <3>1. Len(s) \in Nat /\ s \in [1..Len(s) -> Counts]
      OBVIOUS
    <3>2. s \in [1..Len(s) -> Int]
      BY <2>1, <3>1
    <3>3. QED BY <3>1, <3>2
  <2>3. QED BY <2>1, <2>2 DEF TallyInv
<1>2. \A count \in Counts : count \in Int
  BY ConstantsAssumption
<1>3. QED BY <1>1, <1>2, TallySteps, NothingTallied, OneMoreTallied DEF TallyStep, TallyStays

(* The sum executemany() keeps is what the executions so far would report.   *)
THEOREM TotalsAreSums == Spec => []TotalIsSum
<1>1. Init => TallyInv
  BY NothingTallied DEF Init, TallyInv
<1>2. TypeOK /\ TallyInv /\ [Next]_vars => TallyInv'
  BY NextTally
<1>3. TallyInv => TotalIsSum
  BY TalliedIsCount DEF TallyInv, TotalIsSum
<1>4. QED BY <1>1, <1>2, <1>3, TypeCorrect, PTL DEF Spec

(* A batch ends when its loop is done, or with an error.                     *)
LEMMA BatchEnds ==
  ASSUME TypeOK, TotalIsSum, [Next]_vars, NEW c \in Cursors, batch[c] # NULL, batch'[c] = NULL
  PROVE  /\ result_set'[c] = NULL
         /\ rowcount'[c] = IF outcome'[c] = "ok" THEN CountOf(affected[c]) ELSE -1
<1> USE DEF TypeOK, CallTypeOK, StateTypeOK
<1>1. CASE FinishBatch(c)
  <2>1. result_set'[c] = NULL /\ rowcount'[c] = total[c] /\ outcome'[c] = "ok"
    BY <1>1 DEF FinishBatch, ResetState
  <2>2. QED BY <2>1 DEF TotalIsSum
<1>2. CASE Fail(c)
  <2>1. result_set'[c] = NULL /\ rowcount'[c] = -1 /\ outcome'[c] = pc[c]
    BY <1>2 DEF Fail
  <2>2. pc[c] # "ok"
    BY DEF Labels, ApiCalls
  <2>3. QED BY <2>1, <2>2
<1>3. FinishBatch(c) \/ Fail(c)
  <2>1. ~OtherStep
    <3>1. OtherStep => batch' = batch
      BY OtherStepStays DEF callVars
    <3>2. QED BY <3>1
  <2>2. PICK d \in Cursors : CursorStep(d)
    BY <2>1, StepKinds
  <2>3. batch' = batch \/ (\E n \in 0..MaxBatch : ExecuteMany(d, n))
        \/ (\E s \in Statements : NextParameters(d, s)) \/ FinishBatch(d) \/ Fail(d)
    BY <2>2 DEF CursorStep, Answered, Execute, StartAnswerLost, RetryApiCall, RaiseError,
       Close, KeyboardInterrupt, TaskCancelled, Interrupted, CancelCheck, CancelRead,
       CancelSend, LookupHit, StartAnswered, LookupMiss, CallbacksReturn, PollAnswered,
       KillAnswered, Collect, EnterExecute, AssignQueryId, callVars
  <2>4. batch' # batch
    OBVIOUS
  <2>5. ~(\E n \in 0..MaxBatch : ExecuteMany(d, n))
    BY ConstantsAssumption DEF ExecuteMany
  <2>6. ~(\E s \in Statements : NextParameters(d, s))
    BY ConstantsAssumption DEF NextParameters
  <2>7. d = c
    BY <2>3, <2>4, <2>5, <2>6 DEF FinishBatch, Fail
  <2>8. QED BY <2>3, <2>4, <2>5, <2>6, <2>7
<1>4. QED BY <1>1, <1>2, <1>3

(* executemany() reports the sum of the row counts, -1 if one is unknown or  *)
(* if it fails, and leaves no result set.                                    *)
THEOREM BatchesReportTheirSum == Spec => BatchReportsSum
<1>1. TypeOK /\ TotalIsSum /\ [Next]_vars
        => [\A c \in Cursors : (batch[c] # NULL /\ batch'[c] = NULL) =>
              /\ result_set'[c] = NULL
              /\ rowcount'[c] = IF outcome'[c] = "ok" THEN CountOf(affected[c]) ELSE -1]_vars
  BY BatchEnds
<1>2. QED BY <1>1, TypeCorrect, TotalsAreSums, PTL DEF Spec, BatchReportsSum
==============================================================================
