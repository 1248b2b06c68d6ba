------------------------- MODULE AsyncSparkCursorProofs -------------------------
(* Proofs about AsyncSparkCursor, for every value of its constants.          *)
EXTENDS AsyncSparkCursor, SparkCursorProofs, SequenceTheorems

FutureStates == {"pending", "done", "raised"} \cup Running
Answers == {NULL} \cup Spark!LiveCalc \cup Spark!FinalCalc
TaskRecord == [kind : Kinds, calc : CalcIds]

(* The parts of AsyncTypeOK: the user's threads, the tasks, the pool.        *)
UserOK ==
  /\ new_calc \in CalcIds \cup {NULL}
  /\ calls \in Seq({"ok", "raised"}) /\ waiting \in BOOLEAN

TasksOK ==
  /\ task \in Seq(TaskRecord)
  /\ future \in [Tasks -> FutureStates]
  /\ answer \in [Tasks -> Answers]

PoolOK == queue \in Seq(Tasks) /\ working \subseteq Tasks /\ shut_down \in BOOLEAN

(* A calculation of execute() is in somebody's hands, and a future tells.    *)
InHands(k) == (creq[k] # NULL /\ creq[k].by = Async) =>
  \/ calls[creq[k].exec] = "raised"
  \/ new_calc = k
  \/ \E t \in Tasks : task[t] = [kind |-> "poll", calc |-> k]

Tells(t) == (future[t] = "done" /\ task[t].kind = "poll") =>
  answer[t] \in Spark!FinalCalc /\ answer[t] = cstate[task[t].calc]

Sound(t) == TaskInOrder(t) /\ Tells(t)

(* AsyncIInv is these parts. *)
LEMMA AsyncSplit ==
  AsyncIInv <=> /\ IInv /\ UserOK /\ TasksOK /\ PoolOK /\ CallsNumbered
                /\ \A k \in CalcIds : InHands(k)
                /\ \A t \in Tasks : Sound(t)
  BY DEF AsyncIInv, AsyncTypeOK, FuturesTell, UserOK, TasksOK, PoolOK, InHands, Tells, Sound,
         FutureStates, Answers, TaskRecord

(* And in the next state. *)
LEMMA AsyncJoin ==
  ASSUME IInv', UserOK', TasksOK', PoolOK', CallsNumbered',
         \A k \in CalcIds : InHands(k)', \A t \in Tasks' : Sound(t)'
  PROVE  AsyncIInv'
  BY DEF AsyncIInv, AsyncTypeOK, FuturesTell, UserOK, TasksOK, PoolOK, InHands, Tells, Sound,
         FutureStates, Answers, TaskRecord

(* The tasks are numbered. *)
LEMMA TasksNumbered ==
  ASSUME TasksOK
  PROVE  Len(task) \in Nat /\ Tasks = 1..Len(task)
  BY LenProperties DEF TasksOK, Tasks

(* A task has a kind and a calculation. *)
LEMMA TaskType ==
  ASSUME TasksOK, NEW t \in Tasks
  PROVE  task[t] \in TaskRecord /\ task[t].calc \in CalcIds /\ task[t].kind \in Kinds
<1>1. task[t] \in TaskRecord
  BY TasksNumbered, ElementOfSeq DEF TasksOK
<1>2. QED BY <1>1 DEF TaskRecord
--------------------------------------------------------------------------------
(* What the steps do to the tasks: nothing, a new one, or a step of one.     *)
TasksKept ==
  /\ TasksOK' /\ Tasks \subseteq Tasks'
  /\ \A t \in Tasks : task'[t] = task[t]
  /\ \A t \in Tasks' : Sound(t)'

(* A task that does nothing stays sound, whatever the service does. *)
LEMMA TaskStays ==
  ASSUME TasksOK, CalcsKept, NEW t \in Tasks, Sound(t),
         task'[t] = task[t], future'[t] = future[t], answer'[t] = answer[t]
  PROVE  Sound(t)'
<1>1. task[t].calc \in CalcIds
  BY TaskType
<1>2. QED BY <1>1 DEF Sound, Tells, TaskInOrder, CalcsKept

(* The step is not about tasks. *)
LEMMA TasksStay ==
  ASSUME TasksOK, CalcsKept, \A t \in Tasks : Sound(t), UNCHANGED taskVars
  PROVE  TasksKept /\ Tasks' = Tasks
<1>1. \A t \in Tasks : Sound(t)'
  BY TaskStays DEF taskVars
<1>2. TasksOK' /\ Tasks' = Tasks /\ task' = task
  BY DEF TasksOK, Tasks, taskVars
<1>3. QED BY <1>1, <1>2 DEF TasksKept

(* A new task is the last, and pending. *)
LEMMA TasksGrow ==
  ASSUME TasksOK, PoolOK, CalcsKept, \A t \in Tasks : Sound(t),
         NEW kind \in Kinds, NEW k \in CalcIds, cstate[k] # "none", SubmitTask(kind, k)
  PROVE  /\ TasksKept /\ PoolOK'
         /\ \E t \in Tasks' : task'[t] = [kind |-> kind, calc |-> k]
<1> DEFINE r == [kind |-> kind, calc |-> k]
<1> PICK n \in Nat : n = Len(task) + 1
  BY TasksNumbered
<1>0. Len(task) \in Nat /\ Tasks = 1..Len(task) /\ n \notin Tasks
  BY TasksNumbered
<1>1. r \in TaskRecord
  BY DEF TaskRecord
<1>2. /\ task' \in Seq(TaskRecord) /\ Len(task') = n
      /\ \A t \in Tasks : task'[t] = task[t]
      /\ task'[n] = r
  BY <1>0, <1>1, AppendProperties DEF TasksOK, SubmitTask
<1>3. Tasks' = 1..n
  BY <1>2, LenProperties DEF Tasks
<1>4. future \in Seq(FutureStates) /\ Len(future) = Len(task)
  BY <1>0, SeqDef, LenProperties DEF TasksOK
<1>5. answer \in Seq(Answers) /\ Len(answer) = Len(task)
  BY <1>0, SeqDef, LenProperties DEF TasksOK
<1>6. /\ future' \in Seq(FutureStates) /\ Len(future') = n
      /\ \A t \in Tasks : future'[t] = future[t]
      /\ future'[n] = "pending"
  BY <1>0, <1>4, AppendProperties DEF SubmitTask, FutureStates
<1>7. /\ answer' \in Seq(Answers) /\ Len(answer') = n
      /\ \A t \in Tasks : answer'[t] = answer[t]
  BY <1>0, <1>5, AppendProperties DEF SubmitTask, Answers
<1>8. future' \in [Tasks' -> FutureStates] /\ answer' \in [Tasks' -> Answers]
  BY <1>3, <1>6, <1>7, LenProperties
<1>9. TasksOK'
  BY <1>2, <1>8 DEF TasksOK
<1>10. \A t \in Tasks : Sound(t)'
  BY <1>2, <1>6, <1>7, TaskStays
<1>11. Sound(n)'
  BY <1>2, <1>6 DEF Sound, Tells, TaskInOrder, CalcsKept
<1>12. Tasks' = Tasks \cup {n}
  BY <1>0, <1>3
<1>13. queue' \in Seq(Tasks')
  <2>1. queue \in Seq(Tasks')
    BY <1>12, SeqMonotonic DEF PoolOK
  <2>2. QED BY <2>1, <1>12, AppendProperties DEF SubmitTask, Pool!Submit
<1>14. PoolOK'
  BY <1>12, <1>13 DEF PoolOK, SubmitTask, Pool!Submit
<1>15. QED BY <1>2, <1>9, <1>10, <1>11, <1>12, <1>14 DEF TasksKept

(* A step of task t: its future goes to f, its answer to a. *)
LEMMA TaskTurns ==
  ASSUME TasksOK, CalcsKept, \A u \in Tasks : Sound(u), NEW t \in Tasks,
         NEW f \in FutureStates, NEW a \in Answers,
         task' = task, future' = [future EXCEPT ![t] = f], answer' = [answer EXCEPT ![t] = a],
         Sound(t)'
  PROVE  TasksKept /\ Tasks' = Tasks
<1>1. Tasks' = Tasks
  BY DEF Tasks
<1>2. TasksOK'
  BY <1>1 DEF TasksOK
<1>3. ASSUME NEW u \in Tasks, u # t PROVE Sound(u)'
  BY <1>3, TaskStays DEF TasksOK
<1>4. QED BY <1>1, <1>2, <1>3 DEF TasksKept
--------------------------------------------------------------------------------
(* Steps that create no calculation of this cursor. *)
NoneCreated ==
  /\ pc'[Async] \notin Executing
  /\ \A k \in CalcIds : creq'[k] # NULL =>
       /\ cstate'[k] # "none"
       /\ creq'[k].by = Async => creq'[k] = creq[k] /\ creq[k] # NULL

(* The cursor's execute() is its own: none of SparkCursor's steps is one of  *)
(* its calculations.                                                         *)
LEMMA CursorCreatesNone ==
  ASSUME IInv, CallsNumbered, [Next]_vars
  PROVE  NoneCreated
<1>1. TypeOK /\ Evolves /\ Async \in Cursors /\ MaxExecs[Async] = 0
  BY StepEvolves, AsyncAssumption DEF IInv
<1>2. pc[Async] \notin Executing /\ \A k \in CalcIds : creq[k] # NULL => cstate[k] # "none"
  BY DEF CallsNumbered
<1>3. execs[Async] = 0 /\ pc \in [Cursors -> {"new", "ready", "gone"} \cup Constructing \cup Executing]
  BY <1>1 DEF TypeOK
<1>4. ASSUME creq' = creq PROVE \A k \in CalcIds : creq'[k] # NULL =>
               /\ cstate'[k] # "none"
               /\ creq'[k].by = Async => creq'[k] = creq[k] /\ creq[k] # NULL
  BY <1>1, <1>2, <1>4 DEF Evolves, CalcsKept
<1>5. CASE UNCHANGED vars
  BY <1>2, <1>4, <1>5 DEF vars, sparkVars, NoneCreated
<1>6. CASE ServiceStep
  <2>1. creq' = creq /\ pc' = pc
    BY <1>6 DEF ServiceStep, Spark!SparkNext, Spark!SessionChanges, Spark!SessionEnds,
       Spark!CalcRuns, Spark!CalcEnds
  <2>2. QED BY <1>2, <1>4, <2>1 DEF NoneCreated
<1>7. ASSUME NEW c \in Cursors, NEW k \in CalcIds, StartCalculation(c, k)
      PROVE  NoneCreated
  <2>1. c # Async
    BY <1>2, <1>7 DEF StartCalculation, Executing
  <2>2. pc'[Async] = pc[Async]
    BY <1>1, <1>3, <1>7, <2>1 DEF StartCalculation, Goto, Fail
  <2>3. creq' = [creq EXCEPT ![k] = ThisRequest(c)] /\ cstate' = [cstate EXCEPT ![k] = "QUEUED"]
    BY <1>7 DEF StartCalculation, Spark!CreateCalc
  <2>4. ThisRequest(c).by # Async
    BY <2>1 DEF ThisRequest
  <2>5. ASSUME NEW j \in CalcIds, creq'[j] # NULL
        PROVE  /\ cstate'[j] # "none"
               /\ creq'[j].by = Async => creq'[j] = creq[j] /\ creq[j] # NULL
    BY <1>1, <1>2, <2>3, <2>4, <2>5 DEF TypeOK
  <2>6. QED BY <1>2, <2>2, <2>5 DEF NoneCreated
<1>8. ASSUME NEW c \in Cursors,
             \/ New(c) \/ ConstructorRaises(c)
             \/ \E s \in SessionIds : NewAttached(c, s) \/ StartSession(c, s)
             \/ GetSession(c) \/ SessionIsIdle(c)
      PROVE  NoneCreated
  <2>1. creq' = creq
    BY <1>8 DEF New, ConstructorRaises, NewAttached, StartSession, GetSession, SessionIsIdle,
       sparkVars, Spark!CreateSession
  <2>2. \E l \in {"new", "ready", "gone"} \cup Constructing : pc' = [pc EXCEPT ![c] = l]
    BY <1>8 DEF New, ConstructorRaises, NewAttached, StartSession, GetSession, SessionIsIdle,
       Goto, Constructing
  <2>3. pc'[Async] \notin Executing
    BY <1>1, <1>2, <1>3, <2>2 DEF Executing, Polling, Constructing
  <2>4. QED BY <1>4, <2>1, <2>3 DEF NoneCreated
<1>9. ASSUME NEW c \in Cursors,
             \/ Execute(c)
             \/ PollAnswered(c) \/ FetchAnswered(c) \/ StdErrorRead(c) \/ KillAnswered(c)
             \/ Interrupt(c) \/ RaiseError(c)
      PROVE  NoneCreated
  <2>1. creq' = creq
    BY <1>9 DEF Execute, PollAnswered, FetchAnswered, StdErrorRead, KillAnswered, Interrupt,
       RaiseError, sparkVars, Spark!RequestStop
  <2>2. \E l : pc' = [pc EXCEPT ![c] = l]
    BY <1>9 DEF Execute, PollAnswered, FetchAnswered, StdErrorRead, KillAnswered, Interrupt,
       RaiseError, Goto, Fail
  <2>3. c # Async
    BY <1>1, <1>2, <1>3, <1>9 DEF Execute, PollAnswered, FetchAnswered, StdErrorRead,
       KillAnswered, Interrupt, RaiseError, Executing, Polling
  <2>4. pc'[Async] \notin Executing
    BY <1>1, <1>2, <1>3, <2>2, <2>3
  <2>5. QED BY <1>4, <2>1, <2>4 DEF NoneCreated
<1>10. ASSUME NEW c \in Cursors,
              Cancel(c) \/ Close(c) \/ CancelAnswered(c) \/ CloseAnswered(c) \/ OtherRaises(c)
       PROVE  NoneCreated
  <2>1. creq' = creq /\ pc' = pc
    BY <1>10 DEF Cancel, Close, CancelAnswered, CloseAnswered, OtherRaises, sparkVars,
       Spark!RequestStop, Spark!RequestTermination
  <2>2. QED BY <1>2, <1>4, <2>1 DEF NoneCreated
<1>11. QED BY <1>5, <1>6, <1>7, <1>8, <1>9, <1>10 DEF Next, Answered

--------------------------------------------------------------------------------
(* What the steps about this cursor share: its calculations and calls are    *)
(* what they were, and so are its tasks but for new ones.                    *)
LEMMA CallsStay ==
  ASSUME AsyncIInv, CalcsKept, NoneCreated, TasksKept, UNCHANGED <<new_calc, calls>>
  PROVE  CallsNumbered' /\ \A k \in CalcIds : InHands(k)'
<1>1. CallsNumbered /\ UserOK /\ \A k \in CalcIds : InHands(k)
  BY AsyncSplit
<1>2. ASSUME NEW k \in CalcIds, creq'[k] # NULL
      PROVE  cstate'[k] # "none" /\ (creq'[k].by = Async => creq'[k].exec \in 1..Len(calls'))
  BY <1>1, <1>2 DEF NoneCreated, CallsNumbered
<1>3. new_calc' # NULL => creq'[new_calc'] = [by |-> Async, exec |-> Len(calls')]
  <2>1. SUFFICES ASSUME new_calc # NULL
                 PROVE  creq'[new_calc] = [by |-> Async, exec |-> Len(calls)]
    OBVIOUS
  <2>2. new_calc \in CalcIds /\ creq[new_calc] = [by |-> Async, exec |-> Len(calls)]
    BY <1>1, <2>1 DEF UserOK, CallsNumbered
  <2>3. creq[new_calc] # NULL
    BY <1>1, <2>2, AsyncAssumption, ConstantsAssumption, LenProperties
    DEF ConstantsAssumption, UserOK
  <2>4. creq'[new_calc] = creq[new_calc]
    BY <1>1, <2>2, <2>3 DEF CallsNumbered, CalcsKept
  <2>5. QED BY <2>2, <2>4
<1>4. CallsNumbered'
  BY <1>2, <1>3 DEF CallsNumbered, NoneCreated
<1>5. ASSUME NEW k \in CalcIds, creq'[k] # NULL, creq'[k].by = Async PROVE InHands(k)'
  <2>1. creq'[k] = creq[k] /\ creq[k] # NULL
    BY <1>5 DEF NoneCreated
  <2>2. \/ calls[creq[k].exec] = "raised"
        \/ new_calc = k
        \/ \E t \in Tasks : task[t] = [kind |-> "poll", calc |-> k]
    BY <1>1, <1>5, <2>1 DEF InHands
  <2>3. CASE \E t \in Tasks : task[t] = [kind |-> "poll", calc |-> k]
    <3>1. PICK t \in Tasks : task[t] = [kind |-> "poll", calc |-> k]
      BY <2>3
    <3>2. t \in Tasks' /\ task'[t] = [kind |-> "poll", calc |-> k]
      BY <3>1 DEF TasksKept
    <3>3. QED BY <3>2 DEF InHands
  <2>4. QED BY <2>1, <2>2, <2>3 DEF InHands
<1>6. QED BY <1>4, <1>5 DEF InHands

(* A step of the constructor, of another cursor or of the service. *)
LEMMA CursorStepInv ==
  ASSUME AsyncIInv, [Next]_vars, UNCHANGED <<userVars, poolVars, taskVars>>
  PROVE  AsyncIInv'
<1>1. /\ IInv /\ UserOK /\ TasksOK /\ PoolOK /\ CallsNumbered
      /\ \A t \in Tasks : Sound(t)
  BY AsyncSplit
<1>2. IInv' /\ CalcsKept /\ NoneCreated
  BY <1>1, StepEvolves, CursorCreatesNone DEF Evolves
<1>3. TasksKept /\ Tasks' = Tasks
  BY <1>1, <1>2, TasksStay
<1>4. UserOK' /\ PoolOK'
  BY <1>1, <1>3 DEF UserOK, PoolOK, userVars, poolVars
<1>5. CallsNumbered' /\ \A k \in CalcIds : InHands(k)'
  BY <1>2, <1>3, CallsStay DEF userVars
<1>6. QED BY <1>2, <1>3, <1>4, <1>5, AsyncJoin DEF TasksKept

(* execute() creates a calculation: its id is held, or the call raises. *)
LEMMA CalculateInv ==
  ASSUME AsyncIInv, NEW k \in CalcIds, NEW s \in SessionIds, Calculate(k, s)
  PROVE  AsyncIInv'
<1> DEFINE r == [by |-> Async, exec |-> Len(calls) + 1]
<1>1. /\ IInv /\ UserOK /\ TasksOK /\ PoolOK /\ CallsNumbered
      /\ \A j \in CalcIds : InHands(j)
      /\ \A t \in Tasks : Sound(t)
  BY AsyncSplit
<1>2. TypeOK /\ Len(calls) \in Nat /\ new_calc = NULL /\ pc[Async] = "ready"
  BY <1>1, LenProperties DEF IInv, UserOK, Calculate, Idle
<1>3. r \in [by : Cursors, exec : Nat]
  BY <1>2, AsyncAssumption
<1>4. Evolves
  BY <1>2, <1>3, CreateCalcEvolves DEF Calculate
<1>5. IInv'
  BY <1>1, <1>4, ServiceInv DEF Calculate
<1>6. TasksKept /\ Tasks' = Tasks
  BY <1>1, <1>4, TasksStay DEF Calculate, Evolves
<1>7. PoolOK'
  BY <1>1, <1>6 DEF PoolOK, Calculate, poolVars
<1>8. \E w \in {"ok", "raised"} :
        /\ calls' = Append(calls, w) /\ Len(calls') = Len(calls) + 1
        /\ \A i \in 1..Len(calls) : calls'[i] = calls[i]
        /\ calls'[Len(calls) + 1] = w
        /\ calls' \in Seq({"ok", "raised"})
        /\ new_calc' = IF w = "ok" THEN k ELSE NULL
  <2>1. PICK w \in {"ok", "raised"} :
          calls' = Append(calls, w) /\ new_calc' = IF w = "ok" THEN k ELSE NULL
    BY <1>2 DEF Calculate
  <2>2. QED BY <1>1, <2>1, AppendProperties DEF UserOK
<1>9. UserOK'
  BY <1>1, <1>8 DEF UserOK, Calculate
<1>10. /\ \A j \in CalcIds : creq'[j] = IF j = k THEN r ELSE creq[j]
       /\ \A j \in CalcIds : cstate'[j] = IF j = k THEN "QUEUED" ELSE cstate[j]
  BY <1>2 DEF Calculate, Spark!CreateCalc, TypeOK
<1>11. CallsNumbered'
  <2>1. pc'[Async] \notin Executing
    BY <1>1 DEF CallsNumbered, Calculate
  <2>2. ASSUME NEW j \in CalcIds, creq'[j] # NULL
        PROVE  cstate'[j] # "none" /\ (creq'[j].by = Async => creq'[j].exec \in 1..Len(calls'))
    <3>1. CASE j = k
      BY <1>2, <1>8, <1>10, <3>1
    <3>2. CASE j # k
      BY <1>1, <1>2, <1>8, <1>10, <2>2, <3>2 DEF CallsNumbered
    <3>3. QED BY <3>1, <3>2
  <2>3. new_calc' # NULL => creq'[new_calc'] = [by |-> Async, exec |-> Len(calls')]
    BY <1>8, <1>10
  <2>4. QED BY <2>1, <2>2, <2>3 DEF CallsNumbered
<1>12. ASSUME NEW j \in CalcIds, creq'[j] # NULL, creq'[j].by = Async PROVE InHands(j)'
  <2>1. CASE j = k
    BY <1>8, <1>10, <2>1 DEF InHands
  <2>2. CASE j # k
    <3>1. creq'[j] = creq[j] /\ creq[j] # NULL /\ creq[j].exec \in 1..Len(calls)
      BY <1>1, <1>10, <1>12, <2>2 DEF CallsNumbered
    <3>2. j # NULL
      BY ConstantsAssumption DEF ConstantsAssumption
    <3>3. \/ calls[creq[j].exec] = "raised"
          \/ \E t \in Tasks : task[t] = [kind |-> "poll", calc |-> j]
      BY <1>1, <1>2, <1>12, <3>1, <3>2 DEF InHands
    <3>4. calls'[creq'[j].exec] = calls[creq[j].exec]
      BY <1>8, <3>1
    <3>5. QED BY <1>6, <3>3, <3>4 DEF InHands, Calculate, taskVars
  <2>3. QED BY <2>1, <2>2
<1>13. QED BY <1>5, <1>6, <1>7, <1>9, <1>11, <1>12, AsyncJoin DEF TasksKept, InHands

(* What the user and the workers do leaves the cursors and the service alone *)
LEMMA NothingElse ==
  ASSUME AsyncIInv, UNCHANGED vars
  PROVE  IInv' /\ CalcsKept /\ NoneCreated
  BY AsyncSplit, StepEvolves, CursorCreatesNone DEF Evolves

(* The calculation goes into the hands of a task, or the call raises. *)
LEMMA SubmitPollInv ==
  ASSUME AsyncIInv, SubmitPoll
  PROVE  AsyncIInv'
<1>1. /\ IInv /\ UserOK /\ TasksOK /\ PoolOK /\ CallsNumbered
      /\ \A j \in CalcIds : InHands(j)
      /\ \A t \in Tasks : Sound(t)
  BY AsyncSplit
<1>2. IInv' /\ CalcsKept /\ NoneCreated
  BY NothingElse DEF SubmitPoll
<1>3. PICK k \in CalcIds : k = new_calc
  BY <1>1 DEF UserOK, SubmitPoll
<1>4. /\ new_calc # NULL /\ new_calc' = NULL /\ Len(calls) \in Nat
      /\ creq[k] = [by |-> Async, exec |-> Len(calls)] /\ creq[k] # NULL
      /\ Len(calls) \in 1..Len(calls) /\ cstate[k] # "none" /\ cstate' = cstate /\ creq' = creq
  <2>1. new_calc # NULL /\ new_calc' = NULL /\ cstate' = cstate /\ creq' = creq
    BY DEF SubmitPoll, vars, sparkVars
  <2>2. Len(calls) \in Nat /\ Async \in Cursors
    BY <1>1, LenProperties, AsyncAssumption DEF UserOK
  <2>3. creq[k] = [by |-> Async, exec |-> Len(calls)]
    BY <1>1, <1>3, <2>1 DEF CallsNumbered
  <2>4. creq[k] # NULL
    BY <2>2, <2>3, ConstantsAssumption DEF ConstantsAssumption
  <2>5. QED BY <1>1, <2>1, <2>2, <2>3, <2>4 DEF CallsNumbered
<1>5. /\ TasksKept /\ PoolOK' /\ UserOK' /\ Len(calls') = Len(calls)
      /\ \A i \in 1..Len(calls) : calls[i] = "raised" => calls'[i] = "raised"
      /\ \/ \E t \in Tasks' : task'[t] = [kind |-> "poll", calc |-> k]
         \/ calls'[Len(calls)] = "raised"
  <2>1. CASE SubmitTask("poll", new_calc) /\ UNCHANGED calls
    <3>1. SubmitTask("poll", k) /\ "poll" \in Kinds
      BY <1>3, <2>1 DEF Kinds
    <3>2. /\ TasksKept /\ PoolOK'
          /\ \E t \in Tasks' : task'[t] = [kind |-> "poll", calc |-> k]
      BY <1>1, <1>2, <1>4, <3>1, TasksGrow
    <3>3. UserOK'
      BY <1>1, <1>4, <2>1 DEF UserOK, SubmitPoll
    <3>4. QED BY <2>1, <3>2, <3>3
  <2>2. CASE calls' = [calls EXCEPT ![Len(calls)] = "raised"] /\ UNCHANGED <<poolVars, taskVars>>
    <3>1. TasksKept /\ Tasks' = Tasks
      BY <1>1, <1>2, <2>2, TasksStay
    <3>2. /\ calls' \in Seq({"ok", "raised"}) /\ Len(calls') = Len(calls)
          /\ \A i \in 1..Len(calls) : calls'[i] = IF i = Len(calls) THEN "raised" ELSE calls[i]
      BY <1>1, <1>4, <2>2, ExceptSeq DEF UserOK
    <3>3. UserOK' /\ PoolOK'
      BY <1>1, <1>4, <2>2, <3>1, <3>2 DEF UserOK, PoolOK, poolVars, SubmitPoll
    <3>4. QED BY <1>4, <3>1, <3>2, <3>3
  <2>3. QED BY <2>1, <2>2 DEF SubmitPoll
<1>6. CallsNumbered'
  <2>1. \A j \in CalcIds : creq'[j] # NULL =>
          cstate'[j] # "none" /\ (creq'[j].by = Async => creq'[j].exec \in 1..Len(calls'))
    BY <1>1, <1>4, <1>5 DEF CallsNumbered
  <2>2. QED BY <1>2, <1>4, <2>1 DEF CallsNumbered, NoneCreated
<1>7. ASSUME NEW j \in CalcIds, creq'[j] # NULL, creq'[j].by = Async PROVE InHands(j)'
  <2>1. CASE j = k
    BY <1>4, <1>5, <2>1 DEF InHands
  <2>2. CASE j # k
    <3>1. creq'[j] = creq[j] /\ creq[j] # NULL /\ creq[j].exec \in 1..Len(calls)
      BY <1>1, <1>4, <1>7 DEF CallsNumbered
    <3>2. \/ calls[creq[j].exec] = "raised"
          \/ \E t \in Tasks : task[t] = [kind |-> "poll", calc |-> j]
      BY <1>1, <1>3, <1>7, <2>2, <3>1 DEF InHands
    <3>3. CASE calls[creq[j].exec] = "raised"
      BY <1>5, <3>1, <3>3 DEF InHands
    <3>4. CASE \E t \in Tasks : task[t] = [kind |-> "poll", calc |-> j]
      <4>1. \E t \in Tasks' : task'[t] = [kind |-> "poll", calc |-> j]
        BY <1>5, <3>4 DEF TasksKept
      <4>2. QED BY <4>1 DEF InHands
    <3>5. QED BY <3>2, <3>3, <3>4
  <2>3. QED BY <2>1, <2>2
<1>8. QED BY <1>2, <1>5, <1>6, <1>7, AsyncJoin DEF TasksKept, InHands

(* Another task about a calculation that was created. *)
LEMMA SubmitInv ==
  ASSUME AsyncIInv, NEW kind \in Kinds, NEW k \in CalcIds, Submit(kind, k)
  PROVE  AsyncIInv'
<1>1. /\ IInv /\ UserOK /\ TasksOK /\ PoolOK /\ \A t \in Tasks : Sound(t)
  BY AsyncSplit
<1>2. IInv' /\ CalcsKept /\ NoneCreated
  BY NothingElse DEF Submit
<1>3. cstate[k] # "none" /\ SubmitTask(kind, k)
  BY <1>1 DEF Submit, Sound, TaskInOrder
<1>4. TasksKept /\ PoolOK'
  BY <1>1, <1>2, <1>3, TasksGrow
<1>5. UserOK'
  BY <1>1 DEF UserOK, Submit, userVars
<1>6. CallsNumbered' /\ \A j \in CalcIds : InHands(j)'
  BY <1>2, <1>4, CallsStay DEF Submit, userVars
<1>7. QED BY <1>2, <1>4, <1>5, <1>6, AsyncJoin DEF TasksKept

(* close() shuts the pool down, and returns. *)
LEMMA CloseInv ==
  ASSUME AsyncIInv, CloseReturns \/ \E wait \in BOOLEAN : Shutdown(wait)
  PROVE  AsyncIInv'
<1>1. /\ IInv /\ UserOK /\ TasksOK /\ PoolOK /\ \A t \in Tasks : Sound(t)
  BY AsyncSplit
<1>2. /\ UNCHANGED <<new_calc, calls, queue, working, taskVars, vars>>
      /\ shut_down' \in BOOLEAN /\ waiting' \in BOOLEAN
  BY <1>1 DEF CloseReturns, Shutdown, Pool!Shutdown, poolVars, PoolOK
<1>3. IInv' /\ CalcsKept /\ NoneCreated
  BY <1>2, NothingElse
<1>4. TasksKept /\ Tasks' = Tasks
  BY <1>1, <1>2, <1>3, TasksStay
<1>5. UserOK' /\ PoolOK'
  BY <1>1, <1>2, <1>4 DEF UserOK, PoolOK
<1>6. CallsNumbered' /\ \A j \in CalcIds : InHands(j)'
  BY <1>2, <1>3, <1>4, CallsStay
<1>7. QED BY <1>3, <1>4, <1>5, <1>6, AsyncJoin DEF TasksKept

(* A worker's step: the service undoes nothing, and the task turns. *)
LEMMA WorkerInv ==
  ASSUME AsyncIInv, IInv', CalcsKept, NoneCreated, TasksKept, Tasks' = Tasks,
         UNCHANGED userVars, queue' \in Seq(Tasks), working' \subseteq Tasks,
         UNCHANGED shut_down
  PROVE  AsyncIInv'
<1>1. UserOK /\ PoolOK
  BY AsyncSplit
<1>2. UserOK' /\ PoolOK'
  BY <1>1 DEF UserOK, PoolOK, userVars
<1>3. CallsNumbered' /\ \A j \in CalcIds : InHands(j)'
  BY CallsStay DEF userVars
<1>4. QED BY <1>2, <1>3, AsyncJoin DEF TasksKept

(* A worker takes a task, and begins with the first step of its kind. *)
LEMMA TakeTaskInv ==
  ASSUME AsyncIInv, NEW t \in Tasks, TakeTask(t)
  PROVE  AsyncIInv'
<1>1. /\ TasksOK /\ PoolOK /\ \A u \in Tasks : Sound(u)
  BY AsyncSplit
<1>2. IInv' /\ CalcsKept /\ NoneCreated
  BY NothingElse DEF TakeTask
<1>3. PICK f : f = FirstStep(task[t].kind)
  OBVIOUS
<1>4. /\ f \in Running
      /\ f = "polling" => task[t].kind = "poll"
      /\ f = "getting" => task[t].kind = "get"
      /\ f = "stopping" => task[t].kind = "cancel"
      /\ f # "fetching"
  <2>1. task[t].kind \in {"poll", "get", "cancel"}
    BY <1>1, TaskType DEF Kinds
  <2>2. QED BY <1>3, <2>1 DEF FirstStep, Running
<1>5. /\ task' = task /\ answer' = [answer EXCEPT ![t] = answer[t]]
      /\ future' = [future EXCEPT ![t] = f] /\ cstate' = cstate
      /\ future'[t] = f /\ answer[t] \in Answers
  BY <1>1, <1>3 DEF TakeTask, TasksOK, vars, sparkVars
<1>6. Sound(t)'
  BY <1>1, <1>4, <1>5 DEF Sound, TaskInOrder, Tells, Running
<1>7. TasksKept /\ Tasks' = Tasks
  BY <1>1, <1>2, <1>4, <1>5, <1>6, TaskTurns DEF FutureStates
<1>8. queue' \in Seq(Tasks) /\ working' \subseteq Tasks
  BY <1>1, HeadTailProperties DEF PoolOK, TakeTask, Pool!Take
<1>9. QED BY <1>2, <1>7, <1>8, WorkerInv DEF TakeTask, Pool!Take

(* A task is done or has raised. *)
LEMMA ResolveInv ==
  ASSUME AsyncIInv, IInv', CalcsKept, NoneCreated, NEW t \in Tasks,
         NEW f \in {"done", "raised"}, NEW a \in Answers, Resolve(t, f, a),
         (f = "done" /\ task[t].kind = "poll") =>
           a \in Spark!FinalCalc /\ a = cstate'[task[t].calc]
  PROVE  AsyncIInv'
<1>1. /\ TasksOK /\ PoolOK /\ \A u \in Tasks : Sound(u)
  BY AsyncSplit
<1>2. /\ task' = task /\ answer' = [answer EXCEPT ![t] = a] /\ answer'[t] = a
      /\ future' = [future EXCEPT ![t] = f] /\ future'[t] = f
  BY <1>1 DEF Resolve, TasksOK
<1>3. task[t].calc \in CalcIds /\ cstate'[task[t].calc] # "none"
  BY <1>1, TaskType DEF Sound, TaskInOrder, CalcsKept
<1>4. Sound(t)'
  BY <1>2, <1>3 DEF Sound, TaskInOrder, Tells
<1>5. TasksKept /\ Tasks' = Tasks
  BY <1>1, <1>2, <1>4, TaskTurns DEF FutureStates
<1>6. queue' \in Seq(Tasks) /\ working' \subseteq Tasks
  BY <1>1 DEF PoolOK, Resolve, Pool!Release
<1>7. QED BY <1>5, <1>6, WorkerInv DEF Resolve, Pool!Release

(* _poll has seen the calculation end. *)
LEMMA PollTaskInv ==
  ASSUME AsyncIInv, NEW t \in Tasks, PollTask(t)
  PROVE  AsyncIInv'
<1>1. /\ TasksOK /\ PoolOK /\ \A u \in Tasks : Sound(u)
  BY AsyncSplit
<1>2. IInv' /\ CalcsKept /\ NoneCreated
  BY NothingElse DEF PollTask
<1>3. /\ task' = task /\ answer' = [answer EXCEPT ![t] = answer[t]] /\ answer[t] \in Answers
      /\ future' = [future EXCEPT ![t] = "fetching"] /\ cstate' = cstate
      /\ future'[t] = "fetching"
  BY <1>1 DEF PollTask, TasksOK, vars, sparkVars
<1>4. Sound(t)'
  BY <1>1, <1>3 DEF Sound, TaskInOrder, Tells, PollTask, Finished, Spark!FinalCalc
<1>5. "fetching" \in FutureStates
  BY DEF FutureStates, Running
<1>6. TasksKept /\ Tasks' = Tasks
  BY <1>1, <1>2, <1>3, <1>4, <1>5, TaskTurns
<1>7. queue' \in Seq(Tasks) /\ working' \subseteq Tasks
  BY <1>1 DEF PoolOK, PollTask, poolVars
<1>8. QED BY <1>2, <1>6, <1>7, WorkerInv DEF PollTask, poolVars

(* The task has fetched the calculation execution. *)
LEMMA GetCalculationExecutionInv ==
  ASSUME AsyncIInv, NEW t \in Tasks, GetCalculationExecution(t)
  PROVE  AsyncIInv'
<1>1. /\ IInv /\ TasksOK /\ Sound(t) /\ task[t].calc \in CalcIds
  BY AsyncSplit, TaskType
<1>2. IInv' /\ CalcsKept /\ NoneCreated /\ cstate' = cstate
  BY NothingElse DEF GetCalculationExecution, vars, sparkVars
<1>3. PICK a : a = cstate[task[t].calc]
  OBVIOUS
<1>4. a \in Answers
  BY <1>1, <1>3 DEF Answers, IInv, TypeOK, Sound, TaskInOrder
<1>5. Resolve(t, "done", a) /\ future[t] \in {"fetching", "getting"}
  BY <1>3 DEF GetCalculationExecution
<1>6. task[t].kind = "poll" => a \in Spark!FinalCalc /\ a = cstate'[task[t].calc]
  BY <1>1, <1>2, <1>3, <1>5 DEF Sound, TaskInOrder
<1>7. QED BY <1>2, <1>4, <1>5, <1>6, ResolveInv

(* The stop request of a cancel() is accepted. *)
LEMMA StopCalculationInv ==
  ASSUME AsyncIInv, NEW t \in Tasks, StopCalculation(t)
  PROVE  AsyncIInv'
<1>1. /\ IInv /\ CallsNumbered /\ TasksOK /\ Sound(t)
  BY AsyncSplit
<1>2. Evolves
  BY <1>1, RequestStopEvolves DEF StopCalculation, IInv
<1>3. IInv'
  BY <1>1, <1>2, ServiceInv DEF StopCalculation
<1>4. NoneCreated
  <2>1. creq' = creq /\ pc' = pc
    BY DEF StopCalculation, Spark!RequestStop
  <2>2. QED BY <1>1, <1>2, <2>1 DEF NoneCreated, CallsNumbered, Evolves, CalcsKept
<1>5. task[t].kind # "poll" /\ Resolve(t, "done", NULL) /\ NULL \in Answers
  BY <1>1 DEF StopCalculation, Sound, TaskInOrder, Answers
<1>6. QED BY <1>2, <1>3, <1>4, <1>5, ResolveInv DEF Evolves

(* A call of the task fails for good. *)
LEMMA TaskRaisesInv ==
  ASSUME AsyncIInv, NEW t \in Tasks, TaskRaises(t)
  PROVE  AsyncIInv'
<1>1. IInv' /\ CalcsKept /\ NoneCreated
  BY NothingElse DEF TaskRaises
<1>2. Resolve(t, "raised", NULL) /\ NULL \in Answers
  BY DEF TaskRaises, Answers
<1>3. QED BY <1>1, <1>2, ResolveInv
--------------------------------------------------------------------------------
(* In the beginning nobody has called. *)
LEMMA AsyncInitInv == AsyncInit => AsyncIInv
<1> SUFFICES ASSUME AsyncInit PROVE AsyncIInv
  OBVIOUS
<1>1. IInv
  BY InitInv DEF AsyncInit
<1>2. Tasks = {} /\ task \in Seq(TaskRecord) /\ queue \in Seq(Tasks)
  BY EmptySeq DEF AsyncInit, Tasks, Pool!PoolInit
<1>3. UserOK
  BY EmptySeq DEF AsyncInit, UserOK
<1>4. TasksOK
  BY <1>2 DEF AsyncInit, TasksOK, Tasks
<1>5. PoolOK
  BY <1>2 DEF AsyncInit, Pool!PoolInit, PoolOK
<1>6. creq = [k \in CalcIds |-> NULL] /\ pc[Async] \in {"new", "gone"}
  BY AsyncAssumption DEF AsyncInit, Init, Spark!SparkInit
<1>7. CallsNumbered /\ \A k \in CalcIds : InHands(k)
  BY <1>6 DEF CallsNumbered, InHands, AsyncInit, Executing, Polling
<1>8. QED BY <1>1, <1>2, <1>3, <1>4, <1>5, <1>7, AsyncSplit

(* Every step keeps the invariant. *)
LEMMA AsyncStepInv == AsyncIInv /\ [AsyncNext]_allVars => AsyncIInv'
<1> SUFFICES ASSUME AsyncIInv, [AsyncNext]_allVars PROVE AsyncIInv'
  OBVIOUS
<1>1. CASE UNCHANGED allVars
  BY <1>1, CursorStepInv DEF allVars
<1>2. CASE CursorStep
  BY <1>2, CursorStepInv DEF CursorStep
<1>3. ASSUME NEW t \in Tasks, WorkerStep(t) \/ TaskRaises(t) PROVE AsyncIInv'
  BY <1>3, TakeTaskInv, PollTaskInv, GetCalculationExecutionInv, StopCalculationInv,
     TaskRaisesInv DEF WorkerStep
<1>4. QED
  BY <1>1, <1>2, <1>3, CalculateInv, SubmitPollInv, SubmitInv, CloseInv DEF AsyncNext

(* The inductive invariant of an AsyncSparkCursor beside the other Spark     *)
(* cursors, its pool, and a user that executes while another closes.         *)
THEOREM AsyncInvariance == AsyncSpec => []AsyncIInv
  BY AsyncInitInv, AsyncStepInv, PTL DEF AsyncSpec

(* No calculation execute() has started is dropped silently, and a future of *)
(* _poll that is done has the final state of its very calculation.           *)
THEOREM FuturesAlwaysTell == AsyncSpec => []FuturesTell
  BY AsyncInvariance, PTL DEF AsyncIInv

(* What execute() of the other cursors promises when it returns still holds  *)
(* beside an AsyncSparkCursor that shares their session.                     *)
THEOREM ReturnedCompletedBeside == AsyncSpec => []ReturnedMeansCompleted
  BY AsyncInvariance, PTL DEF AsyncIInv, IInv

(* And so does what is said of the sessions, those an AsyncSparkCursor       *)
(* starts and closes included.                                               *)
THEOREM SessionsAreOwnedBeside == AsyncSpec => []SessionsAreOwned
  BY AsyncInvariance, PTL DEF AsyncIInv, IInv
================================================================================
