--------------------------- MODULE AsyncCursorProofs ---------------------------
(* Proofs about AsyncCursor, for every value of its constants.               *)
EXTENDS AsyncCursor, SequenceTheorems, FiniteSetTheorems, TLAPS

FutureStates == {"pending"} \cup Running \cup Resolved
Answers == Service!Live \cup Service!Terminal \cup {NULL}
TaskRecord == [kind : Kinds, query : QueryIds]

(* The parts of TypeOK: the service, the user's thread, the tasks, the pool. *)
ServiceOK ==
  /\ qstate \in [QueryIds -> {"none"} \cup Service!Live \cup Service!Terminal]
  /\ qreq \in [QueryIds -> Request \cup {NULL}]

StopsOK == stopreq \in [QueryIds -> SUBSET Tasks]

UserOK ==
  /\ upc \in {"idle", "lookup", "start", "submit", "closing"}
  /\ stmt \in Statements /\ execs \in 0..MaxExecs
  /\ query_id \in QueryIds \cup {NULL}
  /\ raised \subseteq 1..MaxExecs

TasksOK ==
  /\ task \in Seq(TaskRecord) /\ Len(task) <= MaxTasks
  /\ future \in [Tasks -> FutureStates]
  /\ answer \in [Tasks -> Answers]

PoolOK ==
  /\ queue \in Seq(Tasks) /\ working \subseteq Tasks /\ closed \in BOOLEAN
  /\ Cardinality(working) <= MaxWorkers
  /\ working = {t \in Tasks : future[t] \in Running}
  /\ {queue[i] : i \in DOMAIN queue} = {t \in Tasks : future[t] = "pending"}
  /\ QueuedOnce

(* A task is at a step of its kind, and its future tells a final state. *)
Shows(t) ==
  (future[t] = "done" /\ task[t].kind \in {"collect", "poll", "description"}) =>
    /\ answer[t] \in Service!Terminal
    /\ answer[t] = qstate[task[t].query]

Good(t) == TaskInOrder(t) /\ Shows(t)

(* IInv is these parts. *)
LEMMA InvSplit ==
  IInv <=> /\ ServiceOK /\ StopsOK /\ UserOK /\ TasksOK /\ PoolOK
           /\ CallHoldsQuery /\ Accounted /\ \A t \in Tasks : Good(t)
  BY DEF IInv, TypeOK, ServiceOK, StopsOK, UserOK, TasksOK, PoolOK, Good, Shows,
         FutureShowsFinalState, FutureStates, Answers, TaskRecord

(* The tasks are numbered. *)
LEMMA TasksNumbered ==
  ASSUME TasksOK
  PROVE  Len(task) \in Nat /\ Tasks = 1..Len(task)
  BY LenProperties DEF TasksOK, Tasks

(* A task has a kind and a query. *)
LEMMA TaskType ==
  ASSUME TasksOK, NEW t \in Tasks
  PROVE  task[t] \in TaskRecord /\ task[t].query \in QueryIds /\ task[t].kind \in Kinds
<1>1. task[t] \in TaskRecord
  BY TasksNumbered, ElementOfSeq DEF TasksOK
<1>2. QED BY <1>1 DEF TaskRecord
--------------------------------------------------------------------------------
(* What no step undoes: a query that was created stays, with its request,    *)
(* and with its final state when it has one.                                 *)
ServiceKept ==
  /\ ServiceOK'
  /\ \A q \in QueryIds : qstate[q] # "none" =>
       /\ qstate'[q] # "none" /\ qreq'[q] = qreq[q]
       /\ qstate[q] \in Service!Terminal => qstate'[q] = qstate[q]

(* It stays as it is. *)
LEMMA ServiceStays == ServiceOK /\ UNCHANGED <<qstate, qreq>> => ServiceKept
  BY DEF ServiceOK, ServiceKept

(* A new query takes no id that is taken. *)
LEMMA CreateQueryKept ==
  ASSUME ServiceOK, NEW q \in QueryIds, NEW r \in Request, Service!CreateQuery(q, r)
  PROVE  ServiceKept
  BY DEF ServiceOK, ServiceKept, Service!CreateQuery, Service!Live

(* A query runs, ends or is cancelled. *)
LEMMA ServiceNextKept ==
  ASSUME ServiceOK, Service!ServiceNext
  PROVE  ServiceKept /\ UNCHANGED <<qreq, stopreq>>
<1>1. ASSUME NEW q \in QueryIds, Service!RunQuery(q)
      PROVE  ServiceKept /\ UNCHANGED <<qreq, stopreq>>
  BY <1>1 DEF ServiceOK, ServiceKept, Service!RunQuery, Service!Live, Service!Terminal
<1>2. ASSUME NEW q \in QueryIds, Service!CompleteQuery(q)
      PROVE  ServiceKept /\ UNCHANGED <<qreq, stopreq>>
  BY <1>2 DEF ServiceOK, ServiceKept, Service!CompleteQuery, Service!Live, Service!Terminal
<1>3. ASSUME NEW q \in QueryIds, Service!CancelQuery(q)
      PROVE  ServiceKept /\ UNCHANGED <<qreq, stopreq>>
  BY <1>3 DEF ServiceOK, ServiceKept, Service!CancelQuery, Service!Live, Service!Terminal
<1>4. QED BY <1>1, <1>2, <1>3 DEF Service!ServiceNext
--------------------------------------------------------------------------------
(* What the steps do to the tasks: nothing, a new one, or a step of one.     *)
TasksKept ==
  /\ TasksOK' /\ Tasks \subseteq Tasks'
  /\ \A t \in Tasks : task'[t] = task[t]
  /\ \A t \in Tasks' : Good(t)'

(* A task that does nothing stays good, whatever the service does. *)
LEMMA StaysGood ==
  ASSUME TasksOK, ServiceKept, NEW t \in Tasks, Good(t),
         task'[t] = task[t], future'[t] = future[t], answer'[t] = answer[t]
  PROVE  Good(t)'
<1>1. task[t].query \in QueryIds
  BY TaskType
<1>2. QED BY <1>1 DEF Good, Shows, TaskInOrder, ServiceKept, Service!Terminal

(* The step is not about tasks. *)
LEMMA TasksStay ==
  ASSUME TasksOK, ServiceKept, \A t \in Tasks : Good(t), UNCHANGED taskVars
  PROVE  TasksKept
<1>1. \A t \in Tasks : Good(t)'
  BY StaysGood DEF taskVars
<1>2. TasksOK' /\ Tasks' = Tasks /\ task' = task
  BY DEF TasksOK, Tasks, taskVars
<1>3. QED BY <1>1, <1>2 DEF TasksKept

(* A new task is the last, and pending. *)
LEMMA TasksGrow ==
  ASSUME TasksOK, ServiceKept, \A t \in Tasks : Good(t),
         NEW kind \in Kinds, NEW q \in QueryIds, qstate[q] # "none", SubmitTask(kind, q)
  PROVE  /\ TasksKept
         /\ Tasks' = Tasks \cup {Len(task) + 1}
         /\ task'[Len(task) + 1] = [kind |-> kind, query |-> q]
         /\ future'[Len(task) + 1] = "pending"
         /\ \A t \in Tasks : future'[t] = future[t]
<1> DEFINE r == [kind |-> kind, query |-> q]
<1> PICK n \in Nat : n = Len(task) + 1
  BY TasksNumbered
<1>0. Len(task) \in Nat /\ Tasks = 1..Len(task) /\ n \notin Tasks
  BY TasksNumbered
<1>1. r \in TaskRecord
  BY DEF TaskRecord
<1>2. /\ task' \in Seq(TaskRecord) /\ Len(task') = n
      /\ \A t \in Tasks : task'[t] = task[t]
      /\ task'[n] = r
  BY <1>0, <1>1, AppendProperties DEF TasksOK, SubmitTask
<1>3. Tasks' = 1..n
  BY <1>2, LenProperties DEF Tasks
<1>4. future \in Seq(FutureStates) /\ Len(future) = Len(task)
  BY <1>0, SeqDef, LenProperties DEF TasksOK
<1>5. answer \in Seq(Answers) /\ Len(answer) = Len(task)
  BY <1>0, SeqDef, LenProperties DEF TasksOK
<1>6. /\ future' \in Seq(FutureStates) /\ Len(future') = n
      /\ \A t \in Tasks : future'[t] = future[t]
      /\ future'[n] = "pending"
  BY <1>0, <1>4, AppendProperties DEF SubmitTask, FutureStates
<1>7. /\ answer' \in Seq(Answers) /\ Len(answer') = n
      /\ \A t \in Tasks : answer'[t] = answer[t]
  BY <1>0, <1>5, AppendProperties DEF SubmitTask, Answers
<1>8. future' \in [Tasks' -> FutureStates] /\ answer' \in [Tasks' -> Answers]
  BY <1>3, <1>6, <1>7, LenProperties
<1>9. TasksOK'
  BY <1>0, <1>2, <1>8, ConstantsAssumption DEF TasksOK, SubmitTask
<1>10. \A t \in Tasks : Good(t)'
  BY <1>2, <1>6, <1>7, StaysGood
<1>11. Good(n)'
  BY <1>2, <1>6 DEF Good, Shows, TaskInOrder, ServiceKept
<1>12. Tasks' = Tasks \cup {n}
  BY <1>0, <1>3
<1>13. QED BY <1>2, <1>6, <1>9, <1>10, <1>11, <1>12 DEF TasksKept

(* A step of task t: its future goes to f, its answer to a. *)
LEMMA TaskTurns ==
  ASSUME TasksOK, ServiceKept, \A u \in Tasks : Good(u), NEW t \in Tasks,
         NEW f \in FutureStates, NEW a \in Answers,
         task' = task, future' = [future EXCEPT ![t] = f], answer' = [answer EXCEPT ![t] = a],
         Good(t)'
  PROVE  TasksKept /\ Tasks' = Tasks
<1>1. Tasks' = Tasks
  BY DEF Tasks
<1>2. TasksOK'
  BY <1>1 DEF TasksOK
<1>3. ASSUME NEW u \in Tasks, u # t PROVE Good(u)'
  BY <1>3, StaysGood DEF TasksOK
<1>4. QED BY <1>1, <1>2, <1>3 DEF TasksKept
--------------------------------------------------------------------------------
(* The pool: what is queued is pending, once, and what is worked on runs.    *)
QueueOK ==
  /\ queue \in Seq(Tasks) /\ QueuedOnce
  /\ \A i \in 1..Len(queue) : future[queue[i]] = "pending"
  /\ \A t \in Tasks : future[t] = "pending" => \E i \in 1..Len(queue) : queue[i] = t

WorkersOK ==
  /\ working = {t \in Tasks : future[t] \in Running}
  /\ Cardinality(working) <= MaxWorkers

(* Both ways to say so. *)
LEMMA QueueForm ==
  ASSUME NEW T, NEW q \in Seq(T), NEW f
  PROVE  {q[i] : i \in DOMAIN q} = {t \in T : f[t] = "pending"} <=>
           /\ \A i \in 1..Len(q) : f[q[i]] = "pending"
           /\ \A t \in T : f[t] = "pending" => \E i \in 1..Len(q) : q[i] = t
<1>1. DOMAIN q = 1..Len(q)
  BY LenProperties
<1>2. \A i \in 1..Len(q) : q[i] \in T
  BY ElementOfSeq
<1>3. QED BY <1>1, <1>2

(* What the invariant says of the pool, with the range of the queue. *)
LEMMA PoolSplit ==
  ASSUME PoolOK
  PROVE  /\ QueueOK /\ WorkersOK /\ closed \in BOOLEAN
         /\ Len(queue) \in Nat /\ DOMAIN queue = 1..Len(queue)
         /\ \A i \in 1..Len(queue) : queue[i] \in Tasks
<1>1. QueueOK
  BY QueueForm DEF PoolOK, QueueOK
<1>2. QED BY <1>1, LenProperties, ElementOfSeq DEF PoolOK, QueueOK, WorkersOK

(* And back, in the next state. *)
LEMMA PoolJoin ==
  ASSUME QueueOK', WorkersOK', closed' \in BOOLEAN
  PROVE  PoolOK'
<1>1. {queue'[i] : i \in DOMAIN queue'} = {t \in Tasks' : future'[t] = "pending"}
  BY QueueForm DEF QueueOK
<1>2. working' \subseteq Tasks'
  BY DEF WorkersOK
<1>3. QED BY <1>1, <1>2 DEF PoolOK, QueueOK, WorkersOK

(* The set of workers is finite. *)
LEMMA WorkersFinite ==
  ASSUME TasksOK, working \subseteq Tasks
  PROVE  IsFiniteSet(working) /\ Cardinality(working) \in Nat
<1>1. IsFiniteSet(Tasks)
  BY TasksNumbered, FS_Interval
<1>2. QED BY <1>1, FS_Subset, FS_CardinalityType

(* A step that takes no task in or out. *)
LEMMA PoolStays ==
  ASSUME PoolOK, UNCHANGED <<queue, working>>, closed' \in BOOLEAN, Tasks' = Tasks,
         \A t \in Tasks : /\ future'[t] = "pending" <=> future[t] = "pending"
                          /\ future'[t] \in Running <=> future[t] \in Running
  PROVE  PoolOK'
<1>a. /\ QueueOK /\ WorkersOK /\ Len(queue) \in Nat /\ DOMAIN queue = 1..Len(queue)
      /\ \A i \in 1..Len(queue) : queue[i] \in Tasks
  BY PoolSplit
<1>1. working' = {t \in Tasks' : future'[t] \in Running}
  BY <1>a DEF WorkersOK
<1>2. WorkersOK'
  BY <1>1, <1>a DEF WorkersOK, Running
<1>3. QueueOK'
  <2>1. \A i \in 1..Len(queue) : queue[i] \in Tasks
    BY <1>a
  <2>2. QED BY <2>1, <1>a DEF QueueOK, QueuedOnce
<1>4. QED BY <1>2, <1>3, PoolJoin

(* A task is submitted. *)
LEMMA PoolSubmits ==
  ASSUME PoolOK, TasksOK, TasksOK', NEW n, n = Len(task) + 1, Pool!Submit(n),
         Tasks' = Tasks \cup {n}, future'[n] = "pending",
         \A t \in Tasks : future'[t] = future[t]
  PROVE  PoolOK'
<1>a. /\ QueueOK /\ WorkersOK /\ Len(queue) \in Nat /\ DOMAIN queue = 1..Len(queue)
      /\ \A i \in 1..Len(queue) : queue[i] \in Tasks
  BY PoolSplit
<1>0. n \notin Tasks
  BY TasksNumbered
<1>1. /\ queue \in Seq(Tasks') /\ queue \in Seq(Tasks) /\ n \in Tasks'
      /\ \A i \in 1..Len(queue) : queue[i] \in Tasks
      /\ Len(queue) \in Nat
  BY <1>a, SeqMonotonic, ElementOfSeq, LenProperties DEF QueueOK
<1>2. /\ queue' \in Seq(Tasks') /\ Len(queue') = Len(queue) + 1
      /\ \A i \in 1..Len(queue) : queue'[i] = queue[i]
      /\ queue'[Len(queue) + 1] = n
  BY <1>1, AppendProperties DEF Pool!Submit
<1>3. DOMAIN queue = 1..Len(queue) /\ DOMAIN queue' = 1..(Len(queue) + 1)
  BY <1>1, <1>2, LenProperties
<1>4. QueuedOnce'
  BY <1>0, <1>1, <1>2, <1>3, <1>a DEF QueueOK, QueuedOnce
<1>5. \A i \in 1..Len(queue') : future'[queue'[i]] = "pending"
  <2>1. \A i \in 1..Len(queue) : future'[queue'[i]] = "pending"
    BY <1>1, <1>2, <1>a DEF QueueOK
  <2>2. QED BY <1>1, <1>2, <2>1
<1>6. \A t \in Tasks' : future'[t] = "pending" => \E i \in 1..Len(queue') : queue'[i] = t
  BY <1>1, <1>2, <1>a DEF QueueOK
<1>7. WorkersOK'
  BY <1>a DEF WorkersOK, Pool!Submit, Running
<1>8. closed' \in BOOLEAN
  BY DEF PoolOK, Pool!Submit
<1>9. QED BY <1>2, <1>4, <1>5, <1>6, <1>7, <1>8, PoolJoin DEF QueueOK

(* A worker takes the oldest task, if there is a worker left. *)
LEMMA PoolTakes ==
  ASSUME PoolOK, TasksOK, NEW t \in Tasks, Pool!Take(t), Tasks' = Tasks,
         NEW f \in Running, future' = [future EXCEPT ![t] = f]
  PROVE  PoolOK'
<1>a. /\ QueueOK /\ WorkersOK /\ Len(queue) \in Nat /\ DOMAIN queue = 1..Len(queue)
      /\ \A i \in 1..Len(queue) : queue[i] \in Tasks
  BY PoolSplit
<1>1. /\ queue \in Seq(Tasks) /\ queue # <<>> /\ Len(queue) \in Nat /\ Len(queue) > 0
      /\ DOMAIN queue = 1..Len(queue) /\ queue[1] = t
      /\ \A i \in 1..Len(queue) : queue[i] \in Tasks
  BY <1>a, EmptySeq, LenProperties, ElementOfSeq DEF QueueOK, Pool!Take
<1>2. /\ queue' \in Seq(Tasks') /\ Len(queue') = Len(queue) - 1
      /\ \A i \in 1..Len(queue') : queue'[i] = queue[i + 1]
  BY <1>1, HeadTailProperties DEF Pool!Take
<1>3. DOMAIN queue' = 1..Len(queue')
  BY <1>2, LenProperties
<1>4. QueuedOnce'
  BY <1>1, <1>2, <1>3, <1>a DEF QueueOK, QueuedOnce
<1>5. \A i \in 1..Len(queue') : queue'[i] \in Tasks /\ queue'[i] # t
  BY <1>1, <1>2, <1>a DEF QueueOK, QueuedOnce
<1>6. \A u \in Tasks : future'[u] = IF u = t THEN f ELSE future[u]
  BY DEF TasksOK
<1>7. f # "pending"
  BY DEF Running
<1>8. \A i \in 1..Len(queue') : future'[queue'[i]] = "pending"
  BY <1>1, <1>2, <1>5, <1>6, <1>a DEF QueueOK
<1>9. \A u \in Tasks' : future'[u] = "pending" => \E i \in 1..Len(queue') : queue'[i] = u
  <2>1. SUFFICES ASSUME NEW u \in Tasks, future'[u] = "pending"
                 PROVE  \E i \in 1..Len(queue') : queue'[i] = u
    OBVIOUS
  <2>2. u # t /\ future[u] = "pending"
    BY <2>1, <1>6, <1>7
  <2>3. PICK i \in 1..Len(queue) : queue[i] = u
    BY <2>2, <1>a DEF QueueOK
  <2>4. i - 1 \in 1..Len(queue') /\ queue'[i - 1] = u
    BY <1>1, <1>2, <2>2, <2>3
  <2>5. QED BY <2>4
<1>10. working' = {u \in Tasks' : future'[u] \in Running}
  BY <1>6, <1>a DEF WorkersOK, Pool!Take
<1>11. Cardinality(working') <= MaxWorkers
  <2>1. working \subseteq Tasks
    BY DEF PoolOK
  <2>2. Cardinality(working') \in {Cardinality(working), Cardinality(working) + 1}
    BY <2>1, WorkersFinite, FS_AddElement DEF Pool!Take
  <2>3. Cardinality(working) < MaxWorkers
    BY DEF Pool!Take, Pool!FreeWorker, Pool!Cardinality, Cardinality
  <2>4. Cardinality(working) \in Nat
    BY <2>1, WorkersFinite
  <2>5. QED BY <2>2, <2>3, <2>4, ConstantsAssumption
<1>12. QED
  BY <1>2, <1>4, <1>8, <1>9, <1>10, <1>11, PoolJoin DEF QueueOK, WorkersOK, PoolOK, Pool!Take

(* The worker of task t is free again. *)
LEMMA PoolReleases ==
  ASSUME PoolOK, TasksOK, NEW t \in Tasks, Pool!Release(t), Tasks' = Tasks,
         future[t] \in Running, NEW f \in Resolved, future' = [future EXCEPT ![t] = f]
  PROVE  PoolOK'
<1>a. /\ QueueOK /\ WorkersOK /\ Len(queue) \in Nat /\ DOMAIN queue = 1..Len(queue)
      /\ \A i \in 1..Len(queue) : queue[i] \in Tasks
  BY PoolSplit
<1>1. \A u \in Tasks : future'[u] = IF u = t THEN f ELSE future[u]
  BY DEF TasksOK
<1>2. f # "pending" /\ f \notin Running /\ future[t] # "pending"
  BY DEF Running, Resolved
<1>3. \A i \in 1..Len(queue) : queue[i] \in Tasks
  BY <1>a
<1>4. QueueOK'
  BY <1>1, <1>2, <1>3, <1>a DEF QueueOK, QueuedOnce, Pool!Release
<1>5. working' = {u \in Tasks' : future'[u] \in Running}
  BY <1>1, <1>2, <1>a DEF WorkersOK, Pool!Release
<1>6. Cardinality(working') <= MaxWorkers
  <2>1. working \subseteq Tasks
    BY DEF PoolOK
  <2>2. Cardinality(working') <= Cardinality(working) /\ Cardinality(working') \in Nat
    BY <2>1, WorkersFinite, FS_Subset, FS_CardinalityType DEF Pool!Release
  <2>3. QED BY <2>1, <2>2, WorkersFinite, ConstantsAssumption DEF PoolOK
<1>7. QED BY <1>4, <1>5, <1>6, PoolJoin DEF WorkersOK, PoolOK, Pool!Release

(* A sequence without its i-th element. *)
Without(q, i) == SubSeq(q, 1, i - 1) \o SubSeq(q, i + 1, Len(q))

(* It is shorter by one, the rest moves up. *)
LEMMA WithoutProperties ==
  ASSUME NEW T, NEW q \in Seq(T), NEW i \in 1..Len(q)
  PROVE  /\ Without(q, i) \in Seq(T) /\ Len(Without(q, i)) = Len(q) - 1
         /\ \A j \in 1..(Len(q) - 1) :
              Without(q, i)[j] = IF j < i THEN q[j] ELSE q[j + 1]
<1> DEFINE front == SubSeq(q, 1, i - 1)
           back == SubSeq(q, i + 1, Len(q))
<1>1. Len(q) \in Nat /\ \A k \in 1..Len(q) : q[k] \in T
  BY LenProperties, ElementOfSeq
<1>2. /\ front \in Seq(T) /\ Len(front) = i - 1
      /\ \A j \in 1..(i - 1) : front[j] = q[j]
  BY <1>1, SubSeqProperties
<1>3. /\ back \in Seq(T)
      /\ Len(back) = IF i + 1 <= Len(q) THEN Len(q) - (i + 1) + 1 ELSE 0
      /\ \A j \in 1..(Len(q) - (i + 1) + 1) : back[j] = q[(i + 1) + j - 1]
  <2>1. i + 1 \in Int /\ Len(q) \in Int /\ \A k \in (i + 1)..Len(q) : q[k] \in T
    BY <1>1
  <2>2. QED BY <2>1, SubSeqProperties
<1>4. /\ Without(q, i) \in Seq(T) /\ Len(Without(q, i)) = Len(front) + Len(back)
      /\ \A j \in 1..(Len(front) + Len(back)) :
           Without(q, i)[j] = IF j <= Len(front) THEN front[j] ELSE back[j - Len(front)]
  BY <1>2, <1>3, ConcatProperties DEF Without
<1> HIDE DEF front, back
<1>5. Len(back) = Len(q) - i
  BY <1>1, <1>3
<1>6. Len(front) + Len(back) = Len(q) - 1
  BY <1>1, <1>2, <1>5
<1>7. ASSUME NEW j \in 1..(Len(q) - 1), j < i PROVE Without(q, i)[j] = q[j]
  BY <1>1, <1>2, <1>4, <1>6, <1>7
<1>8. ASSUME NEW j \in 1..(Len(q) - 1), j >= i PROVE Without(q, i)[j] = q[j + 1]
  <2>1. /\ j - (i - 1) \in 1..(Len(q) - (i + 1) + 1)
        /\ (i + 1) + (j - (i - 1)) - 1 = j + 1 /\ ~(j <= i - 1)
    BY <1>1, <1>8
  <2>2. back[j - (i - 1)] = q[j + 1]
    BY <1>3, <2>1
  <2>3. QED BY <1>1, <1>2, <1>4, <1>6, <1>8, <2>1, <2>2
<1>9. QED BY <1>1, <1>4, <1>6, <1>7, <1>8

(* A pending task is withdrawn. *)
LEMMA PoolWithdraws ==
  ASSUME PoolOK, TasksOK, NEW t \in Tasks, Pool!Withdraw(t), Tasks' = Tasks,
         future[t] = "pending", future' = [future EXCEPT ![t] = "cancelled"]
  PROVE  PoolOK'
<1>a. /\ QueueOK /\ WorkersOK /\ Len(queue) \in Nat /\ DOMAIN queue = 1..Len(queue)
      /\ \A i \in 1..Len(queue) : queue[i] \in Tasks
  BY PoolSplit
<1>1. /\ queue \in Seq(Tasks) /\ Len(queue) \in Nat /\ DOMAIN queue = 1..Len(queue)
      /\ \A i \in 1..Len(queue) : queue[i] \in Tasks
  BY <1>a, LenProperties, ElementOfSeq DEF QueueOK
<1>2. PICK i \in 1..Len(queue) :
        queue[i] = t /\ queue' = Without(queue, i)
  BY <1>1 DEF Pool!Withdraw, Without
<1>5. /\ queue' \in Seq(Tasks) /\ Len(queue') = Len(queue) - 1
      /\ \A j \in 1..(Len(queue) - 1) : queue'[j] = IF j < i THEN queue[j] ELSE queue[j + 1]
  BY <1>1, <1>2, WithoutProperties
<1>6. DOMAIN queue' = 1..Len(queue')
  BY <1>5, LenProperties
<1>7. QueuedOnce'
  BY <1>1, <1>5, <1>6, <1>a DEF QueueOK, QueuedOnce
<1>8. \A u \in Tasks : future'[u] = IF u = t THEN "cancelled" ELSE future[u]
  BY DEF TasksOK
<1>9. ASSUME NEW j \in 1..Len(queue') PROVE queue'[j] \in Tasks /\ queue'[j] # t
  <2>1. PICK k \in 1..Len(queue) : k # i /\ queue'[j] = queue[k]
    <3>1. CASE j < i
      BY <1>1, <1>5, <3>1
    <3>2. CASE j >= i
      <4>1. j + 1 \in 1..Len(queue) /\ j + 1 # i /\ queue'[j] = queue[j + 1]
        BY <1>1, <1>5, <3>2
      <4>2. QED BY <4>1
    <3>3. QED BY <1>1, <1>5, <3>1, <3>2
  <2>2. QED BY <1>1, <1>2, <2>1, <1>a DEF QueueOK, QueuedOnce
<1>10. \A j \in 1..Len(queue') : future'[queue'[j]] = "pending"
  BY <1>1, <1>5, <1>8, <1>9, <1>a DEF QueueOK
<1>11. \A u \in Tasks' : future'[u] = "pending" => \E j \in 1..Len(queue') : queue'[j] = u
  <2>1. SUFFICES ASSUME NEW u \in Tasks, future'[u] = "pending"
                 PROVE  \E j \in 1..Len(queue') : queue'[j] = u
    OBVIOUS
  <2>2. u # t /\ future[u] = "pending"
    BY <2>1, <1>8
  <2>3. PICK k \in 1..Len(queue) : queue[k] = u
    BY <2>2, <1>a DEF QueueOK
  <2>4. CASE k < i
    BY <1>1, <1>5, <2>3, <2>4
  <2>5. CASE k > i
    <3>1. k - 1 \in 1..Len(queue') /\ queue'[k - 1] = u
      BY <1>1, <1>5, <2>3, <2>5
    <3>2. QED BY <3>1
  <2>6. k # i
    BY <1>2, <2>2, <2>3
  <2>7. QED BY <1>1, <2>4, <2>5, <2>6
<1>12. WorkersOK'
  BY <1>8, <1>a DEF WorkersOK, Pool!Withdraw, Running
<1>13. QED
  BY <1>5, <1>7, <1>10, <1>11, <1>12, PoolJoin DEF QueueOK, PoolOK, Pool!Withdraw
--------------------------------------------------------------------------------
(* A step keeps the invariant if it keeps its parts. *)
Moves ==
  /\ ServiceKept /\ StopsOK' /\ UserOK' /\ TasksKept /\ PoolOK'
  /\ CallHoldsQuery' /\ Accounted'

(* The parts make the invariant. *)
LEMMA MovesInv ==
  ASSUME Moves PROVE IInv'
<1>1. TypeOK' /\ QueuedOnce'
  BY DEF Moves, ServiceKept, TasksKept, TypeOK, ServiceOK, StopsOK, UserOK, TasksOK, PoolOK,
         FutureStates, Answers, TaskRecord
<1>2. FutureShowsFinalState' /\ \A t \in Tasks' : TaskInOrder(t)'
  BY DEF Moves, TasksKept, Good, Shows, FutureShowsFinalState
<1>3. QED BY <1>1, <1>2 DEF Moves, IInv

(* What a step that leaves the tasks alone keeps. *)
LEMMA OnlyUserMoves ==
  ASSUME IInv, ServiceKept, UNCHANGED <<stopreq, queue, working, task, future, answer>>,
         closed' \in BOOLEAN
  PROVE  StopsOK' /\ TasksKept /\ PoolOK' /\ Tasks' = Tasks
<1>1. Tasks' = Tasks
  BY DEF Tasks
<1>2. TasksKept
  BY InvSplit, TasksStay DEF taskVars
<1>3. PoolOK'
  BY <1>1, InvSplit, PoolStays
<1>4. StopsOK'
  BY <1>1, InvSplit DEF StopsOK
<1>5. QED BY <1>1, <1>2, <1>3, <1>4

(* A query stays accounted for if the call that holds it keeps it, or says   *)
(* that it raised, or has submitted the polling.                             *)
LEMMA StaysAccounted ==
  ASSUME Accounted, UNCHANGED qreq, TasksKept, raised \subseteq raised',
         upc = "submit" =>
           \/ upc' = "submit" /\ query_id' = query_id /\ execs' = execs
           \/ execs \in raised'
           \/ \E t \in Tasks' : task'[t] = [kind |-> "collect", query |-> query_id]
  PROVE  Accounted'
<1>1. ASSUME NEW q \in QueryIds, qreq[q] # NULL
      PROVE  \/ qreq[q].exec \in raised'
             \/ upc' = "submit" /\ query_id' = q /\ qreq[q].exec = execs'
             \/ \E t \in Tasks' : task'[t] = [kind |-> "collect", query |-> q]
  <2>1. CASE qreq[q].exec \in raised
    BY <2>1
  <2>2. CASE upc = "submit" /\ query_id = q /\ qreq[q].exec = execs
    BY <2>2
  <2>3. CASE \E t \in Tasks : task[t] = [kind |-> "collect", query |-> q]
    BY <2>3 DEF TasksKept
  <2>4. QED BY <1>1, <2>1, <2>2, <2>3 DEF Accounted
<1>2. QED BY <1>1 DEF Accounted

(* A query that was created just now is held by the call, or the call raises. *)
LEMMA NewIsAccounted ==
  ASSUME Accounted, ServiceOK, NEW q \in QueryIds, upc = "start", TasksKept,
         Service!CreateQuery(q, [exec |-> execs, stmt |-> stmt]),
         \/ upc' = "submit" /\ query_id' = q /\ execs' = execs /\ raised' = raised
         \/ raised' = raised \cup {execs}
  PROVE  Accounted'
<1>1. qreq'[q] = [exec |-> execs, stmt |-> stmt] /\ \A p \in QueryIds \ {q} : qreq'[p] = qreq[p]
  BY DEF ServiceOK, Service!CreateQuery
<1>2. ASSUME NEW p \in QueryIds \ {q}, qreq'[p] # NULL
      PROVE  \/ qreq'[p].exec \in raised'
             \/ \E t \in Tasks' : task'[t] = [kind |-> "collect", query |-> p]
  <2>1. \/ qreq[p].exec \in raised
        \/ \E t \in Tasks : task[t] = [kind |-> "collect", query |-> p]
    BY <1>1, <1>2 DEF Accounted
  <2>2. QED BY <1>1, <2>1 DEF TasksKept
<1>3. \/ qreq'[q].exec \in raised'
      \/ upc' = "submit" /\ query_id' = q /\ qreq'[q].exec = execs'
  BY <1>1
<1>4. QED BY <1>2, <1>3 DEF Accounted
--------------------------------------------------------------------------------
(* The actions of the user's thread. *)

(* execute() begins. *)
LEMMA ExecuteMoves ==
  ASSUME IInv, NEW s \in Statements, Execute(s)
  PROVE  Moves
<1>1. ServiceKept
  BY InvSplit, ServiceStays DEF Execute, serviceVars
<1>2. StopsOK' /\ TasksKept /\ PoolOK' /\ Tasks' = Tasks
  BY <1>1, InvSplit, OnlyUserMoves DEF Execute, serviceVars, poolVars, taskVars, PoolOK
<1>3. UserOK' /\ CallHoldsQuery'
  BY InvSplit, ConstantsAssumption
  DEF Execute, UserOK, CallHoldsQuery, serviceVars, userVars
<1>4. Accounted'
  BY <1>2, InvSplit, StaysAccounted DEF Execute, serviceVars
<1>5. QED BY <1>1, <1>2, <1>3, <1>4 DEF Moves

(* The cache has the query. *)
LEMMA LookupHitMoves ==
  ASSUME IInv, NEW q \in QueryIds, LookupHit(q)
  PROVE  Moves
<1>1. ServiceKept
  BY InvSplit, ServiceStays DEF LookupHit, serviceVars
<1>2. StopsOK' /\ TasksKept /\ PoolOK' /\ Tasks' = Tasks
  BY <1>1, InvSplit, OnlyUserMoves DEF LookupHit, serviceVars, poolVars, taskVars, PoolOK
<1>3. UserOK' /\ CallHoldsQuery'
  BY InvSplit, ConstantsAssumption
  DEF LookupHit, UserOK, CallHoldsQuery, serviceVars, userVars, Service!Live, Service!Terminal
<1>4. Accounted'
  BY <1>2, InvSplit, StaysAccounted DEF LookupHit, serviceVars
<1>5. QED BY <1>1, <1>2, <1>3, <1>4 DEF Moves

(* It has not. *)
LEMMA LookupMissMoves ==
  ASSUME IInv, LookupMiss
  PROVE  Moves
<1>1. ServiceKept
  BY InvSplit, ServiceStays DEF LookupMiss, serviceVars
<1>2. StopsOK' /\ TasksKept /\ PoolOK' /\ Tasks' = Tasks
  BY <1>1, InvSplit, OnlyUserMoves DEF LookupMiss, serviceVars, poolVars, taskVars, PoolOK
<1>3. UserOK' /\ CallHoldsQuery'
  BY InvSplit, ConstantsAssumption
  DEF LookupMiss, UserOK, CallHoldsQuery, serviceVars, userVars
<1>4. Accounted'
  BY <1>2, InvSplit, StaysAccounted DEF LookupMiss, serviceVars
<1>5. QED BY <1>1, <1>2, <1>3, <1>4 DEF Moves

(* execute() raises; a query it holds is lost, but the call has raised. *)
LEMMA ExecuteRaisesMoves ==
  ASSUME IInv, ExecuteRaises
  PROVE  Moves
<1>1. ServiceKept
  BY InvSplit, ServiceStays DEF ExecuteRaises, RaiseInUser, serviceVars
<1>2. StopsOK' /\ TasksKept /\ PoolOK' /\ Tasks' = Tasks
  BY <1>1, InvSplit, OnlyUserMoves DEF ExecuteRaises, RaiseInUser, serviceVars, poolVars, taskVars, PoolOK
<1>3. UserOK' /\ CallHoldsQuery'
  BY InvSplit, ConstantsAssumption
  DEF ExecuteRaises, RaiseInUser, UserOK, CallHoldsQuery, serviceVars, userVars
<1>4. Accounted'
  BY <1>2, InvSplit, StaysAccounted DEF ExecuteRaises, RaiseInUser, serviceVars
<1>5. QED BY <1>1, <1>2, <1>3, <1>4 DEF Moves

(* The pool is closed; nothing is taken out of it. *)
LEMMA CloseMoves ==
  ASSUME IInv, NEW wait \in BOOLEAN, Close(wait)
  PROVE  Moves
<1>1. ServiceKept
  BY InvSplit, ServiceStays DEF Close, serviceVars
<1>2. StopsOK' /\ TasksKept /\ PoolOK' /\ Tasks' = Tasks
  BY <1>1, InvSplit, OnlyUserMoves DEF Close, serviceVars, poolVars, taskVars, PoolOK, Pool!Shutdown
<1>3. UserOK' /\ CallHoldsQuery'
  BY InvSplit, ConstantsAssumption
  DEF Close, UserOK, CallHoldsQuery, serviceVars, userVars
<1>4. Accounted'
  BY <1>2, InvSplit, StaysAccounted DEF Close, serviceVars
<1>5. QED BY <1>1, <1>2, <1>3, <1>4 DEF Moves

(* close() returns. *)
LEMMA CloseReturnsMoves ==
  ASSUME IInv, CloseReturns
  PROVE  Moves
<1>1. ServiceKept
  BY InvSplit, ServiceStays DEF CloseReturns, serviceVars
<1>2. StopsOK' /\ TasksKept /\ PoolOK' /\ Tasks' = Tasks
  BY <1>1, InvSplit, OnlyUserMoves DEF CloseReturns, serviceVars, poolVars, taskVars, PoolOK
<1>3. UserOK' /\ CallHoldsQuery'
  BY InvSplit, ConstantsAssumption
  DEF CloseReturns, UserOK, CallHoldsQuery, serviceVars, userVars
<1>4. Accounted'
  BY <1>2, InvSplit, StaysAccounted DEF CloseReturns, serviceVars
<1>5. QED BY <1>1, <1>2, <1>3, <1>4 DEF Moves

(* The query is new, and the call holds it. *)
LEMMA StartAnsweredMoves ==
  ASSUME IInv, NEW q \in QueryIds, StartAnswered(q)
  PROVE  Moves
<1>1. [exec |-> execs, stmt |-> stmt] \in Request
  BY InvSplit DEF UserOK, Request
<1>2. ServiceKept
  BY <1>1, InvSplit, CreateQueryKept DEF StartAnswered
<1>3. StopsOK' /\ TasksKept /\ PoolOK' /\ Tasks' = Tasks
  BY <1>2, InvSplit, OnlyUserMoves
  DEF StartAnswered, poolVars, taskVars, PoolOK, Service!CreateQuery
<1>4. UserOK' /\ CallHoldsQuery'
  BY InvSplit, ConstantsAssumption
  DEF StartAnswered, UserOK, CallHoldsQuery, ServiceOK, Service!CreateQuery
<1>5. Accounted'
  BY <1>3, InvSplit, NewIsAccounted DEF StartAnswered
<1>6. QED BY <1>2, <1>3, <1>4, <1>5 DEF Moves

(* Or the call raises. *)
LEMMA StartAnswerLostMoves ==
  ASSUME IInv, NEW q \in QueryIds, StartAnswerLost(q)
  PROVE  Moves
<1>1. [exec |-> execs, stmt |-> stmt] \in Request
  BY InvSplit DEF UserOK, Request
<1>2. ServiceKept
  BY <1>1, InvSplit, CreateQueryKept DEF StartAnswerLost, RaiseInUser
<1>3. StopsOK' /\ TasksKept /\ PoolOK' /\ Tasks' = Tasks
  BY <1>2, InvSplit, OnlyUserMoves
  DEF StartAnswerLost, RaiseInUser, poolVars, taskVars, PoolOK, Service!CreateQuery
<1>4. UserOK' /\ CallHoldsQuery'
  BY InvSplit, ConstantsAssumption
  DEF StartAnswerLost, RaiseInUser, UserOK, CallHoldsQuery, ServiceOK, Service!CreateQuery
<1>5. Accounted'
  BY <1>3, InvSplit, NewIsAccounted DEF StartAnswerLost, RaiseInUser
<1>6. QED BY <1>2, <1>3, <1>4, <1>5 DEF Moves

(* A task is submitted: collectors by execute(), the others by the user. *)
LEMMA SubmitTaskMoves ==
  ASSUME IInv, NEW kind \in Kinds, NEW q \in QueryIds, qstate[q] # "none",
         SubmitTask(kind, q), UNCHANGED serviceVars
  PROVE  /\ ServiceKept /\ StopsOK' /\ TasksKept /\ PoolOK'
         /\ \E t \in Tasks' : task'[t] = [kind |-> kind, query |-> q]
<1>1. ServiceKept
  BY InvSplit, ServiceStays DEF serviceVars
<1>2. /\ TasksKept /\ Tasks' = Tasks \cup {Len(task) + 1}
      /\ task'[Len(task) + 1] = [kind |-> kind, query |-> q]
      /\ future'[Len(task) + 1] = "pending"
      /\ \A t \in Tasks : future'[t] = future[t]
  BY <1>1, InvSplit, TasksGrow
<1>3. PoolOK'
  BY <1>2, InvSplit, PoolSubmits DEF SubmitTask, TasksKept
<1>4. StopsOK'
  BY <1>2, InvSplit DEF StopsOK, serviceVars
<1>5. QED BY <1>1, <1>2, <1>3, <1>4

(* execute() hands its query to the pool, or raises. *)
LEMMA SubmitCollectorMoves ==
  ASSUME IInv, SubmitCollector
  PROVE  Moves
<1>0. /\ upc = "submit" /\ query_id \in QueryIds /\ qstate[query_id] # "none"
      /\ execs \in 1..MaxExecs /\ "collect" \in Kinds
  BY InvSplit, ConstantsAssumption DEF SubmitCollector, CallHoldsQuery, UserOK, Kinds
<1>1. CASE SubmitTask("collect", query_id) /\ upc' = "idle" /\ query_id' = NULL
           /\ UNCHANGED <<stmt, execs, raised>>
  <2>1. /\ ServiceKept /\ StopsOK' /\ TasksKept /\ PoolOK'
        /\ \E t \in Tasks' : task'[t] = [kind |-> "collect", query |-> query_id]
    BY <1>0, <1>1, SubmitTaskMoves DEF SubmitCollector
  <2>2. UserOK' /\ CallHoldsQuery'
    BY <1>1, InvSplit DEF UserOK, CallHoldsQuery
  <2>3. Accounted'
    BY <1>1, <2>1, InvSplit, StaysAccounted DEF SubmitCollector, serviceVars
  <2>4. QED BY <2>1, <2>2, <2>3 DEF Moves
<1>2. CASE RaiseInUser /\ UNCHANGED <<taskVars, poolVars>>
  <2>1. ServiceKept
    BY InvSplit, ServiceStays DEF SubmitCollector, serviceVars
  <2>2. StopsOK' /\ TasksKept /\ PoolOK'
    BY <1>2, <2>1, InvSplit, OnlyUserMoves
    DEF SubmitCollector, serviceVars, poolVars, taskVars, PoolOK
  <2>3. UserOK' /\ CallHoldsQuery'
    BY <1>0, <1>2, InvSplit DEF RaiseInUser, UserOK, CallHoldsQuery
  <2>4. Accounted'
    BY <1>2, <2>2, InvSplit, StaysAccounted DEF RaiseInUser, SubmitCollector, serviceVars
  <2>5. QED BY <2>1, <2>2, <2>3, <2>4 DEF Moves
<1>3. QED BY <1>1, <1>2 DEF SubmitCollector

(* The other calls are for a query execute() has returned. *)
LEMMA SubmitMoves ==
  ASSUME IInv, NEW kind \in Kinds, NEW q \in QueryIds, Submit(kind, q)
  PROVE  Moves
<1>1. PICK t \in Tasks : task[t] = [kind |-> "collect", query |-> q]
  BY DEF Submit
<1>2. qstate[q] # "none"
  BY <1>1, InvSplit DEF Good, TaskInOrder
<1>3. ServiceKept /\ StopsOK' /\ TasksKept /\ PoolOK'
  BY <1>2, SubmitTaskMoves DEF Submit
<1>4. UserOK' /\ CallHoldsQuery'
  BY InvSplit DEF Submit, UserOK, CallHoldsQuery, userVars, serviceVars
<1>5. Accounted'
  BY <1>3, InvSplit, StaysAccounted DEF Submit, userVars, serviceVars
<1>6. QED BY <1>3, <1>4, <1>5 DEF Moves
--------------------------------------------------------------------------------
(* The steps of task t.                                                      *)

(* What every one of them leaves to the user's thread. *)
LEMMA OnlyTaskMoves ==
  ASSUME IInv, TasksKept, Tasks' = Tasks, UNCHANGED userVars, UNCHANGED <<qstate, qreq>>
  PROVE  ServiceKept /\ UserOK' /\ CallHoldsQuery' /\ Accounted'
<1>1. ServiceKept
  BY InvSplit, ServiceStays
<1>2. UserOK' /\ CallHoldsQuery'
  BY InvSplit DEF UserOK, CallHoldsQuery, userVars
<1>3. Accounted'
  BY InvSplit, StaysAccounted DEF userVars
<1>4. QED BY <1>1, <1>2, <1>3

(* A pending future is cancelled. *)
LEMMA CancelFutureMoves ==
  ASSUME IInv, NEW t \in Tasks, CancelFuture(t)
  PROVE  Moves
<1>1. ServiceKept
  BY InvSplit, ServiceStays DEF CancelFuture, serviceVars
<1>2. /\ answer' = [answer EXCEPT ![t] = answer[t]] /\ answer[t] \in Answers
      /\ "cancelled" \in FutureStates
  BY InvSplit DEF CancelFuture, TasksOK, FutureStates, Resolved
<1>3. future'[t] = "cancelled" /\ task'[t] = task[t] /\ qstate' = qstate
  BY InvSplit DEF CancelFuture, TasksOK, serviceVars
<1>4. Good(t)'
  BY <1>3, InvSplit DEF Good, Shows, TaskInOrder
<1>5. TasksKept /\ Tasks' = Tasks
  BY <1>1, <1>2, <1>4, InvSplit, TaskTurns DEF CancelFuture
<1>6. PoolOK'
  BY <1>5, InvSplit, PoolWithdraws DEF CancelFuture
<1>7. StopsOK'
  BY <1>5, InvSplit DEF StopsOK, CancelFuture, serviceVars
<1>8. ServiceKept /\ UserOK' /\ CallHoldsQuery' /\ Accounted'
  BY <1>5, OnlyTaskMoves DEF CancelFuture, serviceVars
<1>9. QED BY <1>5, <1>6, <1>7, <1>8 DEF Moves

(* A worker takes it: it begins at the step of its kind. *)
LEMMA TakeTaskMoves ==
  ASSUME IInv, NEW t \in Tasks, TakeTask(t)
  PROVE  Moves
<1>1. ServiceKept
  BY InvSplit, ServiceStays DEF TakeTask, serviceVars
<1>2. answer' = [answer EXCEPT ![t] = answer[t]] /\ answer[t] \in Answers
  BY InvSplit DEF TakeTask, TasksOK
<1>3. task[t].kind \in Kinds
  BY InvSplit, TaskType
<1>4. PICK f \in Running :
        /\ f = FirstStep(task[t].kind)
        /\ f = "polling" => task[t].kind \in {"collect", "poll", "description"}
        /\ f = "getting" => task[t].kind = "query_execution"
        /\ f = "stopping" => task[t].kind = "cancel"
        /\ f # "building"
  BY <1>3 DEF FirstStep, Kinds, Running
<1>5. future'[t] = f /\ task'[t] = task[t] /\ qstate' = qstate
  BY <1>4, InvSplit DEF TakeTask, TasksOK, serviceVars
<1>6. Good(t)'
  BY <1>4, <1>5, InvSplit DEF Good, Shows, TaskInOrder, Running
<1>7. TasksKept /\ Tasks' = Tasks
  BY <1>1, <1>2, <1>4, <1>6, InvSplit, TaskTurns DEF TakeTask, FutureStates
<1>8. PoolOK'
  BY <1>4, <1>7, InvSplit, PoolTakes DEF TakeTask
<1>9. StopsOK'
  BY <1>7, InvSplit DEF StopsOK, TakeTask, serviceVars
<1>10. ServiceKept /\ UserOK' /\ CallHoldsQuery' /\ Accounted'
  BY <1>7, OnlyTaskMoves DEF TakeTask, serviceVars
<1>11. QED BY <1>7, <1>8, <1>9, <1>10 DEF Moves

(* It ends; if it polled, with the final state. *)
LEMMA ResolveMoves ==
  ASSUME IInv, NEW t \in Tasks, NEW f \in {"done", "raised"}, NEW a \in Answers,
         Resolve(t, f, a), future[t] \in Running,
         f = "done" /\ task[t].kind \in {"collect", "poll", "description"} =>
           a \in Service!Terminal /\ a = qstate[task[t].query],
         UNCHANGED <<task, qstate, qreq>>, UNCHANGED userVars,
         stopreq' \in [QueryIds -> SUBSET Tasks]
  PROVE  Moves
<1>1. ServiceKept
  BY InvSplit, ServiceStays
<1>2. future'[t] = f /\ answer'[t] = a /\ f \in Resolved /\ f \in FutureStates
  BY InvSplit DEF Resolve, TasksOK, Resolved, FutureStates
<1>3. Good(t)'
  BY <1>2, InvSplit DEF Good, Shows, TaskInOrder
<1>4. TasksKept /\ Tasks' = Tasks
  BY <1>1, <1>2, <1>3, InvSplit, TaskTurns DEF Resolve
<1>5. PoolOK'
  BY <1>2, <1>4, InvSplit, PoolReleases DEF Resolve
<1>6. StopsOK'
  BY <1>4 DEF StopsOK
<1>7. UserOK' /\ CallHoldsQuery' /\ Accounted'
  BY <1>4, OnlyTaskMoves
<1>8. QED BY <1>1, <1>4, <1>5, <1>6, <1>7 DEF Moves

(* The query is over: poll() is done, the others go on to build. *)
LEMMA PollIterationMoves ==
  ASSUME IInv, NEW t \in Tasks, PollIteration(t)
  PROVE  Moves
<1> DEFINE a == qstate[task[t].query]
<1>1. /\ a \in Service!Terminal /\ a \in Answers
      /\ future[t] = "polling" /\ future[t] \in Running
      /\ task' = task /\ UNCHANGED <<userVars, qstate, qreq, stopreq>>
  BY DEF PollIteration, Finished, Service!Terminal, Answers, Running, serviceVars
<1>2. CASE task[t].kind = "poll"
  BY <1>1, <1>2, InvSplit, ResolveMoves DEF PollIteration, StopsOK
<1>3. CASE task[t].kind # "poll"
  <2>1. /\ future' = [future EXCEPT ![t] = "building"]
        /\ answer' = [answer EXCEPT ![t] = a] /\ UNCHANGED poolVars
    BY <1>3 DEF PollIteration
  <2>2. /\ future'[t] = "building" /\ answer'[t] = a
        /\ \A u \in Tasks : u # t => future'[u] = future[u]
    BY <2>1, InvSplit DEF TasksOK
  <2>3. Good(t)'
    BY <1>1, <2>2, InvSplit DEF Good, Shows, TaskInOrder
  <2>4. ServiceKept /\ "building" \in FutureStates
    BY <1>1, InvSplit, ServiceStays DEF FutureStates, Running
  <2>5. TasksKept /\ Tasks' = Tasks
    BY <1>1, <2>1, <2>3, <2>4, InvSplit, TaskTurns
  <2>6. PoolOK'
    <3>1. \A u \in Tasks : /\ future'[u] = "pending" <=> future[u] = "pending"
                           /\ future'[u] \in Running <=> future[u] \in Running
      BY <1>1, <2>2 DEF Running
    <3>2. UNCHANGED <<queue, working>> /\ closed' \in BOOLEAN
      BY <2>1, InvSplit DEF poolVars, PoolOK
    <3>3. QED BY <2>5, <3>1, <3>2, InvSplit, PoolStays
  <2>7. StopsOK'
    BY <1>1, <2>5, InvSplit DEF StopsOK
  <2>8. UserOK' /\ CallHoldsQuery' /\ Accounted'
    BY <1>1, <2>5, OnlyTaskMoves
  <2>9. QED BY <2>4, <2>5, <2>6, <2>7, <2>8 DEF Moves
<1>4. QED BY <1>2, <1>3

(* The result set is built from the state the poll has seen. *)
LEMMA BuildResultSetMoves ==
  ASSUME IInv, NEW t \in Tasks, BuildResultSet(t)
  PROVE  Moves
<1>1. answer[t] \in Answers /\ answer[t] \in Service!Terminal /\ answer[t] = qstate[task[t].query]
  BY InvSplit DEF BuildResultSet, TasksOK, Good, TaskInOrder
<1>2. QED
  BY <1>1, InvSplit, ResolveMoves DEF BuildResultSet, Running, serviceVars, StopsOK

(* query_execution() says what Athena says. *)
LEMMA GetQueryExecutionMoves ==
  ASSUME IInv, NEW t \in Tasks, GetQueryExecution(t)
  PROVE  Moves
<1>1. task[t].kind = "query_execution" /\ qstate[task[t].query] # "none"
  BY InvSplit DEF GetQueryExecution, Good, TaskInOrder
<1>2. qstate[task[t].query] \in Answers
  BY <1>1, InvSplit, TaskType DEF ServiceOK, Answers
<1>3. QED
  BY <1>1, <1>2, InvSplit, ResolveMoves DEF GetQueryExecution, Running, serviceVars, StopsOK

(* cancel() leaves its request with Athena. *)
LEMMA StopQueryMoves ==
  ASSUME IInv, NEW t \in Tasks, StopQuery(t)
  PROVE  Moves
<1>1. task[t].kind = "cancel" /\ NULL \in Answers
  BY InvSplit DEF StopQuery, Good, TaskInOrder, Answers
<1>2. stopreq' \in [QueryIds -> SUBSET Tasks] /\ UNCHANGED <<qstate, qreq>>
  BY InvSplit DEF StopQuery, StopsOK, Service!AcceptStop
<1>3. QED BY <1>1, <1>2, ResolveMoves DEF StopQuery, Running

(* The task raises. *)
LEMMA TaskRaisesMoves ==
  ASSUME IInv, NEW t \in Tasks, TaskRaises(t)
  PROVE  Moves
  BY InvSplit, ResolveMoves DEF TaskRaises, Answers, serviceVars, StopsOK

(* A step of the service alone. *)
LEMMA ServiceStepMoves ==
  ASSUME IInv, ServiceStep
  PROVE  Moves
<1>1. ServiceKept /\ UNCHANGED <<qreq, stopreq>>
  BY InvSplit, ServiceNextKept DEF ServiceStep
<1>2. StopsOK' /\ TasksKept /\ PoolOK'
  BY <1>1, InvSplit, OnlyUserMoves DEF ServiceStep, poolVars, taskVars, PoolOK
<1>3. UserOK' /\ CallHoldsQuery'
  BY <1>1, InvSplit DEF ServiceStep, UserOK, CallHoldsQuery, ServiceKept, userVars
<1>4. Accounted'
  BY <1>1, <1>2, InvSplit, StaysAccounted DEF ServiceStep, userVars
<1>5. QED BY <1>1, <1>2, <1>3, <1>4 DEF Moves
--------------------------------------------------------------------------------
(* In the beginning there is no query and no task. *)
LEMMA InitInv == Init => IInv
<1> SUFFICES ASSUME Init PROVE IInv
  OBVIOUS
<1>1. Tasks = {} /\ Len(task) = 0 /\ Len(queue) = 0 /\ queue = <<>>
  BY EmptySeq DEF Init, Tasks, Pool!PoolInit
<1>2. ServiceOK /\ StopsOK
  BY <1>1 DEF Init, ServiceOK, StopsOK, Service!ServiceInit
<1>3. UserOK /\ CallHoldsQuery /\ Accounted
  BY <1>1, ConstantsAssumption DEF Init, UserOK, CallHoldsQuery, Accounted, Service!ServiceInit
<1>4. TasksOK
  <2>1. task \in Seq(TaskRecord)
    BY EmptySeq DEF Init
  <2>2. future \in [Tasks -> FutureStates] /\ answer \in [Tasks -> Answers]
    BY <1>1 DEF Init, Tasks
  <2>3. QED BY <1>1, <2>1, <2>2, ConstantsAssumption DEF TasksOK
<1>5. PoolOK
  <2>1. queue \in Seq(Tasks)
    BY <1>1, EmptySeq
  <2>2. working = {} /\ closed \in BOOLEAN /\ Cardinality(working) = 0
    BY FS_EmptySet DEF Init, Pool!PoolInit
  <2>3. DOMAIN queue = {}
    BY <1>1
  <2>4. QED BY <1>1, <2>1, <2>2, <2>3, ConstantsAssumption DEF PoolOK, QueuedOnce
<1>6. QED BY <1>1, <1>2, <1>3, <1>4, <1>5, InvSplit

(* Every step keeps the invariant. *)
LEMMA NextInv == IInv /\ [Next]_vars => IInv'
<1> SUFFICES ASSUME IInv, [Next]_vars PROVE Moves
  BY MovesInv
<1>1. ASSUME NEW s \in Statements, Execute(s) PROVE Moves
  BY <1>1, ExecuteMoves
<1>2. ASSUME NEW q \in QueryIds, LookupHit(q) \/ StartAnswered(q) \/ StartAnswerLost(q)
      PROVE  Moves
  BY <1>2, LookupHitMoves, StartAnsweredMoves, StartAnswerLostMoves
<1>3. CASE LookupMiss \/ ExecuteRaises \/ SubmitCollector \/ CloseReturns
  BY <1>3, LookupMissMoves, ExecuteRaisesMoves, SubmitCollectorMoves, CloseReturnsMoves
<1>4. ASSUME NEW kind \in Kinds, NEW q \in QueryIds, Submit(kind, q) PROVE Moves
  BY <1>4, SubmitMoves
<1>5. ASSUME NEW wait \in BOOLEAN, Close(wait) PROVE Moves
  BY <1>5, CloseMoves
<1>6. ASSUME NEW t \in Tasks, CancelFuture(t) \/ WorkerStep(t) \/ TaskRaises(t) PROVE Moves
  BY <1>6, CancelFutureMoves, TaskRaisesMoves, TakeTaskMoves, PollIterationMoves,
     BuildResultSetMoves, GetQueryExecutionMoves, StopQueryMoves DEF WorkerStep
<1>7. CASE ServiceStep
  BY <1>7, ServiceStepMoves
<1>8. CASE UNCHANGED vars
  <2>1. ServiceKept
    BY <1>8, InvSplit, ServiceStays DEF vars, serviceVars
  <2>2. StopsOK' /\ TasksKept /\ PoolOK'
    BY <1>8, <2>1, InvSplit, OnlyUserMoves DEF vars, serviceVars, poolVars, taskVars, PoolOK
  <2>3. UserOK' /\ CallHoldsQuery'
    BY <1>8, InvSplit DEF vars, userVars, serviceVars, UserOK, CallHoldsQuery
  <2>4. Accounted'
    BY <1>8, <2>2, InvSplit, StaysAccounted DEF vars, userVars, serviceVars
  <2>5. QED BY <2>1, <2>2, <2>3, <2>4 DEF Moves
<1>9. QED BY <1>1, <1>2, <1>3, <1>4, <1>5, <1>6, <1>7, <1>8 DEF Next

(* The invariant holds in every reachable state. *)
THEOREM Invariance == Spec => []IInv
  BY InitInv, NextInv, PTL DEF Spec

(* Every variable has its type, and the pool is in order: no more workers    *)
(* than max_workers, exactly the pending tasks queued, exactly the running   *)
(* ones worked on.                                                           *)
THEOREM TypeCorrect == Spec => []TypeOK
<1>1. IInv => TypeOK
  BY DEF IInv
<1>2. QED BY <1>1, Invariance, PTL

(* A future of execute(), description() or poll() that is done was made from *)
(* the final state of its own query, however many tasks share the workers    *)
(* and in whatever order they are cancelled, raise and end.                  *)
THEOREM FuturesShowFinalStates == Spec => []FutureShowsFinalState
<1>1. IInv => FutureShowsFinalState
  BY DEF IInv
<1>2. QED BY <1>1, Invariance, PTL

(* A query that execute() has started is never dropped silently.             *)
THEOREM QueriesAreAccountedFor == Spec => []OrphansAreReported
<1>1. IInv => OrphansAreReported
  BY DEF IInv, Accounted, OrphansAreReported
<1>2. QED BY <1>1, Invariance, PTL
================================================================================
