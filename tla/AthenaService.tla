---------------------------- MODULE AthenaService ----------------------------
(* The query side of Amazon Athena, as far as PyAthena's calls can tell it.  *)
(* It is external: StartQueryExecution, StopQueryExecution and               *)
(* GetQueryExecution are modelled from how src/pyathena uses them and from   *)
(* the states src/pyathena/model.py names.                                   *)

CONSTANTS
  QueryIds,   \* the query execution ids the service can hand out
  Callers,    \* the cursors that call it
  NULL        \* Python's None

VARIABLES
  qstate,     \* state of a query execution, "none" before it is created
  qreq,       \* the start request a query was created for
  stopreq     \* the callers whose stop request was accepted for a live query

serviceVars == <<qstate, qreq, stopreq>>

Live == {"QUEUED", "RUNNING"}
Terminal == {"SUCCEEDED", "FAILED", "CANCELLED"}

ServiceInit ==
  /\ qstate = [q \in QueryIds |-> "none"]
  /\ qreq = [q \in QueryIds |-> NULL]
  /\ stopreq = [q \in QueryIds |-> {}]

(* StartQueryExecution accepted: a fresh id, queued. *)
CreateQuery(q, request) ==
  /\ qstate[q] = "none"
  /\ qstate' = [qstate EXCEPT ![q] = "QUEUED"]
  /\ qreq' = [qreq EXCEPT ![q] = request]
  /\ UNCHANGED stopreq

(* StopQueryExecution accepted: it does something only to a live query. *)
AcceptStop(q, caller) ==
  /\ stopreq' = IF qstate[q] \in Live
                THEN [stopreq EXCEPT ![q] = @ \cup {caller}] ELSE stopreq
  /\ UNCHANGED <<qstate, qreq>>

RunQuery(q) ==
  /\ qstate[q] = "QUEUED"
  /\ qstate' = [qstate EXCEPT ![q] = "RUNNING"]
  /\ UNCHANGED <<qreq, stopreq>>

(* A query may fail while it is queued; it succeeds only after running. *)
CompleteQuery(q) ==
  /\ \/ /\ qstate[q] = "RUNNING"
        /\ \E s \in {"SUCCEEDED", "FAILED"} : qstate' = [qstate EXCEPT ![q] = s]
     \/ /\ qstate[q] = "QUEUED"
        /\ qstate' = [qstate EXCEPT ![q] = "FAILED"]
  /\ UNCHANGED <<qreq, stopreq>>

(* A stop request does not win every race: the query may complete first. *)
CancelQuery(q) ==
  /\ qstate[q] \in Live
  /\ stopreq[q] # {}
  /\ qstate' = [qstate EXCEPT ![q] = "CANCELLED"]
  /\ UNCHANGED <<qreq, stopreq>>

ServiceNext ==
  \E q \in QueryIds : RunQuery(q) \/ CompleteQuery(q) \/ CancelQuery(q)

(* Athena acts on the stop requests it accepted; nothing else is promised:   *)
(* a query nobody stops may run for as long as it likes.                     *)
ServiceFairness == \A q \in QueryIds : WF_serviceVars(CancelQuery(q))
==============================================================================
