------------------------------ MODULE AthenaSpark ------------------------------
(* The Spark side of Amazon Athena: sessions and the calculations that run   *)
(* in them.  External, modelled from the calls of src/pyathena/spark and the *)
(* states src/pyathena/model.py names.                                       *)

CONSTANTS
  SessionIds,  \* session ids the service can hand out
  CalcIds,     \* calculation execution ids it can hand out
  NULL

VARIABLES
  sstate,      \* state of a session, "none" before it is created
  cstate,      \* state of a calculation, "none" before it is created
  csession,    \* the session a calculation runs in
  creq         \* the request a calculation was created for

sparkVars == <<sstate, cstate, csession, creq>>

LiveSession == {"CREATING", "IDLE", "BUSY", "DEGRADED"}
DeadSession == {"TERMINATED", "DEGRADED", "FAILED"}
SessionStates == {"none", "TERMINATING"} \cup LiveSession \cup DeadSession
LiveCalc == {"QUEUED", "RUNNING", "CANCELING"}
FinalCalc == {"COMPLETED", "FAILED", "CANCELED"}

SparkInit ==
  /\ sstate = [s \in SessionIds |-> "none"]
  /\ cstate = [k \in CalcIds |-> "none"]
  /\ csession = [k \in CalcIds |-> NULL]
  /\ creq = [k \in CalcIds |-> NULL]

CreateSession(s) ==
  /\ sstate[s] = "none"
  /\ sstate' = [sstate EXCEPT ![s] = "CREATING"]
  /\ UNCHANGED <<cstate, csession, creq>>

(* TerminateSession accepted: a session that is over stays what it is. *)
RequestTermination(s) ==
  /\ sstate' = [sstate EXCEPT ![s] = IF @ \in LiveSession THEN "TERMINATING" ELSE @]
  /\ UNCHANGED <<cstate, csession, creq>>

(* StartCalculationExecution accepted by a session that takes calculations. *)
CreateCalc(k, s, request) ==
  /\ cstate[k] = "none"
  /\ sstate[s] \in {"IDLE", "BUSY"}
  /\ cstate' = [cstate EXCEPT ![k] = "QUEUED"]
  /\ csession' = [csession EXCEPT ![k] = s]
  /\ creq' = [creq EXCEPT ![k] = request]
  /\ sstate' = [sstate EXCEPT ![s] = "BUSY"]

(* StopCalculationExecution accepted. *)
RequestStop(k) ==
  /\ cstate' = [cstate EXCEPT ![k] = IF @ \in LiveCalc THEN "CANCELING" ELSE @]
  /\ UNCHANGED <<sstate, csession, creq>>

(* A session starts or fails to; it degrades or fails; it idles too long. *)
SessionChanges(s) ==
  /\ \/ sstate[s] = "CREATING" /\ \E st \in {"IDLE", "FAILED"} : sstate' = [sstate EXCEPT ![s] = st]
     \/ sstate[s] \in {"IDLE", "BUSY"}
        /\ \E st \in {"DEGRADED", "FAILED"} : sstate' = [sstate EXCEPT ![s] = st]
     \/ sstate[s] = "IDLE" /\ sstate' = [sstate EXCEPT ![s] = "TERMINATING"]
  /\ UNCHANGED <<cstate, csession, creq>>

(* Termination completes and takes the session's calculations with it. *)
SessionEnds(s) ==
  /\ sstate[s] = "TERMINATING"
  /\ sstate' = [sstate EXCEPT ![s] = "TERMINATED"]
  /\ cstate' = [k \in CalcIds |-> IF csession[k] = s /\ cstate[k] \in LiveCalc
                                  THEN "CANCELED" ELSE cstate[k]]
  /\ UNCHANGED <<csession, creq>>

CalcRuns(k) ==
  /\ cstate[k] = "QUEUED"
  /\ cstate' = [cstate EXCEPT ![k] = "RUNNING"]
  /\ UNCHANGED <<sstate, csession, creq>>

(* A calculation ends; a session without live calculations is idle again.    *)
(* One that is being canceled may still complete.                            *)
CalcEnds(k) ==
  /\ cstate[k] \in {"RUNNING", "CANCELING"}
  /\ \E st \in {"COMPLETED", "FAILED"} \cup (IF cstate[k] = "CANCELING" THEN {"CANCELED"} ELSE {}) :
       cstate' = [cstate EXCEPT ![k] = st]
  /\ sstate' = [s \in SessionIds |->
       IF /\ s = csession[k] /\ sstate[s] = "BUSY"
          /\ \A j \in CalcIds \ {k} : csession[j] = s => cstate[j] \notin LiveCalc
       THEN "IDLE" ELSE sstate[s]]
  /\ UNCHANGED <<csession, creq>>

SparkNext ==
  \/ \E s \in SessionIds : SessionChanges(s) \/ SessionEnds(s)
  \/ \E k \in CalcIds : CalcRuns(k) \/ CalcEnds(k)

(* Termination, once requested, completes.  A stop request alone promises    *)
(* nothing: "the calculation is not canceled unless the session is           *)
(* terminated", docs/spark.md:335.                                           *)
SparkFairness == \A s \in SessionIds : WF_sparkVars(SessionEnds(s))
================================================================================
