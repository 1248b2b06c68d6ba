------------------------------ MODULE ThreadPool ------------------------------
(* concurrent.futures.ThreadPoolExecutor as PyAthena uses it: a FIFO queue   *)
(* of submitted tasks, drained by a bounded number of worker threads.  It is *)
(* external code, modelled from the calls src/pyathena makes: submit,        *)
(* shutdown, Future.cancel.                                                  *)
EXTENDS Naturals, Sequences, FiniteSets

CONSTANTS MaxWorkers   \* the executor's max_workers

VARIABLES
  queue,    \* submitted tasks no worker has taken yet, oldest first
  working,  \* the tasks the worker threads are running
  closed    \* shutdown() was called

poolVars == <<queue, working, closed>>

PoolInit == queue = <<>> /\ working = {} /\ closed = FALSE

Submit(t) ==
  /\ ~closed
  /\ queue' = Append(queue, t)
  /\ UNCHANGED <<working, closed>>

FreeWorker == Cardinality(working) < MaxWorkers

(* A free worker takes the oldest task, after shutdown as well. *)
Take(t) ==
  /\ FreeWorker
  /\ queue # <<>>
  /\ t = Head(queue)
  /\ queue' = Tail(queue)
  /\ working' = working \cup {t}
  /\ UNCHANGED closed

(* The function of task t returns or raises: its worker is free. *)
Release(t) ==
  /\ working' = working \ {t}
  /\ UNCHANGED <<queue, closed>>

(* Future.cancel: only a task no worker has taken can be cancelled. *)
Withdraw(t) ==
  /\ \E i \in DOMAIN queue :
       queue[i] = t /\ queue' = SubSeq(queue, 1, i - 1) \o SubSeq(queue, i + 1, Len(queue))
  /\ UNCHANGED <<working, closed>>

(* shutdown(): nothing is accepted any more, what is queued still runs. *)
Shutdown ==
  /\ closed' = TRUE
  /\ UNCHANGED <<queue, working>>
===============================================================================
