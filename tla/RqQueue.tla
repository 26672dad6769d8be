------------------------------ MODULE RqQueue ------------------------------
(***************************************************************************)
(* The part of the RQ library (and of its Redis registries) that the three *)
(* job kinds of the backend are built on: enqueue with Retry(max, interval)*)
(* (src/app/core/queue.py), dequeue and failure handling by the worker     *)
(* process (src/app/core/worker.py).  RQ itself is not in the repository;  *)
(* what is modelled is the contract the code relies on.                    *)
(*                                                                         *)
(* Ready jobs are a set, not a sequence: any ready job may be taken next,  *)
(* which includes RQ's first-in-first-out order.  Retry delays are         *)
(* abstracted to "some time later".                                        *)
(***************************************************************************)
EXTENDS Naturals, FiniteSets

CONSTANTS
  Jobs,          \* the job ids (uuid4) that may be drawn
  MaxRetries,    \* Retry(max=...)
  NumWorkers,    \* worker processes listening on the queue
  WithScheduler  \* does some worker run RQ's scheduler?

ASSUME RqAssumption ==
  /\ IsFiniteSet(Jobs)
  /\ MaxRetries \in Nat
  /\ NumWorkers \in Nat \ {0}
  /\ WithScheduler \in BOOLEAN

VARIABLES
  rq,           \* rq[j]: which RQ registry holds the job
  retriesLeft   \* retriesLeft[j]: rq.Job.retries_left

rqVars == <<rq, retriesLeft>>

Registry == {"none", "queued", "started", "scheduled", "finished", "failed"}

\* Jobs RQ still intends to run or is running.
Live(j) == rq[j] \in {"queued", "started", "scheduled"}

RqTypeOK ==
  /\ rq \in [Jobs -> Registry]
  /\ retriesLeft \in [Jobs -> 0..MaxRetries]

RqInit ==
  /\ rq = [j \in Jobs |-> "none"]
  /\ retriesLeft = [j \in Jobs |-> MaxRetries]

-----------------------------------------------------------------------------

\* Queue.enqueue(..., retry=Retry(max=MaxRetries, interval=[...]))
RqEnqueue(j) ==
  /\ rq[j] = "none"
  /\ rq' = [rq EXCEPT ![j] = "queued"]
  /\ UNCHANGED retriesLeft

\* A free worker takes a ready job and forks a work horse for it.
RqDequeue(j) ==
  /\ rq[j] = "queued"
  /\ Cardinality({k \in Jobs : rq[k] = "started"}) < NumWorkers
  /\ rq' = [rq EXCEPT ![j] = "started"]
  /\ UNCHANGED retriesLeft

\* The job function returned.
RqSucceed(j) ==
  /\ rq[j] = "started"
  /\ rq' = [rq EXCEPT ![j] = "finished"]
  /\ UNCHANGED retriesLeft

\* The job function raised, or its work horse died: every retry of this code
\* has a positive interval, so a job with retries left is put on the
\* scheduled registry.
RqHandleFailure(j) ==
  /\ rq[j] = "started"
  /\ \/ /\ retriesLeft[j] > 0
        /\ rq' = [rq EXCEPT ![j] = "scheduled"]
        /\ retriesLeft' = [retriesLeft EXCEPT ![j] = @ - 1]
     \/ /\ retriesLeft[j] = 0
        /\ rq' = [rq EXCEPT ![j] = "failed"]
        /\ UNCHANGED retriesLeft

\* RQ's scheduler moves a due job back to its queue.  Only a worker started
\* with with_scheduler=True runs it.
RqPromote(j) ==
  /\ WithScheduler
  /\ rq[j] = "scheduled"
  /\ rq' = [rq EXCEPT ![j] = "queued"]
  /\ UNCHANGED retriesLeft

=============================================================================
