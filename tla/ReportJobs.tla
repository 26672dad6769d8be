----------------------------- MODULE ReportJobs -----------------------------
(***************************************************************************)
(* PDF reports: enqueue_report (src/app/services/report_service.py,        *)
(* src/app/core/queue.py), the RQ worker that runs them                    *)
(* (src/app/services/report_worker.py) and the three places where the      *)
(* state of a report is kept:                                              *)
(*                                                                         *)
(*   hash       the Redis hash report_job:{job_id}                         *)
(*   row, filed the reports table (status, file_path), which is all that   *)
(*              GET /reports/{job_id} shows                                *)
(*   pdf        the file report_{job_id}.pdf                               *)
(*                                                                         *)
(* The job is enqueued before the row is inserted, and each update is a    *)
(* step of its own.  Operators named Slip... are mistakes kept to show that*)
(* the properties would notice them.                                       *)
(***************************************************************************)
EXTENDS RqQueue

CONSTANTS
  Requests,  \* POST /reports calls that may be in progress at the same time
  Backends,  \* the databases the backend may be deployed with
  Faults     \* the kinds of failure this instance is exposed to

(***************************************************************************)
(*   raise      an exception in the try block before the row is finished   *)
(*   raiseLate  an exception in the try block after that                   *)
(*   handler    an exception outside the try block                         *)
(*   kill       the work horse dies in an attempt that has retries left    *)
(*   killLast   the work horse dies in the last attempt                    *)
(*   api        the API call stops between two of its steps                *)
(***************************************************************************)
FaultKinds == {"raise", "raiseLate", "handler", "kill", "killLast", "api"}

ASSUME ReportAssumption ==
  /\ Backends \subseteq {"sqlite", "postgres"}
  /\ Faults \subseteq FaultKinds

VARIABLES
  db,     \* where the reports table lives: chosen by DATABASE_URL at start
  hash,   \* hash[j]: status field of report_job:{j}, "none" if no key
  row,    \* row[j]: status column of the reports row, "absent" without a row
  filed,  \* filed[j]: has the row a file_path?
  pdf,    \* pdf[j]: the file on disk
  alerts, \* alerts[j]: alerts raised for job j, counted up to 2
  pc,     \* pc[j]: where the work horse running j is
  req,    \* req[r]: the step API call r is at, and its job
  cut     \* history: jobs whose creation, or last attempt outside the try block,
          \* was cut short by a fault

storeVars == <<db, hash, row, filed, pdf, alerts>>
vars == <<rq, retriesLeft, db, hash, row, filed, pdf, alerts, pc, req, cut>>

HashStatus == {"none", "queued", "started", "finished", "failed"}
RowStatus  == {"absent", "queued", "started", "finished", "failed"}
TryEarly   == {"rowStart", "open", "build", "rowFinish"}
TryLate    == {"publish", "return"}
WorkerPc   == {"idle", "start", "requeue", "rowFail", "report", "alert", "exit"}
                \cup TryEarly \cup TryLate

IdleRequest == [pc |-> "idle"]
RequestState == {IdleRequest} \cup [pc: {"enqueue", "insert"}, job: Jobs]

TypeOK ==
  /\ RqTypeOK
  /\ db \in Backends
  /\ hash \in [Jobs -> HashStatus]
  /\ row \in [Jobs -> RowStatus]
  /\ filed \in [Jobs -> BOOLEAN]
  /\ pdf \in [Jobs -> {"none", "partial", "whole"}]
  /\ alerts \in [Jobs -> 0..2]
  /\ pc \in [Jobs -> WorkerPc]
  /\ req \in [Requests -> RequestState]
  /\ cut \subseteq Jobs

Init ==
  /\ RqInit
  /\ db \in Backends
  /\ hash = [j \in Jobs |-> "none"]
  /\ row = [j \in Jobs |-> "absent"]
  /\ filed = [j \in Jobs |-> FALSE]
  /\ pdf = [j \in Jobs |-> "none"]
  /\ alerts = [j \in Jobs |-> 0]
  /\ pc = [j \in Jobs |-> "idle"]
  /\ req = [r \in Requests |-> IdleRequest]
  /\ cut = {}

-----------------------------------------------------------------------------
(* enqueue_report.                                                         *)

\* create_report_job: a fresh uuid, HSET status=queued and EXPIRE.
CreateJobHash(r) ==
  /\ req[r] = IdleRequest
  /\ \E j \in Jobs :
       /\ hash[j] = "none"
       /\ hash' = [hash EXCEPT ![j] = "queued"]
       /\ req' = [req EXCEPT ![r] = [pc |-> "enqueue", job |-> j]]
  /\ UNCHANGED <<rqVars, db, row, filed, pdf, alerts, pc, cut>>

EnqueueJob(r) ==
  /\ req[r].pc = "enqueue"
  /\ RqEnqueue(req[r].job)
  /\ req' = [req EXCEPT ![r].pc = "insert"]
  /\ UNCHANGED <<storeVars, pc, cut>>

\* INSERT INTO reports, after the enqueue.  (On Postgres the row is committed
\* and the conversion of the returned columns then fails: the client sees an
\* error, the stores the same state.)
InsertRow(r) ==
  /\ req[r].pc = "insert"
  /\ row' = [row EXCEPT ![req[r].job] = "queued"]
  /\ req' = [req EXCEPT ![r] = IdleRequest]
  /\ UNCHANGED <<rqVars, db, hash, filed, pdf, alerts, pc, cut>>

AbandonCreate(r) ==
  /\ "api" \in Faults
  /\ req[r] # IdleRequest
  /\ req' = [req EXCEPT ![r] = IdleRequest]
  /\ cut' = cut \cup {req[r].job}
  /\ UNCHANGED <<rqVars, storeVars, pc>>

-----------------------------------------------------------------------------
(* The stores as the worker uses them.                                     *)

Goto(j, label) == pc' = [pc EXCEPT ![j] = label]

CutIfLast(j) == cut' = IF retriesLeft[j] = 0 THEN cut \cup {j} ELSE cut

\* UPDATE reports ... WHERE job_id: no row, no effect, no error.
SetRow(j, status) == row' = [row EXCEPT ![j] = IF @ = "absent" THEN @ ELSE status]

\* The Postgres statement numbers its WHERE parameter one too low: the server
\* refuses it for every status, so update_report_status always raises.
RowUpdateWorks == db = "sqlite"

\* Slip: retries_left compared with 1.
SlipRetriesOffByOne(j) == Goto(j, IF retriesLeft[j] > 1 THEN "requeue" ELSE "rowFail")

\* The except branch: job.retries_left decides.
Caught(j) == Goto(j, IF retriesLeft[j] > 0 THEN "requeue" ELSE "rowFail")

-----------------------------------------------------------------------------
(* run_report_job: the try block.                                          *)

workerFrame == <<rqVars, db, req, alerts, cut>>

StartAttempt(j) ==
  /\ RqDequeue(j)
  /\ Goto(j, "start")
  /\ UNCHANGED <<storeVars, req, cut>>

PublishStarted(j) ==
  /\ pc[j] = "start"
  /\ hash' = [hash EXCEPT ![j] = "started"]
  /\ Goto(j, "rowStart")
  /\ UNCHANGED <<workerFrame, row, filed, pdf>>

\* Slip: the row is not taken back to started by a later attempt.
SlipStartOnlyOnce(j) ==
  /\ pc[j] = "rowStart"
  /\ RowUpdateWorks
  /\ row' = [row EXCEPT ![j] = IF @ = "queued" THEN "started" ELSE @]
  /\ Goto(j, "open")
  /\ UNCHANGED <<workerFrame, hash, filed, pdf>>

StartRow(j) ==
  /\ pc[j] = "rowStart"
  /\ RowUpdateWorks
  /\ SetRow(j, "started")
  /\ Goto(j, "open")
  /\ UNCHANGED <<workerFrame, hash, filed, pdf>>

\* generate_report overwrites the file in place.
OpenPdf(j) ==
  /\ pc[j] = "open"
  /\ pdf' = [pdf EXCEPT ![j] = "partial"]
  /\ Goto(j, "build")
  /\ UNCHANGED <<workerFrame, hash, row, filed>>

BuildPdf(j) ==
  /\ pc[j] = "build"
  /\ pdf' = [pdf EXCEPT ![j] = "whole"]
  /\ Goto(j, "rowFinish")
  /\ UNCHANGED <<workerFrame, hash, row, filed>>

FinishRow(j) ==
  /\ pc[j] = "rowFinish"
  /\ RowUpdateWorks
  /\ SetRow(j, "finished")
  /\ filed' = [filed EXCEPT ![j] = @ \/ row[j] # "absent"]
  /\ Goto(j, "publish")
  /\ UNCHANGED <<workerFrame, hash, pdf>>

\* Slip: a status string that JobStatus does not know.
SlipCompleted(j) ==
  /\ pc[j] = "publish"
  /\ hash' = [hash EXCEPT ![j] = "completed"]
  /\ Goto(j, "return")
  /\ UNCHANGED <<workerFrame, row, filed, pdf>>

PublishFinished(j) ==
  /\ pc[j] = "publish"
  /\ hash' = [hash EXCEPT ![j] = "finished"]
  /\ Goto(j, "return")
  /\ UNCHANGED <<workerFrame, row, filed, pdf>>

CompleteAttempt(j) ==
  /\ pc[j] = "return"
  /\ RqSucceed(j)
  /\ Goto(j, "idle")
  /\ UNCHANGED <<storeVars, req, cut>>

-----------------------------------------------------------------------------
(* run_report_job: the except branch.                                      *)

\* update_report_status raises inside the try block.
RowUpdateRaises(j) ==
  /\ pc[j] \in {"rowStart", "rowFinish"}
  /\ ~RowUpdateWorks
  /\ Caught(j)
  /\ UNCHANGED <<rqVars, storeVars, req, cut>>

\* Errors of Redis, the database, the statistics or the document, and the job
\* timeout.
InfraError(j) ==
  /\ \/ "raise" \in Faults /\ pc[j] \in TryEarly
     \/ "raiseLate" \in Faults /\ pc[j] \in TryLate
  /\ Caught(j)
  /\ UNCHANGED <<rqVars, storeVars, req, cut>>

\* Slip: an alert for every failed attempt.
SlipAlertEveryTime(j) ==
  /\ pc[j] = "requeue"
  /\ hash' = [hash EXCEPT ![j] = "queued"]
  /\ Goto(j, "alert")
  /\ UNCHANGED <<workerFrame, row, filed, pdf>>

\* A retry is announced in the hash only: the row keeps saying started.
PublishQueued(j) ==
  /\ pc[j] = "requeue"
  /\ hash' = [hash EXCEPT ![j] = "queued"]
  /\ Goto(j, "exit")
  /\ UNCHANGED <<workerFrame, row, filed, pdf>>

\* Slip: the final failure goes to the hash only.
SlipRowForgotten(j) ==
  /\ pc[j] = "rowFail"
  /\ Goto(j, "report")
  /\ UNCHANGED <<workerFrame, hash, row, filed, pdf>>

FailRow(j) ==
  /\ pc[j] = "rowFail"
  /\ RowUpdateWorks
  /\ SetRow(j, "failed")
  /\ Goto(j, "report")
  /\ UNCHANGED <<workerFrame, hash, filed, pdf>>

\* No try around the last row update: its error leaves the function before the
\* hash is updated.
FailRowRaises(j) ==
  /\ pc[j] = "rowFail"
  /\ ~RowUpdateWorks
  /\ Goto(j, "exit")
  /\ cut' = cut \cup {j}
  /\ UNCHANGED <<rqVars, storeVars, req>>

\* Slip: the hash keeps its old status.
SlipNoReport(j) ==
  /\ pc[j] = "report"
  /\ Goto(j, "alert")
  /\ UNCHANGED <<workerFrame, hash, row, filed, pdf>>

PublishFailed(j) ==
  /\ pc[j] = "report"
  /\ hash' = [hash EXCEPT ![j] = "failed"]
  /\ Goto(j, "alert")
  /\ UNCHANGED <<workerFrame, row, filed, pdf>>

SendAlert(j) ==
  /\ pc[j] = "alert"
  /\ alerts' = [alerts EXCEPT ![j] = IF @ < 2 THEN @ + 1 ELSE @]
  /\ Goto(j, "exit")
  /\ UNCHANGED <<rqVars, db, req, hash, row, filed, pdf, cut>>

\* The exception leaves run_report_job early.  A hash update is HSET and EXPIRE and
\* may raise before or after the status is written.
HandlerError(j) ==
  /\ "handler" \in Faults
  /\ pc[j] \in {"start", "rowStart", "requeue", "rowFail", "report", "alert"}
  /\ Goto(j, "exit")
  /\ CutIfLast(j)
  /\ UNCHANGED <<rqVars, storeVars, req>>

FailAttempt(j) ==
  /\ pc[j] = "exit"
  /\ RqHandleFailure(j)
  /\ Goto(j, "idle")
  /\ UNCHANGED <<storeVars, req, cut>>

KillHorse(j) ==
  /\ pc[j] # "idle"
  /\ IF retriesLeft[j] > 0 THEN "kill" \in Faults ELSE "killLast" \in Faults
  /\ RqHandleFailure(j)
  /\ Goto(j, "idle")
  /\ CutIfLast(j)
  /\ UNCHANGED <<storeVars, req>>

PromoteRetry(j) ==
  /\ RqPromote(j)
  /\ UNCHANGED <<storeVars, pc, req, cut>>

-----------------------------------------------------------------------------

RequestStep(r) == EnqueueJob(r) \/ InsertRow(r)

AttemptStep(j) ==
  \/ PublishStarted(j)
  \/ StartRow(j)
  \/ OpenPdf(j)
  \/ BuildPdf(j)
  \/ FinishRow(j)
  \/ PublishFinished(j)
  \/ CompleteAttempt(j)
  \/ RowUpdateRaises(j)
  \/ PublishQueued(j)
  \/ FailRow(j)
  \/ FailRowRaises(j)
  \/ PublishFailed(j)
  \/ SendAlert(j)
  \/ FailAttempt(j)

Next ==
  \/ \E r \in Requests : CreateJobHash(r) \/ RequestStep(r) \/ AbandonCreate(r)
  \/ \E j \in Jobs :
       \/ StartAttempt(j)
       \/ AttemptStep(j)
       \/ InfraError(j)
       \/ HandlerError(j)
       \/ KillHorse(j)
       \/ PromoteRetry(j)

Spec == Init /\ [][Next]_vars

\* API calls and work horses run on, idle workers take ready jobs, the scheduler
\* promotes due retries; no client has to call and no fault has to happen.
Fairness ==
  /\ \A r \in Requests : WF_vars(RequestStep(r))
  /\ \A j \in Jobs : /\ WF_vars(StartAttempt(j))
                     /\ WF_vars(AttemptStep(j))
                     /\ WF_vars(PromoteRetry(j))

FairSpec == Spec /\ Fairness

-----------------------------------------------------------------------------
(* Properties.                                                             *)

\* GET /reports/{job_id} offers a download only of a file that is complete, even
\* while a retry rewrites the file of an attempt that had already finished it
\* (get_report_metadata reads the row; generate_report writes in place).
OfferedReportIsWhole ==
  \A j \in Jobs : row[j] = "finished" => filed[j] /\ pdf[j] = "whole"

\* A client that was told the report failed is never told anything else, and no
\* work horse touches the report again: retries_left and RQ agree on which
\* attempt is the last.
FailedRowIsFinal ==
  [][\A j \in Jobs : row[j] = "failed" =>
       row'[j] = "failed" /\ pdf'[j] = pdf[j]]_vars

\* The two records give opposite verdicts in one case only.  Once Redis says failed
\* the row is failed, unless it came too late to be updated.  While Redis says
\* finished the row is not still at work, and it says failed only if the error came
\* after that hash was written (EXPIRE follows HSET): for as long as the except
\* branch of the last attempt is between its two updates, and for good if that
\* attempt is cut short there.
VerdictsAgree ==
  \A j \in Jobs :
    /\ hash[j] = "failed" => row[j] \in {"failed", "queued", "absent"}
    /\ hash[j] = "finished" =>
         row[j] # "started" /\ (row[j] = "failed" => pc[j] = "report" \/ j \in cut)

\* README, "Background jobs": the alert is raised once, for a job that is marked
\* failed and has no attempt left.
AlertOncePerDeadJob ==
  \A j \in Jobs : alerts[j] > 0 =>
    alerts[j] = 1 /\ hash[j] = "failed" /\ retriesLeft[j] = 0

\* A report that a client has seen started is finished or failed in the end, unless
\* its last attempt is killed or fails outside the try block.
StartedRowSettles ==
  \A j \in Jobs : row[j] = "started" ~> row[j] \in {"finished", "failed"} \/ j \in cut

\* README, "Background jobs": the job goes from queued to finished or failed, with
\* the same exceptions (on Postgres, where the final row update always raises, the
\* last attempt always is one).
HashReachesVerdict ==
  \A j \in Jobs : hash[j] = "queued" ~> hash[j] \in {"finished", "failed"} \/ j \in cut

\* The same of the row, which is what GET /reports/{job_id} reports.
RowReachesVerdict ==
  \A j \in Jobs : row[j] = "queued" ~> row[j] \in {"finished", "failed"}

-----------------------------------------------------------------------------
(* The inductive invariant behind the safety properties.                   *)

\* The work horse, RQ's registry and the retry counter tell one story.
WorkInv(j) ==
  /\ pc[j] # "idle" <=> rq[j] = "started"
  /\ pc[j] = "requeue" => retriesLeft[j] > 0
  /\ pc[j] \in {"rowFail", "report", "alert"} \/ rq[j] = "failed" => retriesLeft[j] = 0

\* A final failure is recorded, row first, only where no attempt can follow, and
\* the alert comes after both records.
FailureInv(j) ==
  /\ row[j] = "failed" =>
       retriesLeft[j] = 0 /\ (rq[j] = "failed" \/ pc[j] \in {"report", "alert", "exit"})
  /\ hash[j] = "failed" =>
       retriesLeft[j] = 0 /\ (rq[j] = "failed" \/ pc[j] \in {"alert", "exit"})
  /\ pc[j] = "report" => row[j] \in {"failed", "queued", "absent"}
  /\ pc[j] = "alert" => hash[j] = "failed" /\ alerts[j] = 0

\* The row is taken back to started before the file is opened, and says finished
\* only once the file is whole again; the hash runs behind.
FileInv(j) ==
  /\ pc[j] \in {"open", "build"} => row[j] # "finished"
  /\ pc[j] = "rowFinish" => pdf[j] = "whole"
  /\ pc[j] = "publish" => row[j] # "started"
  /\ pc[j] \in TryEarly \cup {"publish"} => hash[j] = "started"

\* A call that has not inserted its row yet is the only one with its job.
RequestInv ==
  /\ \A r \in Requests : req[r] # IdleRequest =>
       hash[req[r].job] # "none" /\ row[req[r].job] = "absent"
  /\ \A r, s \in Requests :
       req[r] # IdleRequest /\ req[s] # IdleRequest /\ req[r].job = req[s].job => r = s
  /\ \A j \in Jobs : hash[j] = "none" => row[j] = "absent"

IInv ==
  /\ TypeOK
  /\ \A j \in Jobs : WorkInv(j) /\ FailureInv(j) /\ FileInv(j)
  /\ RequestInv
  /\ OfferedReportIsWhole
  /\ VerdictsAgree
  /\ AlertOncePerDeadJob

=============================================================================
