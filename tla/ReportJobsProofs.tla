-------------------------- MODULE ReportJobsProofs --------------------------
(***************************************************************************)
(* Theorems about ReportJobs for every number of jobs, calls, workers and  *)
(* retries, either database and every set of faults.                       *)
(***************************************************************************)
EXTENDS ReportJobs, TLAPS

\* The sets that say where a store or a work horse is.
USE DEF HashStatus, RowStatus, TryEarly, TryLate, WorkerPc, Registry

\* The part of IInv that speaks of one job.
JobInv(j) ==
  /\ WorkInv(j)
  /\ FailureInv(j)
  /\ FileInv(j)
  /\ row[j] = "finished" => filed[j] /\ pdf[j] = "whole"
  /\ hash[j] = "failed" => row[j] \in {"failed", "queued", "absent"}
  /\ hash[j] = "finished" =>
       row[j] # "started" /\ (row[j] = "failed" => pc[j] = "report" \/ j \in cut)
  /\ alerts[j] > 0 => alerts[j] = 1 /\ hash[j] = "failed" /\ retriesLeft[j] = 0

LEMMA InvariantByJob == IInv <=> TypeOK /\ RequestInv /\ \A j \in Jobs : JobInv(j)
  BY DEF IInv, JobInv, OfferedReportIsWhole, VerdictsAgree, AlertOncePerDeadJob

\* What a step leaves alone of a job it is not about.
Untouched(i) ==
  /\ rq'[i] = rq[i] /\ retriesLeft'[i] = retriesLeft[i]
  /\ hash'[i] = hash[i] /\ row'[i] = row[i] /\ filed'[i] = filed[i]
  /\ pdf'[i] = pdf[i] /\ alerts'[i] = alerts[i] /\ pc'[i] = pc[i]
  /\ i \in cut => i \in cut'

LEMMA UntouchedKeeps ==
  ASSUME NEW i \in Jobs, JobInv(i), Untouched(i)
  PROVE  JobInv(i)'
  BY DEF JobInv, WorkInv, FailureInv, FileInv, Untouched

\* It is enough to look at the jobs a step touches and at the calls.
LEMMA StepByJob ==
  ASSUME IInv, TypeOK', RequestInv', \A i \in Jobs : Untouched(i) \/ JobInv(i)'
  PROVE  IInv'
<1>1. ASSUME NEW i \in Jobs PROVE JobInv(i)'
  BY UntouchedKeeps, InvariantByJob
<1>2. QED
  BY <1>1 DEF IInv, JobInv, OfferedReportIsWhole, VerdictsAgree, AlertOncePerDeadJob

\* A step of one work horse, or of RQ for one job, tells the calls nothing if the
\* job's key and row do not come or go.
LEMMA JobStep ==
  ASSUME IInv, NEW j \in Jobs, TypeOK', JobInv(j)', req' = req,
         \A i \in Jobs \ {j} : Untouched(i),
         hash'[j] = "none" => hash[j] = "none",
         row'[j] = "absent" <=> row[j] = "absent"
  PROVE  IInv'
<1>1. ASSUME NEW i \in Jobs
      PROVE  /\ hash'[i] = "none" => hash[i] = "none"
             /\ row'[i] = "absent" <=> row[i] = "absent"
  BY DEF Untouched
<1>2. ASSUME NEW r \in Requests, req[r] # IdleRequest
      PROVE  req[r].job \in Jobs
  BY <1>2 DEF IInv, TypeOK, RequestState
<1>3. RequestInv'
  BY <1>1, <1>2 DEF IInv, RequestInv
<1>4. QED
  BY <1>3, StepByJob

-----------------------------------------------------------------------------
(* Into the try block and through it.                                      *)

LEMMA AttemptStarts ==
  ASSUME IInv, NEW j \in Jobs, StartAttempt(j)
  PROVE  IInv'
<1> USE DEF StartAttempt, RqDequeue, Goto, storeVars
<1>1. TypeOK'
  BY DEF IInv, TypeOK, RqTypeOK
<1>2. \A i \in Jobs \ {j} : Untouched(i)
  BY DEF IInv, TypeOK, RqTypeOK, Untouched
<1>3. JobInv(j)'
  BY InvariantByJob DEF TypeOK, RqTypeOK, JobInv, WorkInv, FailureInv, FileInv
<1>4. /\ req' = req
      /\ hash'[j] = "none" => hash[j] = "none"
      /\ row'[j] = "absent" <=> row[j] = "absent"
  BY DEF IInv, TypeOK
<1>5. QED
  BY <1>1, <1>2, <1>3, <1>4, JobStep

LEMMA StartedIsPublished ==
  ASSUME IInv, NEW j \in Jobs, PublishStarted(j)
  PROVE  IInv'
<1> USE DEF PublishStarted, Goto, workerFrame, rqVars
<1>1. TypeOK'
  BY DEF IInv, TypeOK, RqTypeOK
<1>2. \A i \in Jobs \ {j} : Untouched(i)
  BY DEF IInv, TypeOK, RqTypeOK, Untouched
<1>3. JobInv(j)'
  BY InvariantByJob DEF TypeOK, RqTypeOK, JobInv, WorkInv, FailureInv, FileInv
<1>4. /\ req' = req
      /\ hash'[j] = "none" => hash[j] = "none"
      /\ row'[j] = "absent" <=> row[j] = "absent"
  BY DEF IInv, TypeOK
<1>5. QED
  BY <1>1, <1>2, <1>3, <1>4, JobStep

LEMMA RowIsStarted ==
  ASSUME IInv, NEW j \in Jobs, StartRow(j)
  PROVE  IInv'
<1> USE DEF StartRow, SetRow, Goto, workerFrame, rqVars
<1>1. TypeOK'
  BY DEF IInv, TypeOK, RqTypeOK
<1>2. \A i \in Jobs \ {j} : Untouched(i)
  BY DEF IInv, TypeOK, RqTypeOK, Untouched
<1>3. JobInv(j)'
  BY InvariantByJob DEF TypeOK, RqTypeOK, JobInv, WorkInv, FailureInv, FileInv
<1>4. /\ req' = req
      /\ hash'[j] = "none" => hash[j] = "none"
      /\ row'[j] = "absent" <=> row[j] = "absent"
  BY DEF IInv, TypeOK
<1>5. QED
  BY <1>1, <1>2, <1>3, <1>4, JobStep

LEMMA PdfIsOpened ==
  ASSUME IInv, NEW j \in Jobs, OpenPdf(j)
  PROVE  IInv'
<1> USE DEF OpenPdf, Goto, workerFrame, rqVars
<1>1. TypeOK'
  BY DEF IInv, TypeOK, RqTypeOK
<1>2. \A i \in Jobs \ {j} : Untouched(i)
  BY DEF IInv, TypeOK, RqTypeOK, Untouched
<1>3. JobInv(j)'
  BY InvariantByJob DEF TypeOK, RqTypeOK, JobInv, WorkInv, FailureInv, FileInv
<1>4. /\ req' = req
      /\ hash'[j] = "none" => hash[j] = "none"
      /\ row'[j] = "absent" <=> row[j] = "absent"
  BY DEF IInv, TypeOK
<1>5. QED
  BY <1>1, <1>2, <1>3, <1>4, JobStep

LEMMA PdfIsBuilt ==
  ASSUME IInv, NEW j \in Jobs, BuildPdf(j)
  PROVE  IInv'
<1> USE DEF BuildPdf, Goto, workerFrame, rqVars
<1>1. TypeOK'
  BY DEF IInv, TypeOK, RqTypeOK
<1>2. \A i \in Jobs \ {j} : Untouched(i)
  BY DEF IInv, TypeOK, RqTypeOK, Untouched
<1>3. JobInv(j)'
  BY InvariantByJob DEF TypeOK, RqTypeOK, JobInv, WorkInv, FailureInv, FileInv
<1>4. /\ req' = req
      /\ hash'[j] = "none" => hash[j] = "none"
      /\ row'[j] = "absent" <=> row[j] = "absent"
  BY DEF IInv, TypeOK
<1>5. QED
  BY <1>1, <1>2, <1>3, <1>4, JobStep

LEMMA RowIsFinished ==
  ASSUME IInv, NEW j \in Jobs, FinishRow(j)
  PROVE  IInv'
<1> USE DEF FinishRow, SetRow, Goto, workerFrame, rqVars
<1>1. TypeOK'
  BY DEF IInv, TypeOK, RqTypeOK
<1>2. \A i \in Jobs \ {j} : Untouched(i)
  BY DEF IInv, TypeOK, RqTypeOK, Untouched
<1>3. JobInv(j)'
  <2>1. /\ pc[j] = "rowFinish" /\ pc'[j] = "publish"
        /\ row'[j] = IF row[j] = "absent" THEN "absent" ELSE "finished"
        /\ filed'[j] = (filed[j] \/ row[j] # "absent")
        /\ rq'[j] = rq[j] /\ retriesLeft'[j] = retriesLeft[j] /\ hash'[j] = hash[j]
        /\ pdf'[j] = pdf[j] /\ alerts'[j] = alerts[j]
    BY DEF IInv, TypeOK, RqTypeOK
  <2>2. JobInv(j)
    BY InvariantByJob
  <2>3. (WorkInv(j) /\ FailureInv(j) /\ FileInv(j))'
    BY <2>1, <2>2 DEF JobInv, WorkInv, FailureInv, FileInv, TryEarly
  <2>4. QED
    BY <2>1, <2>2, <2>3 DEF JobInv, FileInv, TryEarly
<1>4. /\ req' = req
      /\ hash'[j] = "none" => hash[j] = "none"
      /\ row'[j] = "absent" <=> row[j] = "absent"
  BY DEF IInv, TypeOK
<1>5. QED
  BY <1>1, <1>2, <1>3, <1>4, JobStep

LEMMA FinishedIsPublished ==
  ASSUME IInv, NEW j \in Jobs, PublishFinished(j)
  PROVE  IInv'
<1> USE DEF PublishFinished, Goto, workerFrame, rqVars
<1>1. TypeOK'
  BY DEF IInv, TypeOK, RqTypeOK
<1>2. \A i \in Jobs \ {j} : Untouched(i)
  BY DEF IInv, TypeOK, RqTypeOK, Untouched
<1>3. JobInv(j)'
  BY InvariantByJob DEF TypeOK, RqTypeOK, JobInv, WorkInv, FailureInv, FileInv
<1>4. /\ req' = req
      /\ hash'[j] = "none" => hash[j] = "none"
      /\ row'[j] = "absent" <=> row[j] = "absent"
  BY DEF IInv, TypeOK
<1>5. QED
  BY <1>1, <1>2, <1>3, <1>4, JobStep

LEMMA AttemptCompletes ==
  ASSUME IInv, NEW j \in Jobs, CompleteAttempt(j)
  PROVE  IInv'
<1> USE DEF CompleteAttempt, RqSucceed, Goto, storeVars
<1>1. TypeOK'
  BY DEF IInv, TypeOK, RqTypeOK
<1>2. \A i \in Jobs \ {j} : Untouched(i)
  BY DEF IInv, TypeOK, RqTypeOK, Untouched
<1>3. JobInv(j)'
  BY InvariantByJob DEF TypeOK, RqTypeOK, JobInv, WorkInv, FailureInv, FileInv
<1>4. /\ req' = req
      /\ hash'[j] = "none" => hash[j] = "none"
      /\ row'[j] = "absent" <=> row[j] = "absent"
  BY DEF IInv, TypeOK
<1>5. QED
  BY <1>1, <1>2, <1>3, <1>4, JobStep

-----------------------------------------------------------------------------
(* Out of the try block: the except branch, faults and RQ.                 *)

LEMMA ErrorIsCaught ==
  ASSUME IInv, NEW j \in Jobs, RowUpdateRaises(j) \/ InfraError(j)
  PROVE  IInv'
<1> USE DEF RowUpdateRaises, InfraError, Caught, Goto, storeVars, rqVars
<1>1. TypeOK'
  BY DEF IInv, TypeOK, RqTypeOK
<1>2. \A i \in Jobs \ {j} : Untouched(i)
  BY DEF IInv, TypeOK, RqTypeOK, Untouched
<1>3. JobInv(j)'
  BY InvariantByJob DEF TypeOK, RqTypeOK, JobInv, WorkInv, FailureInv, FileInv
<1>4. /\ req' = req
      /\ hash'[j] = "none" => hash[j] = "none"
      /\ row'[j] = "absent" <=> row[j] = "absent"
  BY DEF IInv, TypeOK
<1>5. QED
  BY <1>1, <1>2, <1>3, <1>4, JobStep

LEMMA RetryIsPublished ==
  ASSUME IInv, NEW j \in Jobs, PublishQueued(j)
  PROVE  IInv'
<1> USE DEF PublishQueued, Goto, workerFrame, rqVars
<1>1. TypeOK'
  BY DEF IInv, TypeOK, RqTypeOK
<1>2. \A i \in Jobs \ {j} : Untouched(i)
  BY DEF IInv, TypeOK, RqTypeOK, Untouched
<1>3. JobInv(j)'
  BY InvariantByJob DEF TypeOK, RqTypeOK, JobInv, WorkInv, FailureInv, FileInv
<1>4. /\ req' = req
      /\ hash'[j] = "none" => hash[j] = "none"
      /\ row'[j] = "absent" <=> row[j] = "absent"
  BY DEF IInv, TypeOK
<1>5. QED
  BY <1>1, <1>2, <1>3, <1>4, JobStep

LEMMA RowIsFailed ==
  ASSUME IInv, NEW j \in Jobs, FailRow(j)
  PROVE  IInv'
<1> USE DEF FailRow, SetRow, Goto, workerFrame, rqVars
<1>1. TypeOK'
  BY DEF IInv, TypeOK, RqTypeOK
<1>2. \A i \in Jobs \ {j} : Untouched(i)
  BY DEF IInv, TypeOK, RqTypeOK, Untouched
<1>3. JobInv(j)'
  BY InvariantByJob DEF TypeOK, RqTypeOK, JobInv, WorkInv, FailureInv, FileInv
<1>4. /\ req' = req
      /\ hash'[j] = "none" => hash[j] = "none"
      /\ row'[j] = "absent" <=> row[j] = "absent"
  BY DEF IInv, TypeOK
<1>5. QED
  BY <1>1, <1>2, <1>3, <1>4, JobStep

LEMMA FailureIsPublished ==
  ASSUME IInv, NEW j \in Jobs, PublishFailed(j)
  PROVE  IInv'
<1> USE DEF PublishFailed, Goto, workerFrame, rqVars
<1>1. TypeOK'
  BY DEF IInv, TypeOK, RqTypeOK
<1>2. \A i \in Jobs \ {j} : Untouched(i)
  BY DEF IInv, TypeOK, RqTypeOK, Untouched
<1>3. JobInv(j)'
  BY InvariantByJob DEF TypeOK, RqTypeOK, JobInv, WorkInv, FailureInv, FileInv
<1>4. /\ req' = req
      /\ hash'[j] = "none" => hash[j] = "none"
      /\ row'[j] = "absent" <=> row[j] = "absent"
  BY DEF IInv, TypeOK
<1>5. QED
  BY <1>1, <1>2, <1>3, <1>4, JobStep

LEMMA AlertIsSent ==
  ASSUME IInv, NEW j \in Jobs, SendAlert(j)
  PROVE  IInv'
<1> USE DEF SendAlert, Goto, rqVars
<1>1. TypeOK'
  BY DEF IInv, TypeOK, RqTypeOK
<1>2. \A i \in Jobs \ {j} : Untouched(i)
  BY DEF IInv, TypeOK, RqTypeOK, Untouched
<1>3. JobInv(j)'
  BY InvariantByJob DEF TypeOK, RqTypeOK, JobInv, WorkInv, FailureInv, FileInv
<1>4. /\ req' = req
      /\ hash'[j] = "none" => hash[j] = "none"
      /\ row'[j] = "absent" <=> row[j] = "absent"
  BY DEF IInv, TypeOK
<1>5. QED
  BY <1>1, <1>2, <1>3, <1>4, JobStep

LEMMA HandlerBreaksOff ==
  ASSUME IInv, NEW j \in Jobs, FailRowRaises(j) \/ HandlerError(j)
  PROVE  IInv'
<1> USE DEF FailRowRaises, HandlerError, CutIfLast, Goto, storeVars, rqVars
<1>1. TypeOK'
  BY DEF IInv, TypeOK, RqTypeOK
<1>2. \A i \in Jobs \ {j} : Untouched(i)
  BY DEF IInv, TypeOK, RqTypeOK, Untouched
<1>3. JobInv(j)'
  BY InvariantByJob DEF TypeOK, RqTypeOK, JobInv, WorkInv, FailureInv, FileInv
<1>4. /\ req' = req
      /\ hash'[j] = "none" => hash[j] = "none"
      /\ row'[j] = "absent" <=> row[j] = "absent"
  BY DEF IInv, TypeOK
<1>5. QED
  BY <1>1, <1>2, <1>3, <1>4, JobStep

LEMMA AttemptFails ==
  ASSUME IInv, NEW j \in Jobs, FailAttempt(j) \/ KillHorse(j)
  PROVE  IInv'
<1> USE DEF FailAttempt, KillHorse, RqHandleFailure, CutIfLast, Goto,
           storeVars
<1>1. TypeOK'
  <2>1. RqTypeOK'
    BY RqAssumption DEF IInv, TypeOK, RqTypeOK
  <2>2. cut' \subseteq Jobs
    BY DEF IInv, TypeOK
  <2>3. QED
    BY <2>1, <2>2 DEF IInv, TypeOK
<1>2. \A i \in Jobs \ {j} : Untouched(i)
  BY DEF IInv, TypeOK, RqTypeOK, Untouched
<1>3. JobInv(j)'
  BY InvariantByJob DEF TypeOK, RqTypeOK, JobInv, WorkInv, FailureInv, FileInv
<1>4. /\ req' = req
      /\ hash'[j] = "none" => hash[j] = "none"
      /\ row'[j] = "absent" <=> row[j] = "absent"
  BY DEF IInv, TypeOK
<1>5. QED
  BY <1>1, <1>2, <1>3, <1>4, JobStep

LEMMA RetryIsPromoted ==
  ASSUME IInv, NEW j \in Jobs, PromoteRetry(j)
  PROVE  IInv'
<1> USE DEF PromoteRetry, RqPromote, storeVars
<1>1. TypeOK'
  BY DEF IInv, TypeOK, RqTypeOK
<1>2. \A i \in Jobs \ {j} : Untouched(i)
  BY DEF IInv, TypeOK, RqTypeOK, Untouched
<1>3. JobInv(j)'
  BY InvariantByJob DEF TypeOK, RqTypeOK, JobInv, WorkInv, FailureInv, FileInv
<1>4. /\ req' = req
      /\ hash'[j] = "none" => hash[j] = "none"
      /\ row'[j] = "absent" <=> row[j] = "absent"
  BY DEF IInv, TypeOK
<1>5. QED
  BY <1>1, <1>2, <1>3, <1>4, JobStep

-----------------------------------------------------------------------------
(* The API call.                                                           *)

\* A call under way has a job, and what the request bookkeeping says of it.
LEMMA JobOfCall ==
  ASSUME IInv, NEW r \in Requests, req[r] # IdleRequest
  PROVE  /\ req[r] \in [pc: {"enqueue", "insert"}, job: Jobs]
         /\ req[r].job \in Jobs
         /\ hash[req[r].job] # "none"
         /\ row[req[r].job] = "absent"
  BY DEF IInv, TypeOK, RequestState, RequestInv

LEMMA IdleIsNotUnderWay == IdleRequest.pc = "idle" /\ IdleRequest \in RequestState
  BY DEF IdleRequest, RequestState

LEMMA HashIsCreated ==
  ASSUME IInv, NEW r \in Requests, CreateJobHash(r)
  PROVE  IInv'
<1>1. PICK j \in Jobs : /\ hash[j] = "none"
                        /\ hash' = [hash EXCEPT ![j] = "queued"]
                        /\ req' = [req EXCEPT ![r] = [pc |-> "enqueue", job |-> j]]
  BY DEF CreateJobHash
<1>2. UNCHANGED <<rq, retriesLeft, db, row, filed, pdf, alerts, pc, cut>>
  BY DEF CreateJobHash, rqVars
<1>3. [pc |-> "enqueue", job |-> j] \in RequestState
  BY DEF RequestState
<1>4. TypeOK'
  BY <1>1, <1>2, <1>3 DEF IInv, TypeOK, RqTypeOK
<1>5. \A i \in Jobs \ {j} : Untouched(i)
  BY <1>1, <1>2 DEF IInv, TypeOK, Untouched
<1>6. JobInv(j)'
  BY <1>1, <1>2, InvariantByJob DEF TypeOK, JobInv, WorkInv, FailureInv, FileInv
<1>7. RequestInv'
  <2>1. ASSUME NEW s \in Requests, s # r, req[s] # IdleRequest
        PROVE  req'[s] = req[s] /\ req[s].job # j /\ hash'[req[s].job] # "none"
    BY <1>1, <2>1, JobOfCall DEF IInv, TypeOK
  <2>2. req'[r].job = j /\ hash'[j] # "none" /\ row'[j] = "absent"
    BY <1>1, <1>2 DEF IInv, TypeOK, RequestInv
  <2>3. \A s \in Requests : s # r => req'[s] = req[s]
    BY <1>1 DEF IInv, TypeOK
  <2>4. \A i \in Jobs : hash'[i] = "none" => row'[i] = "absent"
    BY <1>1, <1>2 DEF IInv, TypeOK, RequestInv
  <2>5. QED
    BY <1>2, <2>1, <2>2, <2>3, <2>4 DEF IInv, RequestInv
<1>8. QED
  BY <1>4, <1>5, <1>6, <1>7, StepByJob

LEMMA JobIsEnqueued ==
  ASSUME IInv, NEW r \in Requests, EnqueueJob(r)
  PROVE  IInv'
<1> DEFINE q == [req[r] EXCEPT !.pc = "insert"]
<1>1. req[r] # IdleRequest
  BY IdleIsNotUnderWay DEF EnqueueJob
<1>2. PICK j \in Jobs : j = req[r].job
  BY <1>1, JobOfCall
<1>3. q \in RequestState /\ q # IdleRequest /\ q.job = j
  BY <1>1, <1>2, JobOfCall, IdleIsNotUnderWay DEF RequestState
<1>4. rq[j] = "none" /\ rq' = [rq EXCEPT ![j] = "queued"] /\ req' = [req EXCEPT ![r] = q]
  BY <1>2 DEF EnqueueJob, RqEnqueue
<1>5. UNCHANGED <<retriesLeft, db, hash, row, filed, pdf, alerts, pc, cut>>
  BY DEF EnqueueJob, RqEnqueue, storeVars
<1> HIDE DEF q
<1>6. TypeOK'
  BY <1>3, <1>4, <1>5 DEF IInv, TypeOK, RqTypeOK
<1>7. \A i \in Jobs \ {j} : Untouched(i)
  BY <1>4, <1>5 DEF IInv, TypeOK, RqTypeOK, Untouched
<1>8. JobInv(j)'
  BY <1>2, <1>4, <1>5, InvariantByJob
     DEF TypeOK, RqTypeOK, JobInv, WorkInv, FailureInv, FileInv
<1>9. RequestInv'
  <2>1. \A s \in Requests : /\ req'[s] # IdleRequest <=> req[s] # IdleRequest
                            /\ req'[s].job = req[s].job
    BY <1>1, <1>2, <1>3, <1>4 DEF IInv, TypeOK
  <2>2. QED
    BY <1>5, <2>1 DEF IInv, RequestInv
<1>10. QED
  BY <1>6, <1>7, <1>8, <1>9, StepByJob

\* The row of a call that inserts it is not there yet, so no verdict is overwritten.
LEMMA RowIsInserted ==
  ASSUME IInv, NEW r \in Requests, InsertRow(r)
  PROVE  IInv'
<1>1. req[r] # IdleRequest
  BY IdleIsNotUnderWay DEF InsertRow
<1>2. PICK j \in Jobs : j = req[r].job /\ hash[j] # "none" /\ row[j] = "absent"
  BY <1>1, JobOfCall
<1>3. row' = [row EXCEPT ![j] = "queued"] /\ req' = [req EXCEPT ![r] = IdleRequest]
  BY <1>2 DEF InsertRow
<1>4. UNCHANGED <<rq, retriesLeft, db, hash, filed, pdf, alerts, pc, cut>>
  BY DEF InsertRow, rqVars
<1>5. \A s \in Requests : s # r /\ req[s] # IdleRequest => req[s].job # j
  BY <1>1, <1>2 DEF IInv, RequestInv
<1>6. TypeOK'
  BY <1>3, <1>4, IdleIsNotUnderWay DEF IInv, TypeOK, RqTypeOK
<1>7. \A i \in Jobs \ {j} : Untouched(i)
  BY <1>3, <1>4 DEF IInv, TypeOK, Untouched
<1>8. JobInv(j)'
  BY <1>2, <1>3, <1>4, InvariantByJob DEF TypeOK, JobInv, WorkInv, FailureInv, FileInv
<1>9. RequestInv'
  <2>1. \A s \in Requests : req'[s] # IdleRequest => s # r /\ req'[s] = req[s]
    BY <1>3 DEF IInv, TypeOK
  <2>2. ASSUME NEW s \in Requests, req'[s] # IdleRequest
        PROVE  hash'[req'[s].job] # "none" /\ row'[req'[s].job] = "absent"
    BY <1>3, <1>4, <1>5, <2>1, <2>2, JobOfCall DEF IInv, TypeOK
  <2>3. \A i \in Jobs : hash'[i] = "none" => row'[i] = "absent"
    BY <1>2, <1>3, <1>4 DEF IInv, TypeOK, RequestInv
  <2>4. QED
    BY <2>1, <2>2, <2>3 DEF IInv, RequestInv
<1>10. QED
  BY <1>6, <1>7, <1>8, <1>9, StepByJob

LEMMA CallIsAbandoned ==
  ASSUME IInv, NEW r \in Requests, AbandonCreate(r)
  PROVE  IInv'
<1> USE DEF AbandonCreate, rqVars, storeVars
<1>1. TypeOK'
  BY JobOfCall, IdleIsNotUnderWay DEF IInv, TypeOK, RqTypeOK
<1>2. \A i \in Jobs : Untouched(i)
  BY DEF Untouched
<1>3. \A s \in Requests : req'[s] # IdleRequest => req'[s] = req[s]
  BY DEF IInv, TypeOK
<1>4. RequestInv'
  BY <1>3 DEF IInv, RequestInv
<1>5. QED
  BY <1>1, <1>2, <1>4, StepByJob

-----------------------------------------------------------------------------
(* Every step keeps the invariant.                                         *)

LEMMA IInvStep == IInv /\ [Next]_vars => IInv'
<1> SUFFICES ASSUME IInv, [Next]_vars PROVE IInv'
  OBVIOUS
<1>1. ASSUME NEW r \in Requests, CreateJobHash(r) \/ RequestStep(r) \/ AbandonCreate(r)
      PROVE  IInv'
  BY <1>1, HashIsCreated, JobIsEnqueued, RowIsInserted, CallIsAbandoned DEF RequestStep
<1>2. ASSUME NEW j \in Jobs, AttemptStep(j)
      PROVE  IInv'
  BY <1>2, StartedIsPublished, RowIsStarted, PdfIsOpened, PdfIsBuilt, RowIsFinished,
     FinishedIsPublished, AttemptCompletes, ErrorIsCaught, RetryIsPublished, RowIsFailed,
     HandlerBreaksOff, FailureIsPublished, AlertIsSent, AttemptFails
     DEF AttemptStep
<1>3. ASSUME NEW j \in Jobs,
             StartAttempt(j) \/ InfraError(j) \/ HandlerError(j) \/ KillHorse(j)
               \/ PromoteRetry(j)
      PROVE  IInv'
  BY <1>3, AttemptStarts, ErrorIsCaught, HandlerBreaksOff, AttemptFails, RetryIsPromoted
<1>4. CASE UNCHANGED vars
  BY <1>4 DEF vars, IInv, TypeOK, RqTypeOK, WorkInv, FailureInv, FileInv, RequestInv,
     OfferedReportIsWhole, VerdictsAgree, AlertOncePerDeadJob
<1>5. QED
  BY <1>1, <1>2, <1>3, <1>4 DEF Next

-----------------------------------------------------------------------------
(* The theorems.                                                           *)

\* The inductive invariant: types, one story told by RQ and the work horse, verdicts
\* given only when no attempt can follow, files whole when offered, one call per job.
THEOREM ReportSafety == Spec => []IInv
<1>1. Init => IInv
  BY RqAssumption DEF Init, RqInit, IInv, TypeOK, RqTypeOK, WorkInv, FailureInv, FileInv,
     RequestInv, RequestState, OfferedReportIsWhole, VerdictsAgree, AlertOncePerDeadJob
<1>2. QED
  BY <1>1, IInvStep, PTL DEF Spec

\* Every variable keeps its type (ReportJobs.TypeOK).
THEOREM ReportTyping == Spec => []TypeOK
<1>1. IInv => TypeOK
  BY DEF IInv
<1>2. QED
  BY <1>1, ReportSafety, PTL

\* Whatever attempts fail, are killed or come after one another, a report offered for
\* download has a path and a complete file (ReportJobs.OfferedReportIsWhole).
THEOREM OfferedFileIsWhole == Spec => []OfferedReportIsWhole
<1>1. IInv => OfferedReportIsWhole
  BY DEF IInv
<1>2. QED
  BY <1>1, ReportSafety, PTL

\* The hash and the row never hold opposite verdicts on a report, although each is
\* written in a step of its own (ReportJobs.VerdictsAgree).
THEOREM VerdictsStayInAgreement == Spec => []VerdictsAgree
<1>1. IInv => VerdictsAgree
  BY DEF IInv
<1>2. QED
  BY <1>1, ReportSafety, PTL

\* An alert is raised at most once for a job, and only for one that is marked failed
\* and has used up its retries (ReportJobs.AlertOncePerDeadJob).
THEOREM OneAlert == Spec => []AlertOncePerDeadJob
<1>1. IInv => AlertOncePerDeadJob
  BY DEF IInv
<1>2. QED
  BY <1>1, ReportSafety, PTL

\* No retry, late call or fault changes a report, or its file, once a client may have
\* been told that it failed (ReportJobs.FailedRowIsFinal).
THEOREM FailedReportIsFinal == Spec => FailedRowIsFinal
<1> DEFINE Kept == \A j \in Jobs : row[j] = "failed" =>
                     row'[j] = "failed" /\ pdf'[j] = pdf[j]
<1>1. IInv /\ [Next]_vars => [Kept]_vars
  <2> SUFFICES ASSUME IInv, Next, NEW j \in Jobs, row[j] = "failed"
               PROVE  row'[j] = "failed" /\ pdf'[j] = pdf[j]
    OBVIOUS
  <2>1. pc[j] \in {"idle", "report", "alert", "exit"}
    BY InvariantByJob DEF JobInv, WorkInv, FailureInv
  <2>2. ASSUME NEW r \in Requests, CreateJobHash(r) \/ RequestStep(r) \/ AbandonCreate(r)
        PROVE  row'[j] = "failed" /\ pdf'[j] = pdf[j]
    <3>1. CASE InsertRow(r)
      <4>1. req[r].job # j
        BY <3>1, IdleIsNotUnderWay, JobOfCall DEF InsertRow
      <4>2. QED
        BY <3>1, <4>1 DEF InsertRow, IInv, TypeOK
    <3>2. QED
      BY <2>2, <3>1 DEF CreateJobHash, RequestStep, EnqueueJob, AbandonCreate, storeVars
  <2>3. ASSUME NEW i \in Jobs,
               StartAttempt(i) \/ AttemptStep(i) \/ InfraError(i) \/ HandlerError(i)
                 \/ KillHorse(i) \/ PromoteRetry(i)
        PROVE  row'[j] = "failed" /\ pdf'[j] = pdf[j]
    <3>1. CASE StartRow(i) \/ FinishRow(i) \/ FailRow(i)
      BY <2>1, <3>1 DEF StartRow, FinishRow, FailRow, SetRow, IInv, TypeOK
    <3>2. CASE OpenPdf(i) \/ BuildPdf(i)
      BY <2>1, <3>2 DEF OpenPdf, BuildPdf, IInv, TypeOK
    <3>3. CASE UNCHANGED <<row, pdf>>
      BY <3>3
    <3>4. StartRow(i) \/ FinishRow(i) \/ FailRow(i) \/ OpenPdf(i) \/ BuildPdf(i)
            \/ UNCHANGED <<row, pdf>>
      BY <2>3 DEF StartAttempt, AttemptStep, InfraError, HandlerError, KillHorse,
         PromoteRetry, PublishStarted, PublishFinished, CompleteAttempt, RowUpdateRaises,
         PublishQueued, FailRowRaises, PublishFailed, SendAlert, FailAttempt, storeVars
    <3>5. QED
      BY <3>1, <3>2, <3>3, <3>4
  <2>4. QED
    BY <2>2, <2>3 DEF Next
<1>2. QED
  BY <1>1, ReportSafety, PTL DEF Spec, FailedRowIsFinal

=============================================================================
