-------------------------- MODULE EnrichmentProofs --------------------------
(***************************************************************************)
(* Theorems about Enrichment for every number of leads, jobs, requests,    *)
(* workers and retries and every set of faults, unless a theorem names the *)
(* faults it excludes.                                                     *)
(***************************************************************************)
EXTENDS Enrichment, TLAPS

\* The state predicates and sets that say where a process is.
USE DEF RowStatus, LeadStatus, HashStatus, TryBeforeUpdate, TryAfterUpdate,
        WorkerPc, RequestPc, Registry, RequestState,
        IdleRequest

\* The actions as Next quantifies them, so that a proof that every step keeps
\* an invariant is a proof about each of them.
StepCases ==
  \/ \E r \in Requests, l \in Leads : SubmitLead(r, l) \/ ReadForReEnrich(r, l)
  \/ \E r \in Requests : RequestStep(r) \/ AbandonCreate(r)
  \/ \E j \in Jobs : StartAttempt(j) \/ AttemptStep(j) \/ Disturbance(j)
  \/ \E j \in Jobs : PromoteRetry(j) \/ ExpireHash(j)
  \/ \E l \in Leads : DeleteLead(l) \/ ExpireActive(l)

LEMMA NextCases == Next => StepCases
  BY DEF Next, StepCases

\* The ways into the except branch.
Raises(j) == GeoExhausted(j) \/ LeadMissing(j) \/ InfraError(j)

\* An exception in the try block touches no store; retries_left decides where it
\* leads.
LEMMA Raised ==
  ASSUME NEW j \in Jobs, Raises(j)
  PROVE  /\ pc[j] \in TryBeforeUpdate \cup TryAfterUpdate
         /\ UNCHANGED <<workerFrame, storeVars>>
         /\ pc' = [pc EXCEPT ![j] = IF retriesLeft[j] > 0 THEN "requeue" ELSE "mark"]
  BY DEF Raises, GeoExhausted, LeadMissing, InfraError, Caught, Goto,
         TryBeforeUpdate, TryAfterUpdate

-----------------------------------------------------------------------------

\* Every variable keeps its type (Enrichment.TypeOK).
THEOREM Typing == Spec => []TypeOK
<1>1. Init => TypeOK
  BY RqAssumption DEF Init, RqInit, TypeOK, RqTypeOK
<1>2. TypeOK /\ [Next]_vars => TypeOK'
  <2> SUFFICES ASSUME TypeOK, [Next]_vars PROVE TypeOK'
    OBVIOUS
  <2> USE RqAssumption DEF TypeOK, RqTypeOK
  <2>1. ASSUME NEW r \in Requests, NEW l \in Leads,
               SubmitLead(r, l) \/ ReadForReEnrich(r, l)
        PROVE  TypeOK'
    BY <2>1 DEF SubmitLead, ReadForReEnrich, apiFrame, storeVars
  <2>2. ASSUME NEW r \in Requests, RequestStep(r) \/ AbandonCreate(r)
        PROVE  TypeOK'
    <3>1. CASE RefuseReEnrich(r) \/ AdmitReEnrich(r) \/ AbandonCreate(r)
      BY <3>1 DEF RefuseReEnrich, AdmitReEnrich, AbandonCreate, apiFrame, storeVars
    <3>2. CASE CreateJobHash(r)
      <4>1. PICK j \in Jobs :
              /\ leadOf' = [leadOf EXCEPT ![j] = req[r].lead]
              /\ hash' = [hash EXCEPT ![j] = "queued"]
              /\ req' = [req EXCEPT ![r] =
                           [@ EXCEPT !.pc = "enqueue", !.job = j]]
        BY <3>2 DEF CreateJobHash
      <4>2. UNCHANGED <<rq, retriesLeft, db, pc, lead, geo, active>>
        BY <3>2 DEF CreateJobHash, apiFrame
      <4>3. leadOf' \in [Jobs -> Leads \cup {NoLead}]
        BY <4>1
      <4>4. hash' \in [Jobs -> HashStatus]
        BY <4>1
      <4>5. req' \in [Requests -> RequestState]
        <5>1. req[r] \in RequestState
          OBVIOUS
        <5>2. [req[r] EXCEPT !.pc = "enqueue"] \in RequestState
          BY <5>1
        <5>3. [[req[r] EXCEPT !.pc = "enqueue"] EXCEPT !.job = j] \in RequestState
          BY <5>2
        <5>4. QED
          BY <4>1, <5>3
      <4>6. QED
        BY <4>2, <4>3, <4>4, <4>5
    <3>3. CASE EnqueueJob(r)
      <4>1. rq' \in [Jobs -> Registry]
        BY <3>3 DEF EnqueueJob, RqEnqueue
      <4>2. req' \in [Requests -> RequestState]
        BY <3>3 DEF EnqueueJob
      <4>3. UNCHANGED <<retriesLeft, db, storeVars, leadOf, pc>>
        BY <3>3 DEF EnqueueJob, RqEnqueue
      <4>4. QED
        BY <4>1, <4>2, <4>3 DEF storeVars
    <3>4. CASE SetActive(r)
      BY <3>4 DEF SetActive, apiFrame
    <3>5. QED
      BY <2>2, <3>1, <3>2, <3>3, <3>4 DEF RequestStep
  <2>3. ASSUME NEW j \in Jobs, StartAttempt(j) \/ AttemptStep(j) \/ Disturbance(j)
        PROVE  TypeOK'
    <3> USE DEF workerFrame, storeVars, Goto, Visible
    <3>1. CASE StartAttempt(j)
      BY <3>1 DEF StartAttempt, RqDequeue
    <3>0. CASE Raises(j)
      BY <3>0, Raised
    <3>2. CASE AttemptStep(j)
      <4>1. CASE PublishStarted(j) \/ ReadLead(j) \/ GeoFound(j)
                   \/ WriteEnriched(j) \/ ClearActive(j)
        BY <4>1, ZenonT(30) DEF PublishStarted, ReadLead, GeoFound, WriteEnriched, ClearActive
      <4>2. CASE PublishFinished(j) \/ PublishQueued(j) \/ MarkFailed(j)
                   \/ DropActive(j) \/ PublishFailed(j)
        BY <4>2 DEF PublishFinished, PublishQueued, MarkFailed, DropActive,
                    PublishFailed
      <4>3. CASE CompleteAttempt(j) \/ FailAttempt(j)
        BY <4>3 DEF CompleteAttempt, RqSucceed, FailAttempt, RqHandleFailure
      <4>4. QED
        BY <3>2, <3>0, <4>1, <4>2, <4>3 DEF AttemptStep, Raises
    <3>3. CASE HandlerError(j) \/ MarkSwallowed(j)
      BY <3>3 DEF HandlerError, MarkSwallowed
    <3>4. CASE KillHorse(j)
      BY <3>4 DEF KillHorse, RqHandleFailure
    <3>5. QED
      BY <2>3, <3>1, <3>2, <3>3, <3>4, <3>0 DEF Disturbance, Raises
  <2>4. ASSUME NEW j \in Jobs, PromoteRetry(j) \/ ExpireHash(j)
        PROVE  TypeOK'
    BY <2>4 DEF PromoteRetry, RqPromote, ExpireHash, storeVars, rqVars
  <2>5. ASSUME NEW l \in Leads, DeleteLead(l) \/ ExpireActive(l)
        PROVE  TypeOK'
    BY <2>5 DEF DeleteLead, ExpireActive, apiFrame, rqVars
  <2>6. CASE UNCHANGED vars
    BY <2>6 DEF vars
  <2>7. QED
    BY <2>1, <2>2, <2>3, <2>4, <2>5, <2>6, NextCases DEF StepCases
<1>3. QED
  BY <1>1, <1>2, PTL DEF Spec

-----------------------------------------------------------------------------

jobVars == <<rq, retriesLeft, leadOf, hash, pc, db>>

\* The steps that leave every job alone.
LEMMA QuietSteps ==
  ASSUME NEW r \in Requests, NEW l \in Leads,
         \/ SubmitLead(r, l) \/ ReadForReEnrich(r, l) \/ RefuseReEnrich(r)
         \/ AdmitReEnrich(r) \/ SetActive(r) \/ AbandonCreate(r)
         \/ DeleteLead(l) \/ ExpireActive(l)
  PROVE  UNCHANGED jobVars
BY DEF SubmitLead, ReadForReEnrich, RefuseReEnrich, AdmitReEnrich, SetActive,
       AbandonCreate, DeleteLead, ExpireActive, apiFrame, storeVars, rqVars, jobVars

\* Every step keeps JobInv.
LEMMA JobStep ==
  ASSUME TypeOK, JobInv, RequestInv, [Next]_vars
  PROVE  JobInv'
<1> USE EnrichmentAssumption DEF JobInv, TypeOK, RqTypeOK
<1>0. ASSUME UNCHANGED jobVars PROVE JobInv'
  BY <1>0 DEF jobVars
<1>1. ASSUME NEW r \in Requests, NEW l \in Leads,
             SubmitLead(r, l) \/ ReadForReEnrich(r, l)
      PROVE  JobInv'
  BY <1>0, <1>1, QuietSteps
<1>2. ASSUME NEW r \in Requests, RequestStep(r) \/ AbandonCreate(r)
      PROVE  JobInv'
  <2>1. CASE RefuseReEnrich(r) \/ AdmitReEnrich(r) \/ SetActive(r) \/ AbandonCreate(r)
    BY <2>1, <1>0 DEF RefuseReEnrich, AdmitReEnrich, SetActive, AbandonCreate,
                      apiFrame, storeVars, jobVars
  <2>2. CASE CreateJobHash(r)
    BY <2>2 DEF CreateJobHash, apiFrame, RequestInv
  <2>3. CASE EnqueueJob(r)
    BY <2>3 DEF EnqueueJob, RqEnqueue, storeVars, RequestInv
  <2>4. QED
    BY <1>2, <2>1, <2>2, <2>3 DEF RequestStep
<1>3. ASSUME NEW j \in Jobs, StartAttempt(j) \/ AttemptStep(j) \/ Disturbance(j)
      PROVE  JobInv'
  <2> USE DEF workerFrame, storeVars, Goto, Visible
  <2>1. CASE StartAttempt(j)
    BY <2>1 DEF StartAttempt, RqDequeue
  <2>0. CASE Raises(j)
    BY <2>0, Raised
  <2>2. CASE AttemptStep(j)
    <3>1. CASE PublishStarted(j) \/ ReadLead(j) \/ GeoFound(j)
                 \/ WriteEnriched(j) \/ ClearActive(j)
      BY <3>1 DEF PublishStarted, ReadLead, GeoFound, WriteEnriched, ClearActive
    <3>2. CASE PublishFinished(j) \/ PublishQueued(j) \/ MarkFailed(j)
                 \/ DropActive(j) \/ PublishFailed(j)
      BY <3>2 DEF PublishFinished, PublishQueued, MarkFailed, DropActive,
                  PublishFailed
    <3>3. CASE CompleteAttempt(j) \/ FailAttempt(j)
      BY <3>3 DEF CompleteAttempt, RqSucceed, FailAttempt, RqHandleFailure
    <3>4. QED
      BY <2>2, <2>0, <3>1, <3>2, <3>3 DEF AttemptStep, Raises
  <2>3. CASE HandlerError(j) \/ MarkSwallowed(j)
    BY <2>3 DEF HandlerError, MarkSwallowed
  <2>4. CASE KillHorse(j)
    BY <2>4 DEF KillHorse, RqHandleFailure
  <2>5. QED
    BY <1>3, <2>1, <2>2, <2>3, <2>4, <2>0 DEF Disturbance, Raises
<1>4. ASSUME NEW j \in Jobs, PromoteRetry(j) \/ ExpireHash(j)
      PROVE  JobInv'
  BY <1>4 DEF PromoteRetry, RqPromote, ExpireHash, storeVars, rqVars
<1>5. ASSUME NEW l \in Leads, DeleteLead(l) \/ ExpireActive(l)
      PROVE  JobInv'
  BY <1>5, <1>0 DEF DeleteLead, ExpireActive, apiFrame, rqVars, jobVars
<1>6. CASE UNCHANGED vars
  BY <1>6, <1>0 DEF vars, jobVars
<1>7. QED
  BY <1>1, <1>2, <1>3, <1>4, <1>5, <1>6, NextCases DEF StepCases

\* Every step keeps RequestInv: a job id, once drawn, is never drawn again.
LEMMA RequestInvStep ==
  ASSUME TypeOK, RequestInv, [Next]_vars
  PROVE  RequestInv'
<1> USE EnrichmentAssumption DEF RequestInv, TypeOK, RqTypeOK
<1>0. ASSUME UNCHANGED <<leadOf, req>> PROVE RequestInv'
  BY <1>0
<1>1. ASSUME NEW r \in Requests, NEW l \in Leads,
             SubmitLead(r, l) \/ ReadForReEnrich(r, l)
      PROVE  RequestInv'
  BY <1>1 DEF SubmitLead, ReadForReEnrich, apiFrame, storeVars
<1>2. ASSUME NEW r \in Requests, RequestStep(r) \/ AbandonCreate(r)
      PROVE  RequestInv'
  <2>1. CASE RefuseReEnrich(r) \/ AdmitReEnrich(r) \/ SetActive(r) \/ AbandonCreate(r)
    BY <2>1 DEF RefuseReEnrich, AdmitReEnrich, SetActive, AbandonCreate, storeVars
  <2>2. CASE CreateJobHash(r)
    BY <2>2 DEF CreateJobHash
  <2>3. CASE EnqueueJob(r)
    BY <2>3 DEF EnqueueJob
  <2>4. QED
    BY <1>2, <2>1, <2>2, <2>3 DEF RequestStep
<1>3. ASSUME NEW j \in Jobs, StartAttempt(j) \/ AttemptStep(j) \/ Disturbance(j)
      PROVE  RequestInv'
  BY <1>3, <1>0 DEF StartAttempt, AttemptStep, Disturbance, workerFrame,
       PublishStarted, ReadLead, GeoFound, GeoExhausted, LeadMissing,
       WriteEnriched,
       ClearActive, PublishFinished, PublishQueued, MarkFailed, DropActive,
       PublishFailed, CompleteAttempt, FailAttempt, InfraError, MarkSwallowed,
       HandlerError, KillHorse
<1>4. ASSUME NEW j \in Jobs, PromoteRetry(j) \/ ExpireHash(j)
      PROVE  RequestInv'
  BY <1>4, <1>0 DEF PromoteRetry, ExpireHash
<1>5. ASSUME NEW l \in Leads, DeleteLead(l) \/ ExpireActive(l)
      PROVE  RequestInv'
  BY <1>5, <1>0 DEF DeleteLead, ExpireActive
<1>6. CASE UNCHANGED vars
  BY <1>6, <1>0 DEF vars
<1>7. QED
  BY <1>1, <1>2, <1>3, <1>4, <1>5, <1>6, NextCases DEF StepCases

\* Every step keeps GeoInv: MarkFailed and the late failures change a status and
\* never the geo columns.
LEMMA GeoStep ==
  ASSUME TypeOK, JobInv, RequestInv, GeoInv, [Next]_vars
  PROVE  GeoInv'
<1> USE EnrichmentAssumption DEF GeoInv, GeoOrDeleted, TypeOK, RqTypeOK
<1>0. \A j \in Jobs : pc[j] # "idle" \/ hash[j] # "none" => leadOf[j] \in Leads
  BY DEF JobInv
<1>1. ASSUME NEW r \in Requests, NEW l \in Leads,
             SubmitLead(r, l) \/ ReadForReEnrich(r, l)
      PROVE  GeoInv'
  BY <1>0, <1>1 DEF SubmitLead, ReadForReEnrich, apiFrame, storeVars
<1>2. ASSUME NEW r \in Requests, RequestStep(r) \/ AbandonCreate(r)
      PROVE  GeoInv'
  <2>1. CASE RefuseReEnrich(r) \/ AdmitReEnrich(r) \/ SetActive(r) \/ AbandonCreate(r)
    BY <2>1 DEF RefuseReEnrich, AdmitReEnrich, SetActive, AbandonCreate, apiFrame,
                storeVars
  <2>2. CASE CreateJobHash(r)
    BY <1>0, <2>2 DEF CreateJobHash, apiFrame, RequestInv
  <2>3. CASE EnqueueJob(r)
    BY <2>3 DEF EnqueueJob, storeVars
  <2>4. QED
    BY <1>2, <2>1, <2>2, <2>3 DEF RequestStep
<1>3. ASSUME NEW j \in Jobs, StartAttempt(j) \/ AttemptStep(j) \/ Disturbance(j)
      PROVE  GeoInv'
  <2> USE <1>0 DEF workerFrame, storeVars, Goto, Visible
  <2>1. CASE StartAttempt(j)
    BY <2>1 DEF StartAttempt
  <2>0. CASE Raises(j)
    BY <2>0, Raised
  <2>2. CASE AttemptStep(j)
    <3>1. CASE PublishStarted(j) \/ ReadLead(j) \/ GeoFound(j)
      BY <3>1 DEF PublishStarted, ReadLead, GeoFound
    <3>2. CASE WriteEnriched(j) \/ MarkFailed(j)
      BY <3>2 DEF WriteEnriched, MarkFailed
    <3>3. CASE ClearActive(j) \/ PublishFinished(j) \/ PublishQueued(j)
                 \/ DropActive(j) \/ PublishFailed(j)
      BY <3>3 DEF ClearActive, PublishFinished, PublishQueued, DropActive,
                  PublishFailed
    <3>4. CASE CompleteAttempt(j) \/ FailAttempt(j)
      BY <3>4 DEF CompleteAttempt, FailAttempt
    <3>5. QED
      BY <2>2, <2>0, <3>1, <3>2, <3>3, <3>4 DEF AttemptStep, Raises
  <2>3. CASE Disturbance(j)
    BY <2>3, <2>0 DEF Disturbance, Raises, MarkSwallowed, HandlerError,
       KillHorse
  <2>4. QED
    BY <1>3, <2>1, <2>2, <2>3
<1>4. ASSUME NEW j \in Jobs, PromoteRetry(j) \/ ExpireHash(j)
      PROVE  GeoInv'
  BY <1>4 DEF PromoteRetry, ExpireHash, storeVars
<1>5. ASSUME NEW l \in Leads, DeleteLead(l) \/ ExpireActive(l)
      PROVE  GeoInv'
  BY <1>5, <1>0 DEF DeleteLead, ExpireActive, apiFrame
<1>6. CASE UNCHANGED vars
  BY <1>6 DEF vars
<1>7. QED
  BY <1>1, <1>2, <1>3, <1>4, <1>5, <1>6, NextCases DEF StepCases

-----------------------------------------------------------------------------

\* A job that has used up its retries and records its failure never gets
\* another attempt, and its lead stays the one it was created for.
LEMMA ExhaustedForEver ==
  ASSUME TypeOK, JobInv, [Next]_vars,
         NEW k \in Jobs, leadOf[k] \in Leads, Exhausted(k)
  PROVE  Exhausted(k)' /\ leadOf'[k] = leadOf[k]
<1> USE EnrichmentAssumption DEF TypeOK, RqTypeOK, Exhausted
<1>0. ASSUME UNCHANGED jobVars PROVE Exhausted(k)' /\ leadOf'[k] = leadOf[k]
  BY <1>0 DEF jobVars
<1>1. ASSUME NEW r \in Requests, NEW l \in Leads,
             SubmitLead(r, l) \/ ReadForReEnrich(r, l)
      PROVE  Exhausted(k)' /\ leadOf'[k] = leadOf[k]
  BY <1>0, <1>1, QuietSteps
<1>2. ASSUME NEW r \in Requests, RequestStep(r) \/ AbandonCreate(r)
      PROVE  Exhausted(k)' /\ leadOf'[k] = leadOf[k]
  <2>1. CASE RefuseReEnrich(r) \/ AdmitReEnrich(r) \/ SetActive(r) \/ AbandonCreate(r)
    BY <2>1, <1>0 DEF RefuseReEnrich, AdmitReEnrich, SetActive, AbandonCreate,
                      apiFrame, storeVars, jobVars
  <2>2. CASE CreateJobHash(r)
    BY <2>2 DEF CreateJobHash, apiFrame
  <2>3. CASE EnqueueJob(r)
    BY <2>3 DEF EnqueueJob, RqEnqueue
  <2>4. QED
    BY <1>2, <2>1, <2>2, <2>3 DEF RequestStep
<1>3. ASSUME NEW j \in Jobs, StartAttempt(j) \/ AttemptStep(j) \/ Disturbance(j)
      PROVE  Exhausted(k)' /\ leadOf'[k] = leadOf[k]
  <2> USE DEF workerFrame, Goto, Visible
  <2>1. CASE StartAttempt(j)
    BY <2>1 DEF StartAttempt, RqDequeue
  <2>2. CASE PublishStarted(j) \/ ReadLead(j) \/ GeoFound(j)
               \/ WriteEnriched(j) \/ ClearActive(j)
               \/ PublishFinished(j) \/ PublishQueued(j) \/ MarkFailed(j)
               \/ MarkSwallowed(j) \/ DropActive(j) \/ PublishFailed(j)
    BY <2>2 DEF PublishStarted, ReadLead, GeoFound,
                WriteEnriched, ClearActive, PublishFinished, PublishQueued,
                MarkFailed, MarkSwallowed, DropActive, PublishFailed
  <2>3. CASE CompleteAttempt(j)
    BY <2>3 DEF CompleteAttempt, RqSucceed
  <2>4. CASE FailAttempt(j) \/ KillHorse(j)
    BY <2>4 DEF FailAttempt, KillHorse, RqHandleFailure
  <2>5. CASE HandlerError(j)
    BY <2>5 DEF HandlerError
  <2>7. CASE Raises(j)
    BY <2>7, Raised
  <2>8. QED
    BY <1>3, <2>1, <2>2, <2>3, <2>4, <2>5, <2>7 DEF AttemptStep, Disturbance, Raises
<1>4. ASSUME NEW j \in Jobs, PromoteRetry(j) \/ ExpireHash(j)
      PROVE  Exhausted(k)' /\ leadOf'[k] = leadOf[k]
  BY <1>4 DEF PromoteRetry, RqPromote, ExpireHash, rqVars
<1>5. ASSUME NEW l \in Leads, DeleteLead(l) \/ ExpireActive(l)
      PROVE  Exhausted(k)' /\ leadOf'[k] = leadOf[k]
  BY <1>0, <1>5 DEF DeleteLead, ExpireActive, apiFrame, rqVars, jobVars
<1>6. CASE UNCHANGED vars
  BY <1>6, <1>0 DEF vars, jobVars
<1>7. QED
  BY <1>1, <1>2, <1>3, <1>4, <1>5, <1>6, NextCases DEF StepCases

\* Only the final failure of one of its own jobs turns a lead to failed.
LEMMA FailedByMark ==
  ASSUME TypeOK, [Next]_vars, NEW l \in Leads, lead'[l] = "failed"
  PROVE  lead[l] = "failed" \/ \E j \in Jobs : MarkFailed(j) /\ leadOf[j] = l
<1> DEFINE Goal == lead[l] = "failed" \/ \E j \in Jobs : MarkFailed(j) /\ leadOf[j] = l
<1> USE DEF TypeOK
<1>1. ASSUME NEW r \in Requests, NEW m \in Leads,
             SubmitLead(r, m) \/ ReadForReEnrich(r, m)
      PROVE  Goal
  BY <1>1 DEF SubmitLead, ReadForReEnrich, storeVars
<1>2. ASSUME NEW r \in Requests, RequestStep(r) \/ AbandonCreate(r)
      PROVE  Goal
  BY <1>2 DEF RequestStep, RefuseReEnrich, AdmitReEnrich, SetActive, AbandonCreate,
              CreateJobHash, EnqueueJob, storeVars
<1>3. ASSUME NEW j \in Jobs, StartAttempt(j) \/ AttemptStep(j) \/ Disturbance(j)
      PROVE  Goal
  <2>1. CASE MarkFailed(j)
    BY <2>1 DEF MarkFailed
  <2>2. CASE WriteEnriched(j)
    BY <2>2 DEF WriteEnriched
  <2>3. CASE UNCHANGED lead
    BY <2>3
  <2>4. QED
    BY <1>3, <2>1, <2>2, <2>3 DEF StartAttempt, AttemptStep, Disturbance, storeVars,
       PublishStarted, ReadLead, GeoFound, GeoExhausted, LeadMissing,
       ClearActive, PublishFinished, PublishQueued, DropActive,
       PublishFailed, CompleteAttempt, FailAttempt, InfraError, MarkSwallowed,
       HandlerError, KillHorse
<1>4. ASSUME NEW j \in Jobs, PromoteRetry(j) \/ ExpireHash(j)
      PROVE  Goal
  BY <1>4 DEF PromoteRetry, ExpireHash, storeVars
<1>5. ASSUME NEW m \in Leads, DeleteLead(m) \/ ExpireActive(m)
      PROVE  Goal
  BY <1>5 DEF DeleteLead, ExpireActive
<1>6. CASE UNCHANGED vars
  BY <1>6 DEF vars
<1>7. QED
  BY <1>1, <1>2, <1>3, <1>4, <1>5, <1>6, NextCases DEF StepCases

\* Every step keeps FailedOnlyWhenExhausted.
LEMMA FailedStep ==
  ASSUME TypeOK, JobInv, FailedOnlyWhenExhausted, [Next]_vars
  PROVE  FailedOnlyWhenExhausted'
<1> SUFFICES ASSUME NEW l \in Leads, lead'[l] = "failed"
             PROVE  \E j \in Jobs : leadOf'[j] = l /\ Exhausted(j)'
  BY DEF FailedOnlyWhenExhausted
<1>1. CASE lead[l] = "failed"
  <2>1. PICK j \in Jobs : leadOf[j] = l /\ Exhausted(j)
    BY <1>1 DEF FailedOnlyWhenExhausted
  <2>2. Exhausted(j)' /\ leadOf'[j] = leadOf[j]
    BY <2>1, ExhaustedForEver
  <2>3. QED
    BY <2>1, <2>2
<1>2. ASSUME NEW j \in Jobs, MarkFailed(j), leadOf[j] = l
      PROVE  leadOf'[j] = l /\ Exhausted(j)'
  BY <1>2 DEF MarkFailed, workerFrame, Goto, Exhausted, JobInv, TypeOK
<1>3. QED
  BY <1>1, <1>2, FailedByMark

\* The inductive invariant behind the safety properties (Enrichment.IInv) holds
\* under every combination of faults.
THEOREM Safety == Spec => []IInv
<1>1. Init => IInv
  BY EnrichmentAssumption, RqAssumption
     DEF Init, RqInit, IInv, TypeOK, RqTypeOK, JobInv, RequestInv, GeoInv,
         FailedOnlyWhenExhausted
<1>2. TypeOK /\ TypeOK' /\ IInv /\ [Next]_vars => IInv'
  BY JobStep, RequestInvStep, GeoStep, FailedStep DEF IInv
<1>3. QED
  BY <1>1, <1>2, Typing, PTL DEF Spec

\* A lead is shown as failed only when a job of its own has used up every retry
\* (the retries_left test of run_enrichment_job against RQ's registries), for
\* any number of jobs, workers and retries and under every fault.
THEOREM FailureIsFinalWord == Spec => []FailedOnlyWhenExhausted
<1>1. IInv => FailedOnlyWhenExhausted
  BY DEF IInv
<1>2. QED
  BY <1>1, Safety, PTL

\* A finished hash means geo data on the row, or a deleted lead
\* (PublishFinished follows the update or the already_enriched shortcut).
THEOREM FinishedMeansGeo == Spec => []FinishedHasGeo
<1>1. IInv => FinishedHasGeo
  BY DEF IInv, GeoInv, GeoOrDeleted, FinishedHasGeo
<1>2. QED
  BY <1>1, Safety, PTL

\* A hash that says failed never says anything else again until it expires: RQ
\* never gives the job another attempt (update_enrichment_job).
THEOREM FailedHashIsFinal == Spec => FailedIsFinal
<1> DEFINE Step == \A j \in Jobs : hash[j] = "failed" => hash'[j] \in {"failed", "none"}
<1>1. IInv /\ [Next]_vars => [Step]_vars
  <2> SUFFICES ASSUME IInv, Next, NEW k \in Jobs, hash[k] = "failed"
               PROVE  hash'[k] \in {"failed", "none"}
    OBVIOUS
  <2> USE EnrichmentAssumption DEF IInv, TypeOK, RqTypeOK
  <2>0. leadOf[k] \in Leads /\ pc[k] \in {"idle", "exit"}
    BY DEF JobInv
  <2>1. ASSUME NEW r \in Requests, NEW l \in Leads,
               SubmitLead(r, l) \/ ReadForReEnrich(r, l)
        PROVE  hash'[k] \in {"failed", "none"}
    BY <2>1 DEF SubmitLead, ReadForReEnrich, storeVars
  <2>2. ASSUME NEW r \in Requests, RequestStep(r) \/ AbandonCreate(r)
        PROVE  hash'[k] \in {"failed", "none"}
    <3>1. CASE CreateJobHash(r)
      BY <2>0, <3>1 DEF CreateJobHash
    <3>2. CASE UNCHANGED hash
      BY <3>2
    <3>3. QED
      BY <2>2, <3>1, <3>2 DEF RequestStep, RefuseReEnrich, AdmitReEnrich, SetActive,
         AbandonCreate, EnqueueJob, storeVars
  <2>3. ASSUME NEW j \in Jobs, StartAttempt(j) \/ AttemptStep(j) \/ Disturbance(j)
        PROVE  hash'[k] \in {"failed", "none"}
    BY <2>0, <2>3 DEF StartAttempt, AttemptStep, Disturbance, storeVars,
       PublishStarted, ReadLead, GeoFound, GeoExhausted, LeadMissing,
       WriteEnriched,
       ClearActive, PublishFinished, PublishQueued, MarkFailed, DropActive,
       PublishFailed, CompleteAttempt, FailAttempt, InfraError, MarkSwallowed,
       HandlerError, KillHorse
  <2>4. ASSUME NEW j \in Jobs, PromoteRetry(j) \/ ExpireHash(j)
        PROVE  hash'[k] \in {"failed", "none"}
    BY <2>4 DEF PromoteRetry, ExpireHash, storeVars
  <2>5. ASSUME NEW l \in Leads, DeleteLead(l) \/ ExpireActive(l)
        PROVE  hash'[k] \in {"failed", "none"}
    BY <2>5 DEF DeleteLead, ExpireActive
  <2>6. QED
    BY <2>1, <2>2, <2>3, <2>4, <2>5, NextCases DEF StepCases
<1>2. QED
  BY <1>1, Safety, PTL DEF Spec, FailedIsFinal

-----------------------------------------------------------------------------
(* No lead is left behind, as long as nothing fails outside the try block, *)
(* the last attempt is not killed and creating a job never stops half-way. *)

NothingStrandsLeads ==
  /\ Faults \cap {"handler", "killLast", "api"} = {}
  /\ Backends \subseteq {"shared"}

\* A job that carries a lead carries it until the lead is no longer pending.
LEMMA CarrierStep ==
  ASSUME NothingStrandsLeads, TypeOK, JobInv, [Next]_vars,
         NEW l \in Leads, lead'[l] = "pending",
         NEW k \in Jobs, Carries(k, l)
  PROVE  Carries(k, l)'
<1> USE EnrichmentAssumption DEF TypeOK, RqTypeOK, Carries, Live
<1>0. ASSUME UNCHANGED jobVars PROVE Carries(k, l)'
  BY <1>0 DEF jobVars
<1>1. ASSUME NEW r \in Requests, NEW m \in Leads,
             SubmitLead(r, m) \/ ReadForReEnrich(r, m)
      PROVE  Carries(k, l)'
  BY <1>0, <1>1, QuietSteps
<1>2. ASSUME NEW r \in Requests, RequestStep(r) \/ AbandonCreate(r)
      PROVE  Carries(k, l)'
  <2>1. CASE RefuseReEnrich(r) \/ AdmitReEnrich(r) \/ SetActive(r) \/ AbandonCreate(r)
    BY <2>1, <1>0 DEF RefuseReEnrich, AdmitReEnrich, SetActive, AbandonCreate,
                      apiFrame, storeVars, jobVars
  <2>2. CASE CreateJobHash(r)
    BY <2>2 DEF CreateJobHash, apiFrame
  <2>3. CASE EnqueueJob(r)
    BY <2>3 DEF EnqueueJob, RqEnqueue
  <2>4. QED
    BY <1>2, <2>1, <2>2, <2>3 DEF RequestStep
<1>3. ASSUME NEW j \in Jobs, StartAttempt(j) \/ AttemptStep(j) \/ Disturbance(j)
      PROVE  Carries(k, l)'
  <2> USE DEF workerFrame, Goto, Visible
  <2>1. CASE StartAttempt(j)
    BY <2>1 DEF StartAttempt, RqDequeue
  <2>2. CASE PublishStarted(j) \/ GeoFound(j)
               \/ ClearActive(j) \/ PublishFinished(j) \/ DropActive(j)
               \/ PublishFailed(j)
    BY <2>2 DEF PublishStarted, GeoFound, ClearActive,
                PublishFinished, DropActive, PublishFailed
  <2>3. CASE ReadLead(j) \/ WriteEnriched(j) \/ MarkFailed(j) \/ MarkSwallowed(j)
    BY <2>3 DEF ReadLead, WriteEnriched, MarkFailed, MarkSwallowed, storeVars,
                NothingStrandsLeads, JobInv
  <2>4. CASE PublishQueued(j)
    BY <2>4 DEF PublishQueued, JobInv
  <2>5. CASE CompleteAttempt(j)
    BY <2>5 DEF CompleteAttempt, RqSucceed
  <2>6. CASE FailAttempt(j) \/ KillHorse(j)
    BY <2>6 DEF FailAttempt, KillHorse, RqHandleFailure, NothingStrandsLeads
  <2>7. CASE HandlerError(j)
    BY <2>7 DEF HandlerError, NothingStrandsLeads
  <2>8. CASE Raises(j)
    BY <2>8, Raised DEF NothingStrandsLeads
  <2>9. QED
    BY <1>3, <2>1, <2>2, <2>3, <2>4, <2>5, <2>6, <2>7, <2>8
       DEF AttemptStep, Disturbance, Raises
<1>4. ASSUME NEW j \in Jobs, PromoteRetry(j) \/ ExpireHash(j)
      PROVE  Carries(k, l)'
  BY <1>4 DEF PromoteRetry, RqPromote, ExpireHash, rqVars
<1>5. ASSUME NEW m \in Leads, DeleteLead(m) \/ ExpireActive(m)
      PROVE  Carries(k, l)'
  BY <1>0, <1>5 DEF DeleteLead, ExpireActive, apiFrame, rqVars, jobVars
<1>6. CASE UNCHANGED vars
  BY <1>6, <1>0 DEF vars, jobVars
<1>7. QED
  BY <1>1, <1>2, <1>3, <1>4, <1>5, <1>6, NextCases DEF StepCases

\* An admitted request carries its lead until it hands it to the job it enqueues.
LEMMA HandOver ==
  ASSUME NothingStrandsLeads, TypeOK, JobInv, RequestInv, [Next]_vars,
         NEW l \in Leads,
         NEW q \in Requests, req[q].lead = l, Admitted(q)
  PROVE  \/ req'[q].lead = l /\ Admitted(q)'
         \/ \E k \in Jobs : Carries(k, l)'
<1> DEFINE Goal == \/ req'[q].lead = l /\ Admitted(q)'
                   \/ \E k \in Jobs : Carries(k, l)'
<1> USE DEF TypeOK, RqTypeOK, Admitted
<1>0. ASSUME UNCHANGED req PROVE Goal
  BY <1>0
<1>1. ASSUME NEW r \in Requests, NEW m \in Leads,
             SubmitLead(r, m) \/ ReadForReEnrich(r, m)
      PROVE  Goal
  BY <1>1 DEF SubmitLead, ReadForReEnrich
<1>2. ASSUME NEW r \in Requests, RequestStep(r) \/ AbandonCreate(r)
      PROVE  Goal
  <2>1. CASE RefuseReEnrich(r) \/ AdmitReEnrich(r) \/ SetActive(r)
    BY <2>1 DEF RefuseReEnrich, AdmitReEnrich, SetActive
  <2>2. CASE CreateJobHash(r)
    BY <2>2 DEF CreateJobHash
  <2>3. CASE EnqueueJob(r)
    <3>1. CASE r # q
      BY <2>3, <3>1 DEF EnqueueJob
    <3>2. CASE r = q
      <4>1. PICK k \in Jobs : k = req[q].job /\ leadOf[k] = l /\ pc[k] = "idle"
        <5>1. req[q].pc = "enqueue" /\ rq[req[q].job] = "none"
          BY <2>3, <3>2 DEF EnqueueJob, RqEnqueue
        <5>2. req[q].job \in Jobs /\ leadOf[req[q].job] = l
          BY <5>1 DEF RequestInv
        <5>3. QED
          BY <5>1, <5>2 DEF JobInv
      <4>2. rq'[k] = "queued" /\ leadOf'[k] = l /\ pc'[k] = "idle"
        <5>1. rq' = [rq EXCEPT ![k] = "queued"] /\ UNCHANGED <<leadOf, pc>>
          BY <2>3, <3>2, <4>1 DEF EnqueueJob, RqEnqueue
        <5>2. QED
          BY <4>1, <5>1
      <4>3. Carries(k, l)'
        BY <4>2 DEF Carries, Live
      <4>4. QED
        BY <4>3
    <3>3. QED
      BY <3>1, <3>2
  <2>4. CASE AbandonCreate(r)
    BY <2>4 DEF AbandonCreate, NothingStrandsLeads
  <2>5. QED
    BY <1>2, <2>1, <2>2, <2>3, <2>4 DEF RequestStep
<1>3. ASSUME NEW j \in Jobs, StartAttempt(j) \/ AttemptStep(j) \/ Disturbance(j)
      PROVE  Goal
  <2>1. UNCHANGED req
    BY <1>3 DEF StartAttempt, AttemptStep, Disturbance, workerFrame,
       PublishStarted, ReadLead, GeoFound, GeoExhausted, LeadMissing,
       WriteEnriched,
       ClearActive, PublishFinished, PublishQueued, MarkFailed, DropActive,
       PublishFailed, CompleteAttempt, FailAttempt, InfraError, MarkSwallowed,
       HandlerError, KillHorse
  <2>2. QED
    BY <2>1, <1>0
<1>4. ASSUME NEW j \in Jobs, PromoteRetry(j) \/ ExpireHash(j)
      PROVE  Goal
  BY <1>4, <1>0 DEF PromoteRetry, ExpireHash
<1>5. ASSUME NEW m \in Leads, DeleteLead(m) \/ ExpireActive(m)
      PROVE  Goal
  BY <1>5, <1>0 DEF DeleteLead, ExpireActive
<1>6. CASE UNCHANGED vars
  BY <1>6, <1>0 DEF vars
<1>7. QED
  BY <1>1, <1>2, <1>3, <1>4, <1>5, <1>6, NextCases DEF StepCases

\* A lead becomes pending only by being submitted, and its request carries it.
LEMMA PendingBySubmit ==
  ASSUME TypeOK, [Next]_vars, NEW l \in Leads, lead'[l] = "pending"
  PROVE  \/ lead[l] = "pending"
         \/ \E r \in Requests : req'[r].lead = l /\ Admitted(r)'
<1> DEFINE Goal == \/ lead[l] = "pending"
                   \/ \E r \in Requests : req'[r].lead = l /\ Admitted(r)'
<1> USE DEF TypeOK
<1>1. ASSUME NEW r \in Requests, NEW m \in Leads,
             SubmitLead(r, m) \/ ReadForReEnrich(r, m)
      PROVE  Goal
  BY <1>1 DEF SubmitLead, ReadForReEnrich, storeVars, Admitted
<1>2. ASSUME NEW r \in Requests, RequestStep(r) \/ AbandonCreate(r)
      PROVE  Goal
  <2>1. UNCHANGED lead
    BY <1>2 DEF RequestStep, RefuseReEnrich, AdmitReEnrich, SetActive, AbandonCreate,
                CreateJobHash, EnqueueJob, storeVars
  <2>2. QED
    BY <2>1
<1>3. ASSUME NEW j \in Jobs, StartAttempt(j) \/ AttemptStep(j) \/ Disturbance(j)
      PROVE  Goal
  <2>1. CASE MarkFailed(j) \/ WriteEnriched(j)
    BY <2>1 DEF MarkFailed, WriteEnriched
  <2>2. CASE UNCHANGED lead
    BY <2>2
  <2>3. QED
    BY <1>3, <2>1, <2>2 DEF StartAttempt, AttemptStep, Disturbance, storeVars,
       PublishStarted, ReadLead, GeoFound, GeoExhausted, LeadMissing,
       ClearActive, PublishFinished, PublishQueued, DropActive,
       PublishFailed, CompleteAttempt, FailAttempt, InfraError, MarkSwallowed,
       HandlerError, KillHorse
<1>4. ASSUME NEW j \in Jobs, PromoteRetry(j) \/ ExpireHash(j)
      PROVE  Goal
  BY <1>4 DEF PromoteRetry, ExpireHash, storeVars
<1>5. ASSUME NEW m \in Leads, DeleteLead(m) \/ ExpireActive(m)
      PROVE  Goal
  BY <1>5 DEF DeleteLead, ExpireActive
<1>6. CASE UNCHANGED vars
  BY <1>6 DEF vars
<1>7. QED
  BY <1>1, <1>2, <1>3, <1>4, <1>5, <1>6, NextCases DEF StepCases

\* A pending lead always has a live job or an admitted request behind it, for any
\* number of overlapping calls, duplicate jobs, raising attempts, kills with
\* retries left and expiring keys (lead_worker.py, lead_service.py).
THEOREM NoLeadLeftBehind ==
  ASSUME NothingStrandsLeads
  PROVE  Spec => []PendingIsCarried
<1>1. Init => PendingInv
  BY DEF Init, PendingInv
<1>2. TypeOK /\ JobInv /\ RequestInv /\ PendingInv /\ [Next]_vars => PendingInv'
  <2> SUFFICES ASSUME TypeOK, JobInv, RequestInv, PendingInv, [Next]_vars,
                      NEW l \in Leads, lead'[l] = "pending"
               PROVE  \/ \E j \in Jobs : Carries(j, l)'
                      \/ \E r \in Requests : req'[r].lead = l /\ Admitted(r)'
    BY DEF PendingInv
  <2>1. CASE \E j \in Jobs : Carries(j, l)
    BY <2>1, CarrierStep
  <2>2. CASE \E r \in Requests : req[r].lead = l /\ Admitted(r)
    BY <2>2, HandOver
  <2>3. QED
    BY <2>1, <2>2, PendingBySubmit DEF PendingInv
<1>3. IInv => TypeOK /\ JobInv /\ RequestInv
  BY DEF IInv
<1>4. PendingInv => PendingIsCarried
  BY DEF PendingInv, PendingIsCarried, Carries
<1>5. QED
  BY <1>1, <1>2, <1>3, <1>4, Safety, PTL DEF Spec

=============================================================================
