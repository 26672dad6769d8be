---------------------------- MODULE AiJobsProofs ----------------------------
(***************************************************************************)
(* Theorems about AiJobs for every number of jobs, keys, workers and       *)
(* retries and every set of faults; where keys are answered alike, for one *)
(* API process.                                                            *)
(***************************************************************************)
EXTENDS AiJobs, FiniteSetTheorems, TLAPS

\* The sets that say where a store, a call or a work horse is.
USE DEF HashStatus, WorkerPc, ApiPc, Registry

Call == [pc: ApiPc, key: Keys \cup {NoKey}, job: Jobs \cup {NoJob}]

\* The part of IInv that speaks of one job.
JobInv(j) ==
  /\ WorkInv(j)
  /\ VerdictInv(j)
  /\ hash[j] = "finished" => result[j]

LEMMA InvariantByJob ==
  IInv <=> TypeOK /\ CallInv /\ AnsweredJobIsEnqueued /\ \A j \in Jobs : JobInv(j)
  BY DEF IInv, JobInv, VerdictInv, VerdictFieldsFit

\* What a step leaves alone of a job it is not about.
Untouched(i) ==
  /\ rq'[i] = rq[i] /\ retriesLeft'[i] = retriesLeft[i] /\ used'[i] = used[i]
  /\ hash'[i] = hash[i] /\ result'[i] = result[i] /\ error'[i] = error[i]
  /\ pc'[i] = pc[i]

LEMMA UntouchedKeeps ==
  ASSUME NEW i \in Jobs, JobInv(i), Untouched(i)
  PROVE  JobInv(i)'
  BY DEF JobInv, WorkInv, VerdictInv, Untouched

\* It is enough to look at the jobs a step touches, the calls and the keys.
LEMMA StepByJob ==
  ASSUME IInv, TypeOK', CallInv', AnsweredJobIsEnqueued',
         \A i \in Jobs : Untouched(i) \/ JobInv(i)'
  PROVE  IInv'
<1>1. ASSUME NEW i \in Jobs PROVE JobInv(i)'
  BY UntouchedKeeps, InvariantByJob
<1>2. QED
  BY <1>1 DEF IInv, JobInv, VerdictInv, VerdictFieldsFit

\* A step of one work horse, or of RQ for one job, takes nothing from calls and keys
\* if RQ keeps the job.
LEMMA JobStep ==
  ASSUME IInv, NEW j \in Jobs, TypeOK', JobInv(j)',
         UNCHANGED <<api, key, answered, used>>,
         \A i \in Jobs \ {j} : Untouched(i),
         rq[j] # "none" => rq'[j] # "none"
  PROVE  IInv'
<1>1. \A i \in Jobs : rq[i] # "none" => rq'[i] # "none"
  BY DEF Untouched
<1>2. CallInv'
  BY <1>1 DEF IInv, CallInv
<1>3. AnsweredJobIsEnqueued'
  BY <1>1 DEF IInv, AnsweredJobIsEnqueued
<1>4. QED
  BY <1>2, <1>3, StepByJob

-----------------------------------------------------------------------------
(* run_ai_job, RQ and the expiry of hashes.                                 *)

LEMMA AttemptStarts ==
  ASSUME IInv, NEW j \in Jobs, StartAttempt(j)
  PROVE  IInv'
<1> USE DEF StartAttempt, RqDequeue, Goto, hashVars, keyVars
<1>1. TypeOK'
  BY DEF IInv, TypeOK, RqTypeOK
<1>2. \A i \in Jobs \ {j} : Untouched(i)
  BY DEF IInv, TypeOK, RqTypeOK, Untouched
<1>3. JobInv(j)'
  BY InvariantByJob DEF TypeOK, RqTypeOK, JobInv, WorkInv, VerdictInv
<1>4. UNCHANGED <<api, key, answered, used>> /\ (rq[j] # "none" => rq'[j] # "none")
  BY DEF IInv, TypeOK, RqTypeOK
<1>5. QED
  BY <1>1, <1>2, <1>3, <1>4, JobStep

LEMMA StartedIsPublished ==
  ASSUME IInv, NEW j \in Jobs, PublishStarted(j)
  PROVE  IInv'
<1> USE DEF PublishStarted, Goto, workerFrame, rqVars, keyVars
<1>1. TypeOK'
  BY DEF IInv, TypeOK, RqTypeOK
<1>2. \A i \in Jobs \ {j} : Untouched(i)
  BY DEF IInv, TypeOK, RqTypeOK, Untouched
<1>3. JobInv(j)'
  BY InvariantByJob DEF TypeOK, RqTypeOK, JobInv, WorkInv, VerdictInv
<1>4. UNCHANGED <<api, key, answered, used>> /\ (rq[j] # "none" => rq'[j] # "none")
  BY DEF IInv, TypeOK, RqTypeOK
<1>5. QED
  BY <1>1, <1>2, <1>3, <1>4, JobStep

LEMMA AiIsCalled ==
  ASSUME IInv, NEW j \in Jobs, CallAi(j)
  PROVE  IInv'
<1> USE DEF CallAi, Goto, hashVars, workerFrame, rqVars, keyVars
<1>1. TypeOK'
  BY DEF IInv, TypeOK, RqTypeOK
<1>2. \A i \in Jobs \ {j} : Untouched(i)
  BY DEF IInv, TypeOK, RqTypeOK, Untouched
<1>3. JobInv(j)'
  BY InvariantByJob DEF TypeOK, RqTypeOK, JobInv, WorkInv, VerdictInv
<1>4. UNCHANGED <<api, key, answered, used>> /\ (rq[j] # "none" => rq'[j] # "none")
  BY DEF IInv, TypeOK, RqTypeOK
<1>5. QED
  BY <1>1, <1>2, <1>3, <1>4, JobStep

LEMMA FinishedIsPublished ==
  ASSUME IInv, NEW j \in Jobs, PublishFinished(j)
  PROVE  IInv'
<1> USE DEF PublishFinished, Goto, workerFrame, rqVars, keyVars
<1>1. TypeOK'
  BY DEF IInv, TypeOK, RqTypeOK
<1>2. \A i \in Jobs \ {j} : Untouched(i)
  BY DEF IInv, TypeOK, RqTypeOK, Untouched
<1>3. JobInv(j)'
  BY InvariantByJob DEF TypeOK, RqTypeOK, JobInv, WorkInv, VerdictInv
<1>4. UNCHANGED <<api, key, answered, used>> /\ (rq[j] # "none" => rq'[j] # "none")
  BY DEF IInv, TypeOK, RqTypeOK
<1>5. QED
  BY <1>1, <1>2, <1>3, <1>4, JobStep

LEMMA AttemptCompletes ==
  ASSUME IInv, NEW j \in Jobs, CompleteAttempt(j)
  PROVE  IInv'
<1> USE DEF CompleteAttempt, RqSucceed, Goto, hashVars, keyVars
<1>1. TypeOK'
  BY DEF IInv, TypeOK, RqTypeOK
<1>2. \A i \in Jobs \ {j} : Untouched(i)
  BY DEF IInv, TypeOK, RqTypeOK, Untouched
<1>3. JobInv(j)'
  BY InvariantByJob DEF TypeOK, RqTypeOK, JobInv, WorkInv, VerdictInv
<1>4. UNCHANGED <<api, key, answered, used>> /\ (rq[j] # "none" => rq'[j] # "none")
  BY DEF IInv, TypeOK, RqTypeOK
<1>5. QED
  BY <1>1, <1>2, <1>3, <1>4, JobStep

LEMMA ErrorIsCaught ==
  ASSUME IInv, NEW j \in Jobs, AttemptRaises(j)
  PROVE  IInv'
<1> USE DEF AttemptRaises, Caught, Goto, hashVars, workerFrame, rqVars, keyVars
<1>1. TypeOK'
  BY DEF IInv, TypeOK, RqTypeOK
<1>2. \A i \in Jobs \ {j} : Untouched(i)
  BY DEF IInv, TypeOK, RqTypeOK, Untouched
<1>3. JobInv(j)'
  BY InvariantByJob DEF TypeOK, RqTypeOK, JobInv, WorkInv, VerdictInv
<1>4. UNCHANGED <<api, key, answered, used>> /\ (rq[j] # "none" => rq'[j] # "none")
  BY DEF IInv, TypeOK, RqTypeOK
<1>5. QED
  BY <1>1, <1>2, <1>3, <1>4, JobStep

LEMMA RetryIsPublished ==
  ASSUME IInv, NEW j \in Jobs, PublishQueued(j)
  PROVE  IInv'
<1> USE DEF PublishQueued, Goto, workerFrame, rqVars, keyVars
<1>1. TypeOK'
  BY DEF IInv, TypeOK, RqTypeOK
<1>2. \A i \in Jobs \ {j} : Untouched(i)
  BY DEF IInv, TypeOK, RqTypeOK, Untouched
<1>3. JobInv(j)'
  BY InvariantByJob DEF TypeOK, RqTypeOK, JobInv, WorkInv, VerdictInv
<1>4. UNCHANGED <<api, key, answered, used>> /\ (rq[j] # "none" => rq'[j] # "none")
  BY DEF IInv, TypeOK, RqTypeOK
<1>5. QED
  BY <1>1, <1>2, <1>3, <1>4, JobStep

LEMMA FailureIsPublished ==
  ASSUME IInv, NEW j \in Jobs, PublishFailed(j)
  PROVE  IInv'
<1> USE DEF PublishFailed, Goto, workerFrame, rqVars, keyVars
<1>1. TypeOK'
  BY DEF IInv, TypeOK, RqTypeOK
<1>2. \A i \in Jobs \ {j} : Untouched(i)
  BY DEF IInv, TypeOK, RqTypeOK, Untouched
<1>3. JobInv(j)'
  BY InvariantByJob DEF TypeOK, RqTypeOK, JobInv, WorkInv, VerdictInv
<1>4. UNCHANGED <<api, key, answered, used>> /\ (rq[j] # "none" => rq'[j] # "none")
  BY DEF IInv, TypeOK, RqTypeOK
<1>5. QED
  BY <1>1, <1>2, <1>3, <1>4, JobStep

LEMMA ExceptBranchEnds ==
  ASSUME IInv, NEW j \in Jobs, SendAlert(j) \/ HandlerError(j)
  PROVE  IInv'
<1> USE DEF SendAlert, HandlerError, Goto, hashVars, workerFrame, rqVars, keyVars
<1>1. TypeOK'
  BY DEF IInv, TypeOK, RqTypeOK
<1>2. \A i \in Jobs \ {j} : Untouched(i)
  BY DEF IInv, TypeOK, RqTypeOK, Untouched
<1>3. JobInv(j)'
  BY InvariantByJob DEF TypeOK, RqTypeOK, JobInv, WorkInv, VerdictInv
<1>4. UNCHANGED <<api, key, answered, used>> /\ (rq[j] # "none" => rq'[j] # "none")
  BY DEF IInv, TypeOK, RqTypeOK
<1>5. QED
  BY <1>1, <1>2, <1>3, <1>4, JobStep

LEMMA AttemptFails ==
  ASSUME IInv, NEW j \in Jobs, FailAttempt(j) \/ KillHorse(j)
  PROVE  IInv'
<1> USE DEF FailAttempt, KillHorse, RqHandleFailure, Goto, hashVars, keyVars
<1>1. TypeOK'
  <2>1. RqTypeOK'
    BY RqAssumption DEF IInv, TypeOK, RqTypeOK
  <2>2. QED
    BY <2>1 DEF IInv, TypeOK
<1>2. \A i \in Jobs \ {j} : Untouched(i)
  BY DEF IInv, TypeOK, RqTypeOK, Untouched
<1>3. JobInv(j)'
  BY InvariantByJob DEF TypeOK, RqTypeOK, JobInv, WorkInv, VerdictInv
<1>4. UNCHANGED <<api, key, answered, used>> /\ (rq[j] # "none" => rq'[j] # "none")
  BY DEF IInv, TypeOK, RqTypeOK
<1>5. QED
  BY <1>1, <1>2, <1>3, <1>4, JobStep

LEMMA RetryIsPromoted ==
  ASSUME IInv, NEW j \in Jobs, PromoteRetry(j)
  PROVE  IInv'
<1> USE DEF PromoteRetry, RqPromote, hashVars, keyVars
<1>1. TypeOK'
  BY DEF IInv, TypeOK, RqTypeOK
<1>2. \A i \in Jobs \ {j} : Untouched(i)
  BY DEF IInv, TypeOK, RqTypeOK, Untouched
<1>3. JobInv(j)'
  BY InvariantByJob DEF TypeOK, RqTypeOK, JobInv, WorkInv, VerdictInv
<1>4. UNCHANGED <<api, key, answered, used>> /\ (rq[j] # "none" => rq'[j] # "none")
  BY DEF IInv, TypeOK, RqTypeOK
<1>5. QED
  BY <1>1, <1>2, <1>3, <1>4, JobStep

LEMMA HashExpires ==
  ASSUME IInv, NEW j \in Jobs, ExpireHash(j)
  PROVE  IInv'
<1> USE DEF ExpireHash, rqVars, keyVars
<1>1. TypeOK'
  BY DEF IInv, TypeOK, RqTypeOK
<1>2. \A i \in Jobs \ {j} : Untouched(i)
  BY DEF IInv, TypeOK, RqTypeOK, Untouched
<1>3. JobInv(j)'
  BY InvariantByJob DEF TypeOK, RqTypeOK, JobInv, WorkInv, VerdictInv
<1>4. UNCHANGED <<api, key, answered, used>> /\ (rq[j] # "none" => rq'[j] # "none")
  BY DEF IInv, TypeOK, RqTypeOK
<1>5. QED
  BY <1>1, <1>2, <1>3, <1>4, JobStep

-----------------------------------------------------------------------------
(* create_job.                                                             *)

\* A call that is past CreateJobHash has a job.
LEMMA JobOfCall ==
  ASSUME IInv, NEW p \in Processes
  PROVE  /\ api[p] \in Call
         /\ api[p].pc \in {"enqueue", "store", "reply"} => api[p].job \in Jobs
         /\ api[p].pc = "store" => api[p].key \in Keys
  BY DEF IInv, TypeOK, CallInv, Call

LEMMA IdleIsACall == Idle \in Call /\ Idle.pc = "idle"
  BY DEF Idle, Call

\* A step of a call that leaves the jobs alone: it begins, answers or breaks off, or
\* stores its key.
LEMMA CallStep ==
  ASSUME IInv, NEW p \in Processes, NEW c \in Call, api' = [api EXCEPT ![p] = c],
         UNCHANGED <<rq, retriesLeft, used, hash, result, error, pc>>,
         key' \in [Keys -> Jobs \cup {NoJob}],
         answered' \in [Keys -> SUBSET Jobs],
         AnsweredJobIsEnqueued',
         \/ c.pc \in {"idle", "hash"}
         \/ c.pc = "reply" /\ api[p].pc = "store" /\ c.job = api[p].job
  PROVE  IInv'
<1>1. TypeOK'
  BY DEF IInv, TypeOK, RqTypeOK, Call
<1>2. \A i \in Jobs : Untouched(i)
  BY DEF Untouched
<1>3. CallInv'
  BY DEF IInv, TypeOK, CallInv
<1>4. QED
  BY <1>1, <1>2, <1>3, StepByJob

LEMMA CallBegins ==
  ASSUME IInv, NEW p \in Processes, NEW k \in Keys \cup {NoKey}, BeginCreate(p, k)
  PROVE  IInv'
<1> DEFINE c == [pc |-> "hash", key |-> k, job |-> NoJob]
<1>1. c \in Call /\ c.pc = "hash"
  BY DEF Call
<1>2. api' = [api EXCEPT ![p] = c]
  BY DEF BeginCreate
<1> HIDE DEF c
<1>3. UNCHANGED <<rq, retriesLeft, used, hash, result, error, key, answered, pc>>
  BY DEF BeginCreate, rqVars, hashVars, keyVars
<1>4. AnsweredJobIsEnqueued'
  BY <1>3 DEF IInv, AnsweredJobIsEnqueued
<1>5. QED
  BY <1>1, <1>2, <1>3, <1>4, CallStep DEF IInv, TypeOK

\* A replayed job is the key's, which RQ has.
LEMMA AnswerIsReplayed ==
  ASSUME IInv, NEW p \in Processes, NEW k \in Keys, Replay(p, k)
  PROVE  IInv'
<1> USE DEF Replay, rqVars, hashVars
<1>1. TypeOK'
  BY DEF IInv, TypeOK, RqTypeOK
<1>2. \A i \in Jobs : Untouched(i)
  BY DEF Untouched
<1>3. CallInv'
  BY DEF IInv, CallInv
<1>4. AnsweredJobIsEnqueued'
  BY DEF IInv, TypeOK, AnsweredJobIsEnqueued
<1>5. QED
  BY <1>1, <1>2, <1>3, <1>4, StepByJob

LEMMA CallBreaksOff ==
  ASSUME IInv, NEW p \in Processes, AbandonCreate(p)
  PROVE  IInv'
  BY IdleIsACall, CallStep
     DEF AbandonCreate, rqVars, hashVars, keyVars, IInv, TypeOK, AnsweredJobIsEnqueued

LEMMA CallAnswers ==
  ASSUME IInv, NEW p \in Processes, Reply(p)
  PROVE  IInv'
<1>1. api[p].job \in Jobs /\ rq[api[p].job] # "none"
  BY DEF Reply, IInv, CallInv
<1>2. answered' \in [Keys -> SUBSET Jobs]
  BY <1>1 DEF Reply, IInv, TypeOK
<1>3. AnsweredJobIsEnqueued'
  BY <1>1 DEF Reply, rqVars, IInv, TypeOK, AnsweredJobIsEnqueued
<1>4. QED
  BY <1>2, <1>3, IdleIsACall, CallStep DEF Reply, rqVars, hashVars, IInv, TypeOK

LEMMA KeyIsStored ==
  ASSUME IInv, NEW p \in Processes, StoreKey(p)
  PROVE  IInv'
<1> DEFINE c == [api[p] EXCEPT !.pc = "reply"]
<1>1. /\ api[p].job \in Jobs
      /\ rq[api[p].job] # "none"
      /\ api[p].key \in Keys
  BY DEF StoreKey, IInv, CallInv
<1>2. c \in Call /\ c.pc = "reply" /\ c.job = api[p].job
  BY JobOfCall DEF Call
<1>3. api' = [api EXCEPT ![p] = c]
  BY DEF StoreKey
<1> HIDE DEF c
<1>4. key' \in [Keys -> Jobs \cup {NoJob}] /\ AnsweredJobIsEnqueued'
  BY <1>1 DEF StoreKey, rqVars, IInv, TypeOK, AnsweredJobIsEnqueued
<1>5. QED
  BY <1>2, <1>3, <1>4, CallStep DEF StoreKey, rqVars, hashVars, IInv, TypeOK

LEMMA KeyExpires ==
  ASSUME IInv, NEW k \in Keys, ExpireKey(k)
  PROVE  IInv'
<1> USE DEF ExpireKey, rqVars, hashVars
<1>1. TypeOK'
  BY DEF IInv, TypeOK, RqTypeOK
<1>2. \A i \in Jobs : Untouched(i)
  BY DEF Untouched
<1>3. CallInv'
  BY DEF IInv, CallInv
<1>4. AnsweredJobIsEnqueued'
  BY AiAssumption DEF IInv, TypeOK, AnsweredJobIsEnqueued
<1>5. QED
  BY <1>1, <1>2, <1>3, <1>4, StepByJob

LEMMA HashIsCreated ==
  ASSUME IInv, NEW p \in Processes, CreateJobHash(p)
  PROVE  IInv'
<1>1. PICK j \in Jobs :
        /\ ~used[j]
        /\ used' = [used EXCEPT ![j] = TRUE]
        /\ hash' = [hash EXCEPT ![j] = "queued"]
        /\ api' = [api EXCEPT ![p] = [@ EXCEPT !.pc = "enqueue", !.job = j]]
  BY DEF CreateJobHash
<1>2. UNCHANGED <<rq, retriesLeft, result, error, key, answered, pc>>
  BY DEF CreateJobHash, rqVars, keyVars
<1> DEFINE c == [api[p] EXCEPT !.pc = "enqueue", !.job = j]
<1>3. c \in Call /\ c.pc = "enqueue" /\ c.job = j
  BY JobOfCall DEF Call
<1>4. api' = [api EXCEPT ![p] = c]
  BY <1>1
<1> HIDE DEF c
<1>5. TypeOK'
  BY <1>1, <1>2, <1>3, <1>4 DEF IInv, TypeOK, RqTypeOK, Call
<1>6. \A i \in Jobs \ {j} : Untouched(i)
  BY <1>1, <1>2 DEF IInv, TypeOK, Untouched
<1>7. JobInv(j)'
  BY <1>1, <1>2, InvariantByJob DEF TypeOK, JobInv, WorkInv, VerdictInv
<1>8. CallInv'
  BY <1>1, <1>2, <1>3, <1>4 DEF IInv, TypeOK, CallInv
<1>9. AnsweredJobIsEnqueued'
  BY <1>2 DEF IInv, AnsweredJobIsEnqueued
<1>10. QED
  BY <1>5, <1>6, <1>7, <1>8, <1>9, StepByJob

LEMMA JobIsEnqueued ==
  ASSUME IInv, NEW p \in Processes, EnqueueJob(p)
  PROVE  IInv'
<1>1. PICK j \in Jobs : j = api[p].job /\ used[j]
  BY DEF EnqueueJob, IInv, CallInv
<1> DEFINE c == [api[p] EXCEPT !.pc = IF api[p].key = NoKey THEN "reply" ELSE "store"]
<1>2. /\ c \in Call /\ c.job = j
      /\ c.pc = "reply" \/ (c.pc = "store" /\ c.key \in Keys)
  BY <1>1, JobOfCall DEF Call
<1>3. /\ rq[j] = "none" /\ rq' = [rq EXCEPT ![j] = "queued"]
      /\ api' = [api EXCEPT ![p] = c]
  BY <1>1 DEF EnqueueJob, RqEnqueue
<1>4. UNCHANGED <<retriesLeft, used, hash, result, error, key, answered, pc>>
  BY DEF EnqueueJob, RqEnqueue, hashVars, keyVars
<1> HIDE DEF c
<1>5. TypeOK'
  BY <1>2, <1>3, <1>4 DEF IInv, TypeOK, RqTypeOK, Call
<1>6. \A i \in Jobs \ {j} : Untouched(i)
  BY <1>3, <1>4 DEF IInv, TypeOK, RqTypeOK, Untouched
<1>7. JobInv(j)'
  BY <1>1, <1>3, <1>4, InvariantByJob DEF TypeOK, RqTypeOK, JobInv, WorkInv, VerdictInv
<1>8. CallInv'
  BY <1>1, <1>2, <1>3, <1>4 DEF IInv, TypeOK, RqTypeOK, CallInv
<1>9. AnsweredJobIsEnqueued'
  BY <1>3, <1>4 DEF IInv, TypeOK, RqTypeOK, AnsweredJobIsEnqueued
<1>10. QED
  BY <1>5, <1>6, <1>7, <1>8, <1>9, StepByJob

-----------------------------------------------------------------------------
(* Every step keeps the invariants.                                        *)

LEMMA IInvStep == IInv /\ [Next]_vars => IInv'
<1> SUFFICES ASSUME IInv, [Next]_vars PROVE IInv'
  OBVIOUS
<1>1. ASSUME NEW p \in Processes,
             \/ \E k \in Keys : Replay(p, k)
             \/ \E k \in Keys \cup {NoKey} : BeginCreate(p, k)
             \/ ApiStep(p)
             \/ AbandonCreate(p)
      PROVE  IInv'
  BY <1>1, AnswerIsReplayed, CallBegins, HashIsCreated, JobIsEnqueued, KeyIsStored,
     CallAnswers, CallBreaksOff DEF ApiStep
<1>2. ASSUME NEW j \in Jobs, AttemptStep(j)
      PROVE  IInv'
  BY <1>2, StartedIsPublished, AiIsCalled, FinishedIsPublished, AttemptCompletes,
     RetryIsPublished, FailureIsPublished, ExceptBranchEnds, AttemptFails
     DEF AttemptStep
<1>3. ASSUME NEW j \in Jobs,
             StartAttempt(j) \/ AttemptRaises(j) \/ HandlerError(j) \/ KillHorse(j)
               \/ PromoteRetry(j) \/ ExpireHash(j)
      PROVE  IInv'
  BY <1>3, AttemptStarts, ErrorIsCaught, ExceptBranchEnds, AttemptFails, RetryIsPromoted,
     HashExpires
<1>4. CASE UNCHANGED vars
  BY <1>4 DEF vars, IInv, TypeOK, RqTypeOK, WorkInv, VerdictInv, CallInv,
     AnsweredJobIsEnqueued, VerdictFieldsFit
<1>5. QED
  BY <1>1, <1>2, <1>3, <1>4, KeyExpires DEF Next

\* The steps that leave keys and answers alone, and every call where it was or without
\* a key's answer to give.
LEMMA QuietForKeys ==
  ASSUME KeyInv, UNCHANGED <<key, answered>>,
         \A p \in Processes : api'[p] = api[p] \/ api'[p] = Idle
  PROVE  KeyInv'
  BY DEF KeyInv, Idle

LEMMA KeyInvStep ==
  ASSUME \A p, q \in Processes : p = q
  PROVE  IInv /\ KeyInv /\ [Next]_vars => KeyInv'
<1> SUFFICES ASSUME IInv, KeyInv, [Next]_vars PROVE KeyInv'
  OBVIOUS
<1> USE DEF IInv, TypeOK
<1>1. ASSUME NEW p \in Processes, NEW k \in Keys, Replay(p, k)
      PROVE  KeyInv'
  BY <1>1 DEF Replay, KeyInv
<1>2. ASSUME NEW p \in Processes, NEW k \in Keys \cup {NoKey}, BeginCreate(p, k)
      PROVE  KeyInv'
  BY <1>2 DEF BeginCreate, KeyInv, keyVars
<1>3. ASSUME NEW p \in Processes, CreateJobHash(p)
      PROVE  KeyInv'
  <2>1. /\ api'[p].pc = "enqueue" /\ api'[p].key = api[p].key
        /\ \A q \in Processes : q = p
        /\ UNCHANGED <<key, answered>>
    BY <1>3 DEF CreateJobHash, keyVars
  <2>2. QED
    BY <1>3, <2>1 DEF KeyInv, CreateJobHash
<1>4. ASSUME NEW p \in Processes, EnqueueJob(p)
      PROVE  KeyInv'
  <2>1. /\ api'[p].key = api[p].key
        /\ api[p].key \in Keys => api'[p].pc = "store"
        /\ \A q \in Processes : q = p
        /\ UNCHANGED <<key, answered>>
    BY <1>4, AiAssumption DEF EnqueueJob, keyVars
  <2>2. QED
    BY <1>4, <2>1 DEF KeyInv, EnqueueJob
<1>5. ASSUME NEW p \in Processes, StoreKey(p)
      PROVE  KeyInv'
  <2>1. api[p].key \in Keys /\ answered[api[p].key] = {}
    BY <1>5, AiAssumption DEF StoreKey, CallInv, KeyInv
  <2>2. /\ api'[p].pc = "reply" /\ api'[p].key = api[p].key /\ api'[p].job = api[p].job
        /\ \A q \in Processes : q = p
    BY <1>5 DEF StoreKey
  <2>3. QED
    BY <1>5, <2>1, <2>2 DEF KeyInv, StoreKey
<1>6. ASSUME NEW p \in Processes, Reply(p)
      PROVE  KeyInv'
  <2>1. \A q \in Processes : q = p /\ api'[q] = Idle
    BY <1>6 DEF Reply
  <2>2. \A k \in Keys : answered'[k] \subseteq {key[k]}
    BY <1>6 DEF Reply, KeyInv
  <2>3. QED
    BY <1>6, <2>1, <2>2 DEF KeyInv, Reply, Idle
<1>7. ASSUME NEW p \in Processes, AbandonCreate(p)
      PROVE  KeyInv'
  BY <1>7, QuietForKeys DEF AbandonCreate, keyVars
<1>8. ASSUME NEW j \in Jobs,
             StartAttempt(j) \/ AttemptStep(j) \/ AttemptRaises(j) \/ HandlerError(j)
               \/ KillHorse(j) \/ PromoteRetry(j) \/ ExpireHash(j)
      PROVE  KeyInv'
  <2>1. UNCHANGED <<key, answered, api>>
    BY <1>8 DEF StartAttempt, AttemptStep, AttemptRaises, HandlerError, KillHorse,
       PromoteRetry, ExpireHash, PublishStarted, CallAi, PublishFinished, CompleteAttempt,
       PublishQueued, PublishFailed, SendAlert, FailAttempt, workerFrame, keyVars
  <2>2. QED
    BY <2>1, QuietForKeys
<1>9. ASSUME NEW k \in Keys, ExpireKey(k)
      PROVE  KeyInv'
  BY <1>9 DEF ExpireKey, KeyInv
<1>10. CASE UNCHANGED vars
  BY <1>10, QuietForKeys DEF vars
<1>11. QED
  BY <1>1, <1>2, <1>3, <1>4, <1>5, <1>6, <1>7, <1>8, <1>9, <1>10 DEF Next, ApiStep

-----------------------------------------------------------------------------
(* The theorems.                                                           *)

\* The inductive invariant: types, one story told by RQ and the work horse, verdicts
\* with their fields and where no attempt can follow, calls that know their job.
THEOREM AiSafety == Spec => []IInv
<1>1. Init => IInv
  BY RqAssumption, AiAssumption DEF Init, RqInit, IInv, TypeOK, RqTypeOK, WorkInv,
     VerdictInv, CallInv, AnsweredJobIsEnqueued, VerdictFieldsFit, Idle
<1>2. QED
  BY <1>1, IInvStep, PTL DEF Spec

\* Every variable keeps its type (AiJobs.TypeOK).
THEOREM AiTyping == Spec => []TypeOK
<1>1. IInv => TypeOK
  BY DEF IInv
<1>2. QED
  BY <1>1, AiSafety, PTL

\* With any number of API processes, wherever a call breaks off: no client is ever
\* given, and no key ever holds, the id of a job that RQ does not have
\* (AiJobs.AnsweredJobIsEnqueued).
THEOREM AnswersAreEnqueued == Spec => []AnsweredJobIsEnqueued
<1>1. IInv => AnsweredJobIsEnqueued
  BY DEF IInv
<1>2. QED
  BY <1>1, AiSafety, PTL

\* GET /jobs/{job_id} never shows a verdict with the wrong fields, although fields of
\* earlier attempts stay in the hash (AiJobs.VerdictFieldsFit).
THEOREM VerdictsHaveTheirFields == Spec => []VerdictFieldsFit
<1>1. IInv => VerdictFieldsFit
  BY DEF IInv
<1>2. QED
  BY <1>1, AiSafety, PTL

\* With a single API process, as deployed, all clients that use a key while it lives get
\* the same job, whatever breaks off and expires (AiJobs.KeyAnswersAgree).
THEOREM OneAnswerPerKey ==
  ASSUME \A p, q \in Processes : p = q
  PROVE  Spec => []KeyAnswersAgree
<1>1. Init => KeyInv
  BY AiAssumption DEF Init, KeyInv, Idle
<1>2. KeyInv => KeyAnswersAgree
  <2> SUFFICES ASSUME KeyInv, NEW k \in Keys
               PROVE  Cardinality(answered[k]) <= 1
    BY DEF KeyAnswersAgree
  <2>1. answered[k] = {} \/ answered[k] = {key[k]}
    BY DEF KeyInv
  <2>2. Cardinality({}) = 0 /\ Cardinality({key[k]}) = 1
    BY FS_EmptySet, FS_Singleton
  <2>3. QED
    BY <2>1, <2>2
<1>3. IInv /\ KeyInv /\ [Next]_vars => KeyInv'
  BY KeyInvStep
<1>4. QED
  BY <1>1, <1>2, <1>3, AiSafety, PTL DEF Spec

=============================================================================
