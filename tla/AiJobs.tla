------------------------------- MODULE AiJobs -------------------------------
(***************************************************************************)
(* AI jobs: POST /ai with an optional Idempotency-Key (create_job in       *)
(* src/app/core/queue.py, called by src/app/routers/ai.py) and the RQ      *)
(* worker run_ai_job (src/app/services/ai_worker.py).                      *)
(*                                                                         *)
(* create_job is synchronous code inside an async handler, so an API       *)
(* process runs one call at a time: a process is the unit of interleaving. *)
(* Operators named Slip... are mistakes kept to show that the properties   *)
(* would notice them.                                                      *)
(***************************************************************************)
EXTENDS RqQueue

CONSTANTS
  Processes,  \* API processes (one uvicorn process, in the Dockerfile)
  Keys,       \* values of the Idempotency-Key header
  Faults,     \* the kinds of failure this instance is exposed to
  NoKey, NoJob

(***************************************************************************)
(*   raise      the model call fails                                       *)
(*   raiseLate  an exception after the hash says finished (EXPIRE, timeout)*)
(*   handler    an exception outside the try block                         *)
(*   kill       the work horse dies in an attempt that has retries left    *)
(*   killLast   the work horse dies in the last attempt                    *)
(*   api        create_job raises, or the API process dies, half-way       *)
(*   ttl        idempotency keys and job hashes expire (24 h)              *)
(***************************************************************************)
FaultKinds == {"raise", "raiseLate", "handler", "kill", "killLast", "api", "ttl"}

ASSUME AiAssumption ==
  /\ Faults \subseteq FaultKinds
  /\ NoKey \notin Keys
  /\ NoJob \notin Jobs

VARIABLES
  used,      \* used[j]: has the uuid been drawn?
  hash,      \* hash[j]: status field of job:{j}, "none" if no key
  result,    \* result[j]: has job:{j} a result field?
  error,     \* error[j]: has job:{j} an error field?
  key,       \* key[k]: value of idempotency:{k}
  answered,  \* answered[k]: job ids returned to clients in the present life of k
  pc,        \* pc[j]: where the work horse running j is
  api        \* api[p]: where create_job is in API process p

hashVars == <<hash, result, error>>
keyVars == <<key, answered>>
vars == <<rq, retriesLeft, used, hash, result, error, key, answered, pc, api>>

HashStatus == {"none", "queued", "started", "finished", "failed"}
WorkerPc   == {"idle", "start", "call", "publish", "return", "requeue", "report",
               "alert", "exit"}
ApiPc      == {"idle", "hash", "enqueue", "store", "reply"}

Idle == [pc |-> "idle", key |-> NoKey, job |-> NoJob]

TypeOK ==
  /\ RqTypeOK
  /\ used \in [Jobs -> BOOLEAN]
  /\ hash \in [Jobs -> HashStatus]
  /\ result \in [Jobs -> BOOLEAN]
  /\ error \in [Jobs -> BOOLEAN]
  /\ key \in [Keys -> Jobs \cup {NoJob}]
  /\ answered \in [Keys -> SUBSET Jobs]
  /\ pc \in [Jobs -> WorkerPc]
  /\ api \in [Processes -> [pc: ApiPc, key: Keys \cup {NoKey}, job: Jobs \cup {NoJob}]]

Init ==
  /\ RqInit
  /\ used = [j \in Jobs |-> FALSE]
  /\ hash = [j \in Jobs |-> "none"]
  /\ result = [j \in Jobs |-> FALSE]
  /\ error = [j \in Jobs |-> FALSE]
  /\ key = [k \in Keys |-> NoJob]
  /\ answered = [k \in Keys |-> {}]
  /\ pc = [j \in Jobs |-> "idle"]
  /\ api = [p \in Processes |-> Idle]

-----------------------------------------------------------------------------
(* create_job.                                                             *)

\* Bound: a call that creates a job begins only while an unused id remains.
IdsRemain ==
  Cardinality({j \in Jobs : ~used[j]})
    > Cardinality({p \in Processes : api[p].pc = "hash"})

\* The key is known: its job is the answer, whatever has become of it.
Replay(p, k) ==
  /\ api[p] = Idle
  /\ key[k] # NoJob
  /\ answered' = [answered EXCEPT ![k] = @ \cup {key[k]}]
  /\ UNCHANGED <<rqVars, used, hashVars, key, pc, api>>

\* Slip: the key is not looked up.
SlipNoLookup(p, k) ==
  /\ api[p] = Idle
  /\ IdsRemain
  /\ api' = [api EXCEPT ![p] = [pc |-> "hash", key |-> k, job |-> NoJob]]
  /\ UNCHANGED <<rqVars, used, hashVars, keyVars, pc>>

\* No key was sent, or it is unknown.
BeginCreate(p, k) ==
  /\ api[p] = Idle
  /\ IdsRemain
  /\ k \in Keys => key[k] = NoJob
  /\ api' = [api EXCEPT ![p] = [pc |-> "hash", key |-> k, job |-> NoJob]]
  /\ UNCHANGED <<rqVars, used, hashVars, keyVars, pc>>

\* Slip: the key is stored before the job is enqueued.
SlipKeyFirst(p) ==
  /\ api[p].pc = "hash"
  /\ \E j \in Jobs :
       /\ ~used[j]
       /\ used' = [used EXCEPT ![j] = TRUE]
       /\ hash' = [hash EXCEPT ![j] = "queued"]
       /\ key' = [k \in Keys |-> IF k = api[p].key THEN j ELSE key[k]]
       /\ api' = [api EXCEPT ![p] = [@ EXCEPT !.pc = "enqueue", !.job = j]]
  /\ UNCHANGED <<rqVars, result, error, answered, pc>>

\* A fresh uuid, HSET status=queued and EXPIRE.
CreateJobHash(p) ==
  /\ api[p].pc = "hash"
  /\ \E j \in Jobs :
       /\ ~used[j]
       /\ used' = [used EXCEPT ![j] = TRUE]
       /\ hash' = [hash EXCEPT ![j] = "queued"]
       /\ api' = [api EXCEPT ![p] = [@ EXCEPT !.pc = "enqueue", !.job = j]]
  /\ UNCHANGED <<rqVars, result, error, keyVars, pc>>

EnqueueJob(p) ==
  /\ api[p].pc = "enqueue"
  /\ RqEnqueue(api[p].job)
  /\ api' = [api EXCEPT ![p].pc = IF api[p].key = NoKey
                                  THEN "reply" ELSE "store"]
  /\ UNCHANGED <<used, hashVars, keyVars, pc>>

\* Slip: SETEX stores the status instead of the job id.
SlipStoreStatus(p) ==
  /\ api[p].pc = "store"
  /\ key' = [key EXCEPT ![api[p].key] = "queued"]
  /\ api' = [api EXCEPT ![p].pc = "reply"]
  /\ UNCHANGED <<rqVars, used, hashVars, answered, pc>>

\* SETEX idempotency:{key} 86400 job_id.
StoreKey(p) ==
  /\ api[p].pc = "store"
  /\ key' = [key EXCEPT ![api[p].key] = api[p].job]
  /\ api' = [api EXCEPT ![p].pc = "reply"]
  /\ UNCHANGED <<rqVars, used, hashVars, answered, pc>>

\* 202 with the job id.
Reply(p) ==
  /\ api[p].pc = "reply"
  /\ answered' = [k \in Keys |-> IF k = api[p].key THEN answered[k] \cup {api[p].job}
                                 ELSE answered[k]]
  /\ api' = [api EXCEPT ![p] = Idle]
  /\ UNCHANGED <<rqVars, used, hashVars, key, pc>>

\* The client gets an error or no answer, and may call again with the same key.
AbandonCreate(p) ==
  /\ "api" \in Faults
  /\ api[p] # Idle
  /\ api' = [api EXCEPT ![p] = Idle]
  /\ UNCHANGED <<rqVars, used, hashVars, keyVars, pc>>

-----------------------------------------------------------------------------
(* run_ai_job.                                                             *)

Goto(j, label) == pc' = [pc EXCEPT ![j] = label]

workerFrame == <<rqVars, used, keyVars, api>>

StartAttempt(j) ==
  /\ RqDequeue(j)
  /\ Goto(j, "start")
  /\ UNCHANGED <<used, hashVars, keyVars, api>>

PublishStarted(j) ==
  /\ pc[j] = "start"
  /\ hash' = [hash EXCEPT ![j] = "started"]
  /\ Goto(j, "call")
  /\ UNCHANGED <<workerFrame, result, error>>

CallAi(j) ==
  /\ pc[j] = "call"
  /\ Goto(j, "publish")
  /\ UNCHANGED <<workerFrame, hashVars>>

\* Slip: the result is stored and the status forgotten.
SlipResultOnly(j) ==
  /\ pc[j] = "publish"
  /\ result' = [result EXCEPT ![j] = TRUE]
  /\ Goto(j, "return")
  /\ UNCHANGED <<workerFrame, hash, error>>

PublishFinished(j) ==
  /\ pc[j] = "publish"
  /\ hash' = [hash EXCEPT ![j] = "finished"]
  /\ result' = [result EXCEPT ![j] = TRUE]
  /\ Goto(j, "return")
  /\ UNCHANGED <<workerFrame, error>>

CompleteAttempt(j) ==
  /\ pc[j] = "return"
  /\ RqSucceed(j)
  /\ Goto(j, "idle")
  /\ UNCHANGED <<used, hashVars, keyVars, api>>

\* Slip: retries_left compared with 1.
SlipRetriesOffByOne(j) == Goto(j, IF retriesLeft[j] > 1 THEN "requeue" ELSE "report")

\* job.retries_left decides.
Caught(j) == Goto(j, IF retriesLeft[j] > 0 THEN "requeue" ELSE "report")

AttemptRaises(j) ==
  /\ \/ "raise" \in Faults /\ pc[j] \in {"call", "publish"}
     \/ "raiseLate" \in Faults /\ pc[j] = "return"
  /\ Caught(j)
  /\ UNCHANGED <<workerFrame, hashVars>>

\* HSET status=queued leaves a result of this attempt in the hash.
PublishQueued(j) ==
  /\ pc[j] = "requeue"
  /\ hash' = [hash EXCEPT ![j] = "queued"]
  /\ Goto(j, "exit")
  /\ UNCHANGED <<workerFrame, result, error>>

PublishFailed(j) ==
  /\ pc[j] = "report"
  /\ hash' = [hash EXCEPT ![j] = "failed"]
  /\ error' = [error EXCEPT ![j] = TRUE]
  /\ Goto(j, "alert")
  /\ UNCHANGED <<workerFrame, result>>

\* send_alert writes a log record and changes no state.
SendAlert(j) ==
  /\ pc[j] = "alert"
  /\ Goto(j, "exit")
  /\ UNCHANGED <<workerFrame, hashVars>>

\* The exception leaves run_ai_job early.  A hash update is HSET and EXPIRE and may
\* raise before or after the status is written.
HandlerError(j) ==
  /\ "handler" \in Faults
  /\ pc[j] \in {"start", "call", "requeue", "report", "alert"}
  /\ Goto(j, "exit")
  /\ UNCHANGED <<workerFrame, hashVars>>

FailAttempt(j) ==
  /\ pc[j] = "exit"
  /\ RqHandleFailure(j)
  /\ Goto(j, "idle")
  /\ UNCHANGED <<used, hashVars, keyVars, api>>

KillHorse(j) ==
  /\ pc[j] # "idle"
  /\ IF retriesLeft[j] > 0 THEN "kill" \in Faults ELSE "killLast" \in Faults
  /\ RqHandleFailure(j)
  /\ Goto(j, "idle")
  /\ UNCHANGED <<used, hashVars, keyVars, api>>

PromoteRetry(j) ==
  /\ RqPromote(j)
  /\ UNCHANGED <<used, hashVars, keyVars, pc, api>>

-----------------------------------------------------------------------------
(* Time: calls and attempts are far shorter than 24 hours.                 *)

\* The answers of a key that has expired no longer bind anyone.
ExpireKey(k) ==
  /\ "ttl" \in Faults
  /\ key[k] # NoJob
  /\ \A p \in Processes : api[p].key # k
  /\ key' = [key EXCEPT ![k] = NoJob]
  /\ answered' = [answered EXCEPT ![k] = {}]
  /\ UNCHANGED <<rqVars, used, hashVars, pc, api>>

ExpireHash(j) ==
  /\ "ttl" \in Faults
  /\ hash[j] # "none"
  /\ pc[j] = "idle"
  /\ \A p \in Processes : api[p].job # j
  /\ hash' = [hash EXCEPT ![j] = "none"]
  /\ result' = [result EXCEPT ![j] = FALSE]
  /\ error' = [error EXCEPT ![j] = FALSE]
  /\ UNCHANGED <<rqVars, used, keyVars, pc, api>>

-----------------------------------------------------------------------------

ApiStep(p) == CreateJobHash(p) \/ EnqueueJob(p) \/ StoreKey(p) \/ Reply(p)

AttemptStep(j) ==
  \/ PublishStarted(j)
  \/ CallAi(j)
  \/ PublishFinished(j)
  \/ CompleteAttempt(j)
  \/ PublishQueued(j)
  \/ PublishFailed(j)
  \/ SendAlert(j)
  \/ FailAttempt(j)

Next ==
  \/ \E p \in Processes :
       \/ \E k \in Keys : Replay(p, k)
       \/ \E k \in Keys \cup {NoKey} : BeginCreate(p, k)
       \/ ApiStep(p)
       \/ AbandonCreate(p)
  \/ \E j \in Jobs :
       \/ StartAttempt(j)
       \/ AttemptStep(j)
       \/ AttemptRaises(j)
       \/ HandlerError(j)
       \/ KillHorse(j)
       \/ PromoteRetry(j)
       \/ ExpireHash(j)
  \/ \E k \in Keys : ExpireKey(k)

Spec == Init /\ [][Next]_vars

\* As for the other job kinds: API calls and work horses run on, idle workers take
\* ready jobs, the scheduler promotes due retries.
Fairness ==
  /\ \A p \in Processes : WF_vars(ApiStep(p))
  /\ \A j \in Jobs : /\ WF_vars(StartAttempt(j))
                     /\ WF_vars(AttemptStep(j))
                     /\ WF_vars(PromoteRetry(j))

FairSpec == Spec /\ Fairness

-----------------------------------------------------------------------------
(* Properties.                                                             *)

\* README, "Idempotency": while a key lives, every client that got an answer for
\* it got the same job, errors of Redis and crashes of the API in between
\* included.  (It takes a single API process: two can both miss the key.)
KeyAnswersAgree ==
  \A k \in Keys : Cardinality(answered[k]) <= 1

\* A job id is given away, and recorded under a key, only once RQ has the job: a
\* call that breaks off never leaves a key that answers for a job nobody runs.
AnsweredJobIsEnqueued ==
  \A k \in Keys, j \in Jobs :
    j \in answered[k] \/ key[k] = j => rq[j] # "none"

\* GET /jobs/{job_id}: a finished job shows its result and no error, a failed job
\* its error.  The fields of earlier attempts stay in the hash, so this needs
\* that no attempt follows a published failure.
VerdictFieldsFit ==
  \A j \in Jobs :
    /\ hash[j] = "finished" => result[j] /\ ~error[j]
    /\ hash[j] = "failed" => error[j]

\* An enqueued job is never lost without a trace: its hash gets a verdict, or RQ
\* lists it as failed (a work horse killed in the last attempt, a failure that
\* could not be reported).  A job that returned its result never depends on the
\* second: it is finished in the hash too.
EnqueuedIsNeverLost ==
  \A j \in Jobs : rq[j] = "queued" ~>
    hash[j] \in {"finished", "failed"} \/ rq[j] = "failed"

-----------------------------------------------------------------------------
(* The inductive invariants behind the safety properties.                  *)

\* The work horse, RQ's registry and the retry counter tell one story.
WorkInv(j) ==
  /\ pc[j] # "idle" <=> rq[j] = "started"
  /\ pc[j] = "requeue" => retriesLeft[j] > 0
  /\ pc[j] \in {"report", "alert"} \/ rq[j] = "failed" => retriesLeft[j] = 0

\* An error is stored with the verdict and nowhere else, where no attempt can follow;
\* an id that was not drawn has left no trace.
VerdictInv(j) ==
  /\ hash[j] = "failed" => rq[j] = "failed" \/ pc[j] \in {"alert", "exit"}
  /\ hash[j] = "failed" => retriesLeft[j] = 0
  /\ error[j] <=> hash[j] = "failed"
  /\ ~used[j] => rq[j] = "none" /\ hash[j] = "none"

\* What a call knows of its job at each of its steps.
CallInv ==
  \A p \in Processes :
    /\ api[p].pc \in {"enqueue", "store", "reply"} =>
         api[p].job \in Jobs /\ used[api[p].job]
    /\ api[p].pc \in {"store", "reply"} => rq[api[p].job] # "none"
    /\ api[p].pc = "store" => api[p].key \in Keys

IInv ==
  /\ TypeOK
  /\ \A j \in Jobs : WorkInv(j) /\ VerdictInv(j)
  /\ CallInv
  /\ AnsweredJobIsEnqueued
  /\ VerdictFieldsFit

\* With one API process: whoever was answered was answered with what the key holds,
\* and a call that is creating a job for a key is the first to answer for it.
KeyInv ==
  /\ \A k \in Keys : answered[k] \subseteq {key[k]}
  /\ \A p \in Processes : api[p].key \in Keys =>
       /\ api[p].pc \in {"hash", "enqueue", "store"} => key[api[p].key] = NoJob
       /\ api[p].pc = "reply" => key[api[p].key] = api[p].job

=============================================================================
