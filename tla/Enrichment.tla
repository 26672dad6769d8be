----------------------------- MODULE Enrichment -----------------------------
(***************************************************************************)
(* Geo enrichment of leads: the API handlers that create enrichment jobs   *)
(* (submit_lead and re_enrich_lead in src/app/services/lead_service.py,    *)
(* create_enrichment_job in src/app/core/queue.py), the RQ worker that     *)
(* runs them (src/app/services/lead_worker.py), and the three stores they  *)
(* share without a transaction:                                            *)
(*                                                                         *)
(*   lead, geo   the row of the leads table (status and geo columns)       *)
(*   hash        the Redis hash enrichment_job:{job_id}                    *)
(*   active      the Redis key enrichment:active:{lead_id}                 *)
(*                                                                         *)
(* Which leads table a work horse sees, and what it can do to it, depends  *)
(* on the repository (_get_worker_repo): see BackendKinds.                 *)
(*                                                                         *)
(* Every call to Redis, the database or a geo provider is a step of its    *)
(* own, so handlers, workers, key expiry and crashes interleave.           *)
(*                                                                         *)
(* The operators named Slip... are not part of the specification: each is  *)
(* a plausible mistake in the definition that follows it, kept to show     *)
(* that the properties below would notice.                                 *)
(***************************************************************************)
EXTENDS RqQueue

CONSTANTS
  Leads,     \* lead ids
  Requests,  \* API calls that may be in progress at the same time
  Faults,    \* the kinds of failure this instance is exposed to
  Backends,  \* the arrangements of the leads table it may start with
  NoLead, NoJob

(***************************************************************************)
(* The kinds of failure.  A geo lookup that finds nothing and a lead that  *)
(* is deleted under the worker are always possible.                        *)
(*   raise      an exception in the try block up to the row update         *)
(*   raiseLate  an exception in the try block after the row update         *)
(*   handler    an exception outside the try block (the hash update before *)
(*              it, or a call made by the except branch)                   *)
(*   kill       the work horse dies in an attempt that has retries left    *)
(*   killLast   the work horse dies in the last attempt                    *)
(*   api        create_enrichment_job raises, or the API process dies      *)
(*   ttlActive  enrichment:active keys expire (600 s)                      *)
(*   ttlHash    enrichment_job hashes expire (24 h)                        *)
(***************************************************************************)
FaultKinds == {"raise", "raiseLate", "handler", "kill", "killLast", "api",
               "ttlActive", "ttlHash"}

(***************************************************************************)
(* The leads tables.                                                       *)
(*   shared    API and workers use one repository and every statement does *)
(*             what it says: what the code is written for, and what        *)
(*             tests/test_e2e_widget.py sets up                            *)
(*   memory    no DATABASE_URL: the API process and each work horse have a *)
(*             LeadRepository of their own, the worker's is always empty   *)
(* (On Postgres submit_lead fails after its insert and no job is ever     *)
(* created: see Intake.)                                                   *)
(***************************************************************************)
BackendKinds == {"shared", "memory"}

ASSUME EnrichmentAssumption ==
  /\ Faults \subseteq FaultKinds
  /\ Backends \subseteq BackendKinds
  /\ NoLead \notin Leads
  /\ NoJob \notin Jobs

VARIABLES
  db,      \* the arrangement of the leads table
  lead,    \* lead[l]: status column, or whether the row exists at all
  geo,     \* geo[l]: are the row's geo columns filled?
  leadOf,  \* leadOf[j]: the lead the job id was drawn for (the job's argument)
  hash,    \* hash[j]: status field of enrichment_job:{j}, "none" if no key
  active,  \* active[l]: value of enrichment:active:{l}
  pc,      \* pc[j]: where the work horse running j is
  req      \* req[r]: local state of API call r

storeVars == <<lead, geo, hash, active>>
vars == <<rq, retriesLeft, db, lead, geo, leadOf, hash, active, pc, req>>

RowStatus   == {"pending", "enriched", "failed"}
LeadStatus  == RowStatus \cup {"absent", "deleted"}
HashStatus  == {"none", "queued", "started", "finished", "failed"}
TryBeforeUpdate == {"read", "geo", "write"}
TryAfterUpdate  == {"clear", "publish", "return"}
WorkerPc    == {"idle", "start", "requeue", "mark", "drop", "report", "exit"}
                 \cup TryBeforeUpdate \cup TryAfterUpdate
RequestPc   == {"idle", "check", "hash", "enqueue", "activate"}

RequestState == [pc: RequestPc, lead: Leads \cup {NoLead},
                 seen: LeadStatus, job: Jobs \cup {NoJob}]

IdleRequest == [pc |-> "idle", lead |-> NoLead, seen |-> "absent", job |-> NoJob]

TypeOK ==
  /\ RqTypeOK
  /\ db \in Backends
  /\ lead \in [Leads -> LeadStatus]
  /\ geo \in [Leads -> BOOLEAN]
  /\ leadOf \in [Jobs -> Leads \cup {NoLead}]
  /\ hash \in [Jobs -> HashStatus]
  /\ active \in [Leads -> Jobs \cup {NoJob}]
  /\ pc \in [Jobs -> WorkerPc]
  /\ req \in [Requests -> RequestState]

Init ==
  /\ RqInit
  /\ db \in Backends
  /\ lead = [l \in Leads |-> "absent"]
  /\ geo = [l \in Leads |-> FALSE]
  /\ leadOf = [j \in Jobs |-> NoLead]
  /\ hash = [j \in Jobs |-> "none"]
  /\ active = [l \in Leads |-> NoJob]
  /\ pc = [j \in Jobs |-> "idle"]
  /\ req = [r \in Requests |-> IdleRequest]

-----------------------------------------------------------------------------
(* The API: submit_lead, re_enrich_lead, delete_lead.                      *)

apiFrame == <<rq, retriesLeft, pc, db>>

\* Bound: a call begins only while an unused job id remains for it.
IdsRemain ==
  Cardinality({j \in Jobs : leadOf[j] = NoLead})
    > Cardinality({r \in Requests : req[r].pc \in {"check", "hash"}})

\* Slip: skip_enrich inverted, so that a genuine lead is stored and not enqueued.
SlipSkipEnrich(r, l) ==
  /\ req[r].pc = "idle"
  /\ IdsRemain
  /\ lead[l] = "absent"
  /\ lead' = [lead EXCEPT ![l] = "pending"]
  /\ UNCHANGED <<apiFrame, geo, leadOf, hash, active, req>>

\* submit_lead inserts the row; the enrichment job is created afterwards.
SubmitLead(r, l) ==
  /\ req[r].pc = "idle"
  /\ IdsRemain
  /\ lead[l] = "absent"
  /\ lead' = [lead EXCEPT ![l] = "pending"]
  /\ req' = [req EXCEPT ![r] =
               [pc |-> "hash", lead |-> l, seen |-> "pending", job |-> NoJob]]
  /\ UNCHANGED <<apiFrame, geo, leadOf, hash, active>>

\* re_enrich_lead reads the row (404 without one changes nothing) and keeps it
\* while the active key is fetched in the executor.
ReadForReEnrich(r, l) ==
  /\ req[r].pc = "idle"
  /\ IdsRemain
  /\ lead[l] \in RowStatus
  /\ req' = [req EXCEPT ![r] =
               [pc |-> "check", lead |-> l, seen |-> lead[l], job |-> NoJob]]
  /\ UNCHANGED <<apiFrame, storeVars, leadOf>>

\* Slip: the check as it was before M18, by status only.
SlipStatusOnly(r) == req[r].seen \in {"enriched", "pending"}

MustRefuse(r) ==
  \/ active[req[r].lead] # NoJob
  \/ req[r].seen \in {"enriched", "pending"}

\* 409: an active job is recorded, or the status read earlier forbids it.
RefuseReEnrich(r) ==
  /\ req[r].pc = "check"
  /\ MustRefuse(r)
  /\ req' = [req EXCEPT ![r] = IdleRequest]
  /\ UNCHANGED <<apiFrame, storeVars, leadOf>>

AdmitReEnrich(r) ==
  /\ req[r].pc = "check"
  /\ ~MustRefuse(r)
  /\ req' = [req EXCEPT ![r].pc = "hash"]
  /\ UNCHANGED <<apiFrame, storeVars, leadOf>>

\* create_enrichment_job: a fresh uuid, HSET status=queued and EXPIRE.
CreateJobHash(r) ==
  /\ req[r].pc = "hash"
  /\ \E j \in Jobs :
       /\ leadOf[j] = NoLead
       /\ leadOf' = [leadOf EXCEPT ![j] = req[r].lead]
       /\ hash' = [hash EXCEPT ![j] = "queued"]
       /\ req' = [req EXCEPT ![r] = [@ EXCEPT !.pc = "enqueue", !.job = j]]
  /\ UNCHANGED <<apiFrame, lead, geo, active>>

EnqueueJob(r) ==
  /\ req[r].pc = "enqueue"
  /\ RqEnqueue(req[r].job)
  /\ req' = [req EXCEPT ![r].pc = "activate"]
  /\ UNCHANGED <<db, storeVars, leadOf, pc>>

\* Slip: the arguments of SETEX swapped.
SlipSwappedSetex(r) ==
  /\ req[r].pc = "activate"
  /\ active' = [active EXCEPT ![req[r].lead] = req[r].lead]
  /\ req' = [req EXCEPT ![r] = IdleRequest]
  /\ UNCHANGED <<apiFrame, lead, geo, leadOf, hash>>

\* SETEX enrichment:active:{lead_id} 600 job_id, after the enqueue.
SetActive(r) ==
  /\ req[r].pc = "activate"
  /\ active' = [active EXCEPT ![req[r].lead] = req[r].job]
  /\ req' = [req EXCEPT ![r] = IdleRequest]
  /\ UNCHANGED <<apiFrame, lead, geo, leadOf, hash>>

\* A Redis error inside create_enrichment_job (swallowed by submit_lead, a 500
\* of re_enrich_lead) or the death of the API process.
AbandonCreate(r) ==
  /\ "api" \in Faults
  /\ req[r].pc \in {"hash", "enqueue", "activate"}
  /\ req' = [req EXCEPT ![r] = IdleRequest]
  /\ UNCHANGED <<apiFrame, storeVars, leadOf>>

\* delete_lead and batch_delete_leads remove the row and nothing in Redis.
DeleteLead(l) ==
  /\ lead[l] \in RowStatus
  /\ lead' = [lead EXCEPT ![l] = "deleted"]
  /\ geo' = [geo EXCEPT ![l] = FALSE]
  /\ UNCHANGED <<apiFrame, leadOf, hash, active, req>>

-----------------------------------------------------------------------------
(* run_enrichment_job: the try block.                                      *)

Goto(j, label) == pc' = [pc EXCEPT ![j] = label]

\* The row a work horse finds: its own empty store has none.
Visible(j) == db # "memory" /\ lead[leadOf[j]] \in RowStatus

workerFrame == <<rq, retriesLeft, leadOf, req, db>>

StartAttempt(j) ==
  /\ RqDequeue(j)
  /\ Goto(j, "start")
  /\ UNCHANGED <<db, storeVars, leadOf, req>>

PublishStarted(j) ==
  /\ pc[j] = "start"
  /\ hash' = [hash EXCEPT ![j] = "started"]
  /\ Goto(j, "read")
  /\ UNCHANGED <<workerFrame, lead, geo, active>>

\* Slip: any settled lead, not only an enriched one, takes the shortcut.
SlipSettledShortcut(j) ==
  /\ pc[j] = "read"
  /\ Visible(j)
  /\ Goto(j, IF lead[leadOf[j]] # "pending" THEN "clear" ELSE "geo")
  /\ UNCHANGED <<workerFrame, storeVars>>

\* Slip: no idempotency check.
SlipNoShortcut(j) ==
  /\ pc[j] = "read"
  /\ Visible(j)
  /\ Goto(j, "geo")
  /\ UNCHANGED <<workerFrame, storeVars>>

\* The idempotency check: an enriched lead skips the lookup and the update.
ReadLead(j) ==
  /\ pc[j] = "read"
  /\ Visible(j)
  /\ Goto(j, IF lead[leadOf[j]] = "enriched" THEN "clear" ELSE "geo")
  /\ UNCHANGED <<workerFrame, storeVars>>

GeoFound(j) ==
  /\ pc[j] = "geo"
  /\ Goto(j, "write")
  /\ UNCHANGED <<workerFrame, storeVars>>

WriteEnriched(j) ==
  /\ pc[j] = "write"
  /\ Visible(j)
  /\ lead' = [lead EXCEPT ![leadOf[j]] = "enriched"]
  /\ geo' = [geo EXCEPT ![leadOf[j]] = TRUE]
  /\ Goto(j, "clear")
  /\ UNCHANGED <<workerFrame, hash, active>>

\* clear_enrichment_active deletes the key whatever job it names.
ClearActive(j) ==
  /\ pc[j] = "clear"
  /\ active' = [active EXCEPT ![leadOf[j]] = NoJob]
  /\ Goto(j, "publish")
  /\ UNCHANGED <<workerFrame, lead, geo, hash>>

PublishFinished(j) ==
  /\ pc[j] = "publish"
  /\ hash' = [hash EXCEPT ![j] = "finished"]
  /\ Goto(j, "return")
  /\ UNCHANGED <<workerFrame, lead, geo, active>>

CompleteAttempt(j) ==
  /\ pc[j] = "return"
  /\ RqSucceed(j)
  /\ Goto(j, "idle")
  /\ UNCHANGED <<db, storeVars, leadOf, req>>

-----------------------------------------------------------------------------
(* run_enrichment_job: the except branch.                                  *)

\* Slip: retries_left compared with 1.
SlipRetriesOffByOne(j) == Goto(j, IF retriesLeft[j] > 1 THEN "requeue" ELSE "mark")

\* job.retries_left decides between another attempt and the final failure.
Caught(j) == Goto(j, IF retriesLeft[j] > 0 THEN "requeue" ELSE "mark")

\* ValueError: the row is not there when it is read or updated.
LeadMissing(j) ==
  /\ pc[j] \in {"read", "write"}
  /\ ~Visible(j)
  /\ Caught(j)
  /\ UNCHANGED <<workerFrame, storeVars>>

\* RuntimeError: all geo providers exhausted.
GeoExhausted(j) ==
  /\ pc[j] = "geo"
  /\ Caught(j)
  /\ UNCHANGED <<workerFrame, storeVars>>

\* Redis or database errors and the job timeout.
InfraError(j) ==
  /\ \/ "raise" \in Faults /\ pc[j] \in TryBeforeUpdate
     \/ "raiseLate" \in Faults /\ pc[j] \in TryAfterUpdate
  /\ Caught(j)
  /\ UNCHANGED <<workerFrame, storeVars>>

\* Slip: every failed attempt is published as a failed job.
SlipFailedTooEarly(j) ==
  /\ pc[j] = "requeue"
  /\ hash' = [hash EXCEPT ![j] = "failed"]
  /\ Goto(j, "exit")
  /\ UNCHANGED <<workerFrame, lead, geo, active>>

PublishQueued(j) ==
  /\ pc[j] = "requeue"
  /\ hash' = [hash EXCEPT ![j] = "queued"]
  /\ Goto(j, "exit")
  /\ UNCHANGED <<workerFrame, lead, geo, active>>

\* Slip: the final failure is not written to the lead.
SlipLeadNotMarked(j) ==
  /\ pc[j] = "mark"
  /\ Goto(j, "drop")
  /\ UNCHANGED <<workerFrame, storeVars>>

\* UPDATE leads SET status = 'failed': it leaves the geo columns alone and
\* matches no row when the lead is gone.
MarkFailed(j) ==
  /\ pc[j] = "mark"
  /\ lead' = [lead EXCEPT ![leadOf[j]] = IF Visible(j) THEN "failed" ELSE @]
  /\ Goto(j, "drop")
  /\ UNCHANGED <<workerFrame, geo, hash, active>>

\* "except Exception: pass" around the update.
MarkSwallowed(j) ==
  /\ "handler" \in Faults
  /\ pc[j] = "mark"
  /\ Goto(j, "drop")
  /\ UNCHANGED <<workerFrame, storeVars>>

\* Slip: the final failure is not written to the hash.
SlipNoReport(j) ==
  /\ pc[j] = "drop"
  /\ active' = [active EXCEPT ![leadOf[j]] = NoJob]
  /\ Goto(j, "exit")
  /\ UNCHANGED <<workerFrame, lead, geo, hash>>

DropActive(j) ==
  /\ pc[j] = "drop"
  /\ active' = [active EXCEPT ![leadOf[j]] = NoJob]
  /\ Goto(j, "report")
  /\ UNCHANGED <<workerFrame, lead, geo, hash>>

PublishFailed(j) ==
  /\ pc[j] = "report"
  /\ hash' = [hash EXCEPT ![j] = "failed"]
  /\ Goto(j, "exit")
  /\ UNCHANGED <<workerFrame, lead, geo, active>>

\* The exception leaves run_enrichment_job early.  A hash update is HSET and EXPIRE
\* and may raise before or after the status is written; job.save_meta, which opens
\* the except branch, counts as part of its first step.
HandlerError(j) ==
  /\ "handler" \in Faults
  /\ pc[j] \in {"start", "read", "requeue", "mark", "drop", "report"}
  /\ Goto(j, "exit")
  /\ UNCHANGED <<workerFrame, storeVars>>

\* The re-raised exception reaches RQ.
FailAttempt(j) ==
  /\ pc[j] = "exit"
  /\ RqHandleFailure(j)
  /\ Goto(j, "idle")
  /\ UNCHANGED <<db, storeVars, leadOf, req>>

\* RQ notices a dead work horse; no line of the except branch has run.
KillHorse(j) ==
  /\ pc[j] # "idle"
  /\ IF retriesLeft[j] > 0 THEN "kill" \in Faults ELSE "killLast" \in Faults
  /\ RqHandleFailure(j)
  /\ Goto(j, "idle")
  /\ UNCHANGED <<db, storeVars, leadOf, req>>

-----------------------------------------------------------------------------
(* Time.                                                                   *)

PromoteRetry(j) ==
  /\ RqPromote(j)
  /\ UNCHANGED <<db, storeVars, leadOf, pc, req>>

\* 600 seconds after SETEX.
ExpireActive(l) ==
  /\ "ttlActive" \in Faults
  /\ active[l] # NoJob
  /\ active' = [active EXCEPT ![l] = NoJob]
  /\ UNCHANGED <<rqVars, db, lead, geo, leadOf, hash, pc, req>>

\* 24 hours after the last write: never while an attempt (600 s at most) runs
\* or the creating request is in progress.
ExpireHash(j) ==
  /\ "ttlHash" \in Faults
  /\ hash[j] # "none"
  /\ pc[j] = "idle"
  /\ \A r \in Requests : req[r].job # j
  /\ hash' = [hash EXCEPT ![j] = "none"]
  /\ UNCHANGED <<rqVars, db, lead, geo, leadOf, active, pc, req>>

-----------------------------------------------------------------------------

\* The steps an API call takes by itself once it has begun.
RequestStep(r) ==
  \/ RefuseReEnrich(r)
  \/ AdmitReEnrich(r)
  \/ CreateJobHash(r)
  \/ EnqueueJob(r)
  \/ SetActive(r)

\* The steps of a work horse that is not disturbed from outside.
AttemptStep(j) ==
  \/ PublishStarted(j)
  \/ ReadLead(j)
  \/ GeoFound(j)
  \/ GeoExhausted(j)
  \/ LeadMissing(j)
  \/ WriteEnriched(j)
  \/ ClearActive(j)
  \/ PublishFinished(j)
  \/ CompleteAttempt(j)
  \/ PublishQueued(j)
  \/ MarkFailed(j)
  \/ DropActive(j)
  \/ PublishFailed(j)
  \/ FailAttempt(j)

Disturbance(j) ==
  \/ InfraError(j)
  \/ MarkSwallowed(j)
  \/ HandlerError(j)
  \/ KillHorse(j)

Next ==
  \/ \E r \in Requests :
       \/ \E l \in Leads : SubmitLead(r, l) \/ ReadForReEnrich(r, l)
       \/ RequestStep(r)
       \/ AbandonCreate(r)
  \/ \E j \in Jobs :
       \/ StartAttempt(j)
       \/ AttemptStep(j)
       \/ Disturbance(j)
       \/ PromoteRetry(j)
       \/ ExpireHash(j)
  \/ \E l \in Leads : DeleteLead(l) \/ ExpireActive(l)

Spec == Init /\ [][Next]_vars

(***************************************************************************)
(* The API event loop runs its handlers, an idle worker takes a ready job, *)
(* a work horse runs to its end (job_timeout bounds it), and the scheduler,*)
(* where there is one, promotes due retries.  Nothing forces a client to   *)
(* call the API, a key to expire or a fault to happen.                     *)
(***************************************************************************)
Fairness ==
  /\ \A r \in Requests : WF_vars(RequestStep(r))
  /\ \A j \in Jobs : /\ WF_vars(StartAttempt(j))
                     /\ WF_vars(AttemptStep(j))
                     /\ WF_vars(PromoteRetry(j))

FairSpec == Spec /\ Fairness

-----------------------------------------------------------------------------
(* Properties.                                                             *)

\* Job j has used up every retry and its last attempt has reached, or passed,
\* the point where lead_worker.py records the final failure.
Exhausted(j) ==
  /\ retriesLeft[j] = 0
  /\ \/ rq[j] = "failed"
     \/ rq[j] = "started" /\ pc[j] \in {"drop", "report", "exit"}

\* A lead is shown as failed only on the word of a job that will never run
\* again: no attempt with retries left may give up on a lead, whatever the
\* exceptions, kills and duplicate jobs (lead_worker.py, the retries_left test
\* against RQ's own bookkeeping).
FailedOnlyWhenExhausted ==
  \A l \in Leads : lead[l] = "failed" =>
    \E j \in Jobs : leadOf[j] = l /\ Exhausted(j)

\* A job that reports "finished" has really put geo data on its lead, and no
\* later failure of another job removes it, unless the lead was deleted: the
\* "already_enriched" shortcut and the retry after a lost acknowledgement
\* included.
FinishedHasGeo ==
  \A j \in Jobs : hash[j] = "finished" =>
    lead[leadOf[j]] = "deleted" \/ geo[leadOf[j]]

\* Once a client has been told that a job failed, it never sees that job run
\* or succeed later: a failed hash only ever expires.
FailedIsFinal ==
  [][\A j \in Jobs : hash[j] = "failed" => hash'[j] \in {"failed", "none"}]_vars

\* A request that has passed the checks and has not enqueued its job yet.
Admitted(r) == req[r].pc \in {"hash", "enqueue"}

\* A lead that waits for enrichment is somebody's responsibility: re_enrich_lead
\* refuses pending leads, so one that no live job and no request carries would
\* stay pending for ever.
PendingIsCarried ==
  \A l \in Leads : lead[l] = "pending" =>
    \/ \E j \in Jobs : leadOf[j] = l /\ Live(j)
    \/ \E r \in Requests : req[r].lead = l /\ Admitted(r)

\* A live job that may still look up and write its lead: not one that is only
\* reporting a result or a final failure.
Working(j) ==
  /\ Live(j)
  /\ pc[j] \notin TryAfterUpdate \cup {"drop", "report"}
  /\ ~Exhausted(j)

\* The purpose of the active key (Tier C Resolution, M18: "allows duplicate
\* enrichment jobs ... approved for a fix"): at most one job works on a lead
\* that still needs enrichment.  (On an enriched lead a second job only takes
\* the already_enriched shortcut.)
OneWorkingJobPerLead ==
  \A i, j \in Jobs :
    /\ Working(i) /\ Working(j)
    /\ leadOf[i] = leadOf[j]
    /\ lead[leadOf[i]] \in {"pending", "failed"}
    => i = j

\* README, "Background jobs": the hash of a queued job goes on to finished or
\* failed.
JobReachesVerdict ==
  \A j \in Jobs : hash[j] = "queued" ~> hash[j] \in {"finished", "failed"}

\* Every submitted lead leaves "pending" (or is deleted).
PendingSettles ==
  \A l \in Leads : lead[l] = "pending" ~> lead[l] # "pending"

-----------------------------------------------------------------------------
(* The inductive invariant behind the safety properties.                   *)

\* The work horse of a job, RQ's registries, the retry counter and the hash tell
\* one story: a final failure is handled only in the last attempt, and is
\* published only where no attempt can follow.
JobInv ==
  \A j \in Jobs :
    /\ pc[j] # "idle" <=> rq[j] = "started"
    /\ rq[j] # "none" \/ hash[j] # "none" => leadOf[j] \in Leads
    /\ pc[j] = "requeue" => retriesLeft[j] > 0
    /\ pc[j] \in {"mark", "drop", "report"} \/ rq[j] = "failed" =>
         retriesLeft[j] = 0
    /\ hash[j] = "failed" =>
         retriesLeft[j] = 0 /\ (rq[j] = "failed" \/ pc[j] = "exit")

\* A request past its first read knows its lead, and past CreateJobHash its job.
RequestInv ==
  \A r \in Requests :
    /\ req[r].pc # "idle" => req[r].lead \in Leads
    /\ req[r].pc \in {"enqueue", "activate"} =>
         req[r].job \in Jobs /\ leadOf[req[r].job] = req[r].lead

\* Geo data outlives every change of status; only deletion removes it.
GeoOrDeleted(l) == lead[l] = "deleted" \/ geo[l]

GeoInv ==
  /\ \A l \in Leads : lead[l] = "enriched" => geo[l]
  /\ \A j \in Jobs :
       pc[j] \in TryAfterUpdate \/ hash[j] = "finished" => GeoOrDeleted(leadOf[j])

IInv == TypeOK /\ JobInv /\ RequestInv /\ GeoInv /\ FailedOnlyWhenExhausted

\* Job j will still settle lead l: it has an attempt to come, or its present
\* attempt has neither updated the lead nor given up on it.
Carries(j, l) ==
  /\ leadOf[j] = l
  /\ Live(j)
  /\ pc[j] \notin TryAfterUpdate \cup {"drop", "report"}
  /\ pc[j] = "exit" => retriesLeft[j] > 0

PendingInv ==
  \A l \in Leads : lead[l] = "pending" =>
    \/ \E j \in Jobs : Carries(j, l)
    \/ \E r \in Requests : req[r].lead = l /\ Admitted(r)

\* A job that may still change its lead, or delete the key of its lead on failure.
Holds(j, l) ==
  /\ leadOf[j] = l
  /\ Live(j)
  /\ retriesLeft[j] = 0 => pc[j] \notin {"report", "exit"}

Unsettled(l) == lead[l] \in {"pending", "failed"}

\* The only job that holds an unsettled lead is known by the active key, or to the
\* request that is about to write it.
HolderInv ==
  \A l \in Leads, j \in Jobs : Unsettled(l) /\ Holds(j, l) =>
    /\ \A i \in Jobs : Holds(i, l) => i = j
    /\ active[l] = j \/ \E r \in Requests : req[r].pc = "activate" /\ req[r].job = j
    /\ \A r \in Requests : req[r].lead = l =>
         ~Admitted(r) /\ (req[r].pc = "activate" => req[r].job = j)

\* A job that has updated its lead finds it settled from then on, one that is about to
\* finds it unsettled or gone; leads with jobs or requests were submitted.
RowInv ==
  /\ \A j \in Jobs :
       /\ pc[j] \in TryAfterUpdate => lead[leadOf[j]] \in {"enriched", "deleted"}
       /\ pc[j] \in {"geo", "write", "mark"} =>
            db = "memory" \/ Unsettled(leadOf[j]) \/ lead[leadOf[j]] = "deleted"
       /\ leadOf[j] # NoLead => lead[leadOf[j]] # "absent"
  /\ \A r \in Requests : req[r].pc # "idle" => lead[req[r].lead] # "absent"
  /\ \A l \in Leads : geo[l] => lead[l] = "enriched"

\* On top of IInv, while API calls do not overlap or break off, no attempt raises and no
\* active key expires.
SerialInv == HolderInv /\ RowInv

-----------------------------------------------------------------------------
(* The contract Enrichment implements when calls for one lead do not       *)
(* overlap.                                                                *)

\* A job that can still change its lead, or a request that will create one.
BusyWith(l) ==
  \/ \E j \in Jobs : leadOf[j] = l /\ Live(j)
  \/ \E r \in Requests : req[r].lead = l /\ Admitted(r)

Contract == INSTANCE EnrichmentContract
              WITH status <- lead, filled <- geo,
                   busy <- [l \in Leads |-> BusyWith(l)]

\* Plan section 7 ("If enrichment already completed, skip", "geo fields remain
\* null" on failure) and M18 together: the jobs, keys and retries amount to the
\* contract, its liveness included.
ImplementsContract == Contract!Spec

=============================================================================
