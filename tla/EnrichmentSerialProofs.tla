----------------------- MODULE EnrichmentSerialProofs -----------------------
(***************************************************************************)
(* Theorems about Enrichment where API calls do not overlap, no attempt    *)
(* raises and no key expires: for every number of leads, jobs, workers and *)
(* retries, one job at most works on a lead, and the jobs, keys and        *)
(* registries implement EnrichmentContract.                                *)
(***************************************************************************)
EXTENDS EnrichmentProofs

USE DEF RowStatus, LeadStatus, HashStatus, TryBeforeUpdate, TryAfterUpdate, WorkerPc,
        RequestPc, Registry, RequestState, IdleRequest

\* Work horses may die, hashes may expire, and an exception may leave the job function
\* outside its try block; without the rest each lead has one holder.
OneCallAtATime ==
  /\ \A q, r \in Requests : q = r
  /\ Faults \cap {"raise", "raiseLate", "api", "ttlActive"} = {}

-----------------------------------------------------------------------------
(* What a step of a job leaves alone.                                      *)

JobSteps(j) ==
  \/ StartAttempt(j) \/ AttemptStep(j) \/ Disturbance(j)
  \/ PromoteRetry(j) \/ ExpireHash(j)

LEMMA ByItself ==
  ASSUME TypeOK, NEW j \in Jobs, JobSteps(j)
  PROVE  /\ UNCHANGED <<leadOf, req, db>>
         /\ \A k \in Jobs : k # j => /\ rq'[k] = rq[k] /\ pc'[k] = pc[k]
                                     /\ retriesLeft'[k] = retriesLeft[k]
<1> USE DEF TypeOK, RqTypeOK, workerFrame, storeVars, Goto
<1>1. CASE StartAttempt(j)
  BY <1>1 DEF StartAttempt, RqDequeue
<1>2. CASE Raises(j)
  BY <1>2, Raised
<1>3. CASE PublishStarted(j) \/ ReadLead(j) \/ GeoFound(j) \/ WriteEnriched(j)
           \/ ClearActive(j) \/ PublishFinished(j) \/ PublishQueued(j) \/ MarkFailed(j)
           \/ DropActive(j) \/ PublishFailed(j) \/ HandlerError(j) \/ MarkSwallowed(j)
  BY <1>3 DEF PublishStarted, ReadLead, GeoFound, WriteEnriched, ClearActive,
     PublishFinished, PublishQueued, MarkFailed, DropActive, PublishFailed, HandlerError,
     MarkSwallowed
<1>4. CASE CompleteAttempt(j) \/ FailAttempt(j) \/ KillHorse(j)
  BY <1>4 DEF CompleteAttempt, RqSucceed, FailAttempt, KillHorse, RqHandleFailure
<1>5. CASE PromoteRetry(j) \/ ExpireHash(j)
  BY <1>5 DEF PromoteRetry, RqPromote, ExpireHash, rqVars
<1>6. QED
  BY <1>1, <1>2, <1>3, <1>4, <1>5 DEF JobSteps, AttemptStep, Disturbance, Raises

\* A job that gave its lead up, or has settled it and returned, holds it no more.
LEMMA NoNewHolder ==
  ASSUME TypeOK, JobInv, NEW j \in Jobs, JobSteps(j), NEW l, NEW k \in Jobs, Holds(k, l)'
  PROVE  Holds(k, l)
<1> USE DEF TypeOK, RqTypeOK, workerFrame, storeVars, Goto, Holds, Live
<1>1. leadOf' = leadOf
  BY ByItself
<1>2. CASE k # j
  BY <1>1, <1>2, ByItself
<1>3. CASE k = j
  <2>1. CASE StartAttempt(j)
    BY <1>1, <1>3, <2>1 DEF StartAttempt, RqDequeue, JobInv
  <2>2. CASE Raises(j)
    <3>1. rq' = rq /\ retriesLeft' = retriesLeft /\ pc[j] \notin {"exit", "report"}
      BY <2>2, Raised
    <3>2. QED
      BY <1>1, <1>3, <3>1
  <2>3. CASE PublishStarted(j) \/ ReadLead(j) \/ GeoFound(j) \/ WriteEnriched(j)
             \/ ClearActive(j) \/ PublishFinished(j) \/ PublishQueued(j)
             \/ MarkFailed(j) \/ DropActive(j) \/ PublishFailed(j)
             \/ HandlerError(j) \/ MarkSwallowed(j)
    <3>1. rq' = rq /\ retriesLeft' = retriesLeft /\ pc[j] # "exit"
          /\ (pc[j] = "report" => pc'[j] = "exit")
      BY <2>3 DEF PublishStarted, ReadLead, GeoFound, WriteEnriched, ClearActive,
         PublishFinished, PublishQueued, MarkFailed, DropActive, PublishFailed,
         HandlerError, MarkSwallowed
    <3>2. QED
      BY <1>1, <1>3, <3>1
  <2>4. CASE CompleteAttempt(j) \/ FailAttempt(j) \/ KillHorse(j)
    BY <1>1, <1>3, <2>4 DEF CompleteAttempt, RqSucceed, FailAttempt, KillHorse,
       RqHandleFailure
  <2>5. CASE PromoteRetry(j) \/ ExpireHash(j)
    BY <1>1, <1>3, <2>5 DEF PromoteRetry, RqPromote, ExpireHash, rqVars, JobInv
  <2>6. QED
    BY <2>1, <2>2, <2>3, <2>4, <2>5 DEF JobSteps, AttemptStep, Disturbance, Raises
<1>4. QED
  BY <1>2, <1>3

\* No lead becomes unsettled again but by being submitted.
LEMMA SettledForGood ==
  ASSUME TypeOK, JobInv, RowInv, NEW j \in Jobs, JobSteps(j), NEW l \in Leads
  PROVE  /\ lead'[l] = "pending" => lead[l] = "pending"
         /\ Unsettled(l)' => Unsettled(l)
         /\ lead[l] = "deleted" <=> lead'[l] = "deleted"
         /\ lead[l] = "absent" <=> lead'[l] = "absent"
         /\ lead'[l] = lead[l] \/ leadOf[j] = l
<1> USE DEF TypeOK, RqTypeOK, Unsettled
<1>1. CASE WriteEnriched(j)
  <2>1. lead' = [lead EXCEPT ![leadOf[j]] = "enriched"] /\ lead[leadOf[j]] \in RowStatus
    BY <1>1 DEF WriteEnriched, Visible
  <2>2. QED
    BY <2>1
<1>2. CASE MarkFailed(j)
  <2>1. /\ pc[j] = "mark"
        /\ lead' = [lead EXCEPT ![leadOf[j]] = IF Visible(j) THEN "failed" ELSE @]
    BY <1>2 DEF MarkFailed
  <2>2. CASE Visible(j)
    <3>1. lead' = [lead EXCEPT ![leadOf[j]] = "failed"]
      BY <2>1, <2>2
    <3>2. lead[leadOf[j]] \in {"pending", "failed"}
      BY <2>1, <2>2 DEF Visible, RowInv
    <3>3. QED
      BY <3>1, <3>2
  <2>3. CASE ~Visible(j)
    BY <2>1, <2>3
  <2>4. QED
    BY <2>2, <2>3
<1>3. CASE UNCHANGED lead
  BY <1>3
<1>4. QED
  BY <1>1, <1>2, <1>3 DEF JobSteps, StartAttempt, AttemptStep, Disturbance, storeVars,
     PublishStarted, ReadLead, GeoFound, GeoExhausted, LeadMissing, ClearActive,
     PublishFinished, PublishQueued, DropActive, PublishFailed, CompleteAttempt,
     FailAttempt, InfraError, MarkSwallowed, HandlerError, KillHorse, PromoteRetry,
     ExpireHash

-----------------------------------------------------------------------------
(* One job holds an unsettled lead.                                        *)

\* A step that moves no request, takes up no lead and clears only keys of leads that are
\* settled or that no job holds any more.
LEMMA HolderKept ==
  ASSUME TypeOK, HolderInv, UNCHANGED req,
         \A l \in Leads : Unsettled(l)' => Unsettled(l),
         \A l \in Leads, j \in Jobs : Holds(j, l)' => Holds(j, l),
         \A l \in Leads : \/ active'[l] = active[l]
                          \/ ~Unsettled(l)'
                          \/ \A j \in Jobs : ~Holds(j, l)'
  PROVE  HolderInv'
BY DEF HolderInv, Admitted

\* A call that begins or ends: no other one is on its way.
LEMMA HolderAtRest ==
  ASSUME OneCallAtATime, TypeOK, HolderInv, NEW r \in Requests,
         req[r].pc # "activate", NEW q, req' = [req EXCEPT ![r] = q],
         q.pc # "activate",
         UNCHANGED active,
         \A l \in Leads, j \in Jobs : Unsettled(l)' /\ Holds(j, l)' =>
           Unsettled(l) /\ Holds(j, l) /\ (q.pc \in {"hash", "enqueue"} => q.lead # l)
  PROVE  HolderInv'
<1>1. \A o \in Requests : o = r /\ req'[o] = q /\ req[o].pc # "activate"
  BY DEF OneCallAtATime, TypeOK
<1>2. QED
  BY <1>1 DEF HolderInv, Admitted

LEMMA ApiHolderStep ==
  ASSUME OneCallAtATime, TypeOK, JobInv, RequestInv, HolderInv, RowInv,
         NEW r \in Requests,
         \/ \E l \in Leads : SubmitLead(r, l) \/ ReadForReEnrich(r, l)
         \/ RequestStep(r) \/ AbandonCreate(r)
  PROVE  HolderInv'
<1> USE EnrichmentAssumption DEF TypeOK, RqTypeOK, apiFrame, storeVars
<1>1. ASSUME NEW l \in Leads, SubmitLead(r, l) PROVE HolderInv'
  <2>1. \A j \in Jobs : leadOf[j] # l
    BY <1>1 DEF SubmitLead, RowInv
  <2>2. PICK q : q = [pc |-> "hash", lead |-> l, seen |-> "pending", job |-> NoJob]
    OBVIOUS
  <2>3. q.pc = "hash" /\ q.lead = l
    BY <2>2
  <2>4. /\ req' = [req EXCEPT ![r] = q] /\ lead' = [lead EXCEPT ![l] = "pending"]
        /\ req[r].pc = "idle" /\ UNCHANGED <<rq, retriesLeft, pc, leadOf, active>>
    BY <1>1, <2>2 DEF SubmitLead
  <2>5. \A m \in Leads, j \in Jobs : Unsettled(m)' /\ Holds(j, m)' =>
          Unsettled(m) /\ Holds(j, m) /\ l # m
    BY <2>1, <2>4 DEF Unsettled, Holds, Live
  <2>6. QED
    BY <2>3, <2>4, <2>5, HolderAtRest
<1>2. ASSUME NEW q, req' = [req EXCEPT ![r] = q], req[r].pc # "activate",
             q.pc \notin {"hash", "enqueue", "activate"},
             UNCHANGED <<rq, retriesLeft, pc, lead, leadOf, active>>
      PROVE  HolderInv'
  BY <1>2, HolderAtRest DEF Unsettled, Holds, Live
<1>3. ASSUME NEW l \in Leads, ReadForReEnrich(r, l) PROVE HolderInv'
  <2>1. PICK q : q = [pc |-> "check", lead |-> l, seen |-> lead[l], job |-> NoJob]
    OBVIOUS
  <2>2. q.pc = "check"
    BY <2>1
  <2>3. QED
    BY <1>2, <1>3, <2>1, <2>2 DEF ReadForReEnrich
<1>4. CASE RefuseReEnrich(r)
  BY <1>2, <1>4 DEF RefuseReEnrich
<1>5. CASE AdmitReEnrich(r)
  <2>1. PICK q : q = [req[r] EXCEPT !.pc = "hash"]
    OBVIOUS
  <2>2. q.pc = "hash" /\ q.lead = req[r].lead
    BY <2>1
  <2>3. /\ req[r].pc = "check" /\ active[req[r].lead] = NoJob
        /\ req' = [req EXCEPT ![r] = q]
        /\ UNCHANGED <<rq, retriesLeft, pc, lead, leadOf, active>>
    BY <1>5, <2>1 DEF AdmitReEnrich, MustRefuse
  <2>4. \A o \in Requests : req[o].pc # "activate"
    BY <2>3 DEF OneCallAtATime
  <2>5. \A l \in Leads, j \in Jobs : Unsettled(l) /\ Holds(j, l) => active[l] # NoJob
    BY <2>4 DEF HolderInv
  <2>6. \A l \in Leads, j \in Jobs : Unsettled(l)' /\ Holds(j, l)' =>
          Unsettled(l) /\ Holds(j, l) /\ q.lead # l
    BY <2>2, <2>3, <2>5 DEF Unsettled, Holds, Live
  <2>7. QED
    BY <2>2, <2>3, <2>6, HolderAtRest
<1>6. CASE CreateJobHash(r)
  <2>1. PICK n \in Jobs :
          /\ leadOf[n] = NoLead /\ leadOf' = [leadOf EXCEPT ![n] = req[r].lead]
          /\ req' = [req EXCEPT ![r] = [@ EXCEPT !.pc = "enqueue", !.job = n]]
    BY <1>6 DEF CreateJobHash
  <2>2. PICK q : q = [req[r] EXCEPT !.pc = "enqueue", !.job = n]
    OBVIOUS
  <2>3. q.pc = "enqueue" /\ q.lead = req[r].lead
    <3>1. \A s \in RequestState : LET x == [s EXCEPT !.pc = "enqueue", !.job = n]
                                  IN  x.pc = "enqueue" /\ x.lead = s.lead
      OBVIOUS
    <3>2. QED
      BY <2>2, <3>1
  <2>4. /\ req[r].pc = "hash" /\ req' = [req EXCEPT ![r] = q]
        /\ UNCHANGED <<rq, retriesLeft, pc, lead, active>>
    BY <1>6, <2>1, <2>2 DEF CreateJobHash
  <2>5. ~Live(n)
    BY <2>1 DEF JobInv, Live
  <2>6. \A l \in Leads, j \in Jobs : Unsettled(l)' /\ Holds(j, l)' =>
          Unsettled(l) /\ Holds(j, l)
    BY <2>1, <2>4, <2>5 DEF Unsettled, Holds, Live
  <2>7. \A l \in Leads, j \in Jobs : Unsettled(l) /\ Holds(j, l) => q.lead # l
    BY <2>3, <2>4 DEF HolderInv, Admitted
  <2>8. \A l \in Leads, j \in Jobs : Unsettled(l)' /\ Holds(j, l)' =>
          Unsettled(l) /\ Holds(j, l) /\ q.lead # l
    BY <2>6, <2>7
  <2>9. QED
    BY <2>3, <2>4, <2>8, HolderAtRest, ZenonT(30)
<1>7. CASE EnqueueJob(r)
  <2>1. /\ req[r].pc = "enqueue" /\ rq[req[r].job] = "none"
        /\ rq' = [rq EXCEPT ![req[r].job] = "queued"]
        /\ req' = [req EXCEPT ![r].pc = "activate"]
        /\ UNCHANGED <<retriesLeft, pc, lead, leadOf, active>>
    BY <1>7 DEF EnqueueJob, RqEnqueue
  <2>2. req[r].job \in Jobs /\ leadOf[req[r].job] = req[r].lead /\ req[r].lead \in Leads
    BY <2>1 DEF RequestInv
  <2>3. /\ req'[r].pc = "activate" /\ req'[r].job = req[r].job
        /\ req'[r].lead = req[r].lead
        /\ \A o \in Requests : o = r
    BY <2>1 DEF OneCallAtATime
  <2> SUFFICES ASSUME NEW l \in Leads, NEW j \in Jobs, Unsettled(l)', Holds(j, l)'
               PROVE  /\ \A i \in Jobs : Holds(i, l)' => i = j
                      /\ \/ active'[l] = j
                         \/ \E o \in Requests : req'[o].pc = "activate" /\ req'[o].job = j
                      /\ \A o \in Requests : req'[o].lead = l =>
                           ~Admitted(o)' /\ (req'[o].pc = "activate" => req'[o].job = j)
    BY DEF HolderInv
  <2>4. Unsettled(l) /\ \A k \in Jobs : Holds(k, l)' => Holds(k, l) \/ k = req[r].job
    BY <2>1 DEF Unsettled, Holds, Live
  <2>5. CASE req[r].lead = l
    <3>1. \A k \in Jobs : ~Holds(k, l)
      BY <2>1, <2>4, <2>5 DEF HolderInv, Admitted
    <3>2. \A k \in Jobs : Holds(k, l)' => k = req[r].job
      BY <2>4, <3>1
    <3>3. QED
      BY <2>3, <3>2 DEF Admitted
  <2>6. CASE req[r].lead # l
    <3>1. \A k \in Jobs : Holds(k, l)' => Holds(k, l)
      BY <2>1, <2>2, <2>4, <2>6 DEF Holds
    <3>2. active[l] = j /\ \A i \in Jobs : Holds(i, l) => i = j
      BY <2>1, <2>3, <2>4, <3>1 DEF HolderInv
    <3>3. QED
      BY <2>1, <2>3, <2>6, <3>1, <3>2
  <2>7. QED
    BY <2>5, <2>6
<1>8. CASE SetActive(r)
  <2>1. /\ req[r].pc = "activate" /\ req' = [req EXCEPT ![r] = IdleRequest]
        /\ active' = [active EXCEPT ![req[r].lead] = req[r].job]
        /\ UNCHANGED <<rq, retriesLeft, pc, lead, leadOf>>
    BY <1>8 DEF SetActive
  <2>2. \A o \in Requests : o = r /\ req'[o].pc = "idle"
    BY <2>1 DEF OneCallAtATime
  <2>3. leadOf[req[r].job] = req[r].lead
    BY <2>1 DEF RequestInv
  <2>4. \A l \in Leads, j \in Jobs : /\ Unsettled(l)' => Unsettled(l)
                                     /\ Holds(j, l)' => Holds(j, l)
    BY <2>1 DEF Unsettled, Holds, Live
  <2>5. ASSUME NEW l \in Leads, NEW j \in Jobs, Unsettled(l), Holds(j, l)
        PROVE  active'[l] = j /\ \A i \in Jobs : Holds(i, l) => i = j
    <3>1. /\ \A i \in Jobs : Holds(i, l) => i = j
          /\ active[l] = j \/ req[r].job = j
          /\ req[r].lead = l => req[r].job = j
      BY <2>1, <2>2, <2>5 DEF HolderInv
    <3>2. leadOf[j] = l
      BY <2>5 DEF Holds
    <3>3. QED
      BY <2>1, <2>3, <3>1, <3>2
  <2>6. QED
    BY <2>2, <2>4, <2>5 DEF HolderInv, Admitted
<1>9. CASE AbandonCreate(r)
  BY <1>9 DEF AbandonCreate, OneCallAtATime
<1>10. QED
  BY <1>1, <1>3, <1>4, <1>5, <1>6, <1>7, <1>8, <1>9 DEF RequestStep

LEMMA HolderStep ==
  ASSUME OneCallAtATime, TypeOK, JobInv, RequestInv, HolderInv, RowInv, [Next]_vars
  PROVE  HolderInv'
<1>1. ASSUME NEW j \in Jobs, JobSteps(j) PROVE HolderInv'
  <2>1. ASSUME NEW l \in Leads
        PROVE  \/ active'[l] = active[l]
               \/ ~Unsettled(l)'
               \/ \A k \in Jobs : ~Holds(k, l)'
    <3>1. CASE ClearActive(j)
      <4>1. /\ active' = [active EXCEPT ![leadOf[j]] = NoJob] /\ UNCHANGED lead
            /\ pc[j] = "clear"
        BY <3>1 DEF ClearActive
      <4>2. ~Unsettled(leadOf[j])
        BY <4>1 DEF RowInv, Unsettled
      <4>3. QED
        BY <4>1, <4>2 DEF Unsettled, TypeOK
    <3>2. CASE DropActive(j)
      <4>1. /\ active' = [active EXCEPT ![leadOf[j]] = NoJob] /\ UNCHANGED <<lead, leadOf>>
            /\ pc[j] = "drop" /\ pc' = [pc EXCEPT ![j] = "report"]
            /\ UNCHANGED <<rq, retriesLeft>>
        BY <3>2 DEF DropActive, Goto, workerFrame
      <4>2. CASE leadOf[j] = l /\ Unsettled(l)
        <5>1. Holds(j, l) /\ ~Holds(j, l)'
          BY <4>1, <4>2 DEF Holds, Live, JobInv, TypeOK
        <5>2. \A k \in Jobs : Holds(k, l)' => Holds(k, l)
          BY <1>1, NoNewHolder
        <5>3. QED
          BY <4>2, <5>1, <5>2 DEF HolderInv
      <4>3. CASE leadOf[j] # l
        BY <4>1, <4>3 DEF TypeOK
      <4>4. CASE ~Unsettled(l)
        BY <4>1, <4>4 DEF Unsettled
      <4>5. QED
        BY <4>2, <4>3, <4>4
    <3>3. CASE UNCHANGED active
      BY <3>3
    <3>4. QED
      BY <1>1, <3>1, <3>2, <3>3 DEF JobSteps, StartAttempt, AttemptStep, Disturbance,
         storeVars, PublishStarted, ReadLead, GeoFound, GeoExhausted, LeadMissing,
         WriteEnriched, PublishFinished, PublishQueued, MarkFailed, PublishFailed,
         CompleteAttempt, FailAttempt, InfraError, MarkSwallowed, HandlerError, KillHorse,
         PromoteRetry, ExpireHash
  <2>2. req' = req
    BY <1>1, ByItself
  <2>3. QED
    BY <1>1, <2>1, <2>2, NoNewHolder, SettledForGood, HolderKept
<1>2. ASSUME NEW l \in Leads, DeleteLead(l) PROVE HolderInv'
  <2>1. /\ lead' = [lead EXCEPT ![l] = "deleted"]
        /\ UNCHANGED <<rq, retriesLeft, pc, leadOf, active, req>>
    BY <1>2 DEF DeleteLead, apiFrame
  <2>2. QED
    BY <2>1, HolderKept DEF Unsettled, Holds, Live, TypeOK
<1>3. ASSUME NEW l \in Leads, ExpireActive(l) PROVE FALSE
  BY <1>3 DEF ExpireActive, OneCallAtATime
<1>4. CASE UNCHANGED vars
  BY <1>4, HolderKept DEF vars, Unsettled, Holds, Live
<1>5. QED
  BY <1>1, <1>2, <1>3, <1>4, ApiHolderStep, NextCases DEF StepCases, JobSteps

-----------------------------------------------------------------------------
(* A lead is updated while it is unsettled, and left alone from then on.   *)

\* The ways into the steps that RowInv speaks of.
LEMMA Arrivals ==
  ASSUME TypeOK, JobInv, Faults \cap {"raise", "raiseLate"} = {},
         NEW j \in Jobs, JobSteps(j)
  PROVE  /\ pc'[j] \in TryAfterUpdate =>
              \/ pc[j] \in TryAfterUpdate
              \/ pc[j] = "read" /\ lead[leadOf[j]] = "enriched" /\ lead' = lead
              \/ pc[j] = "write" /\ lead' = [lead EXCEPT ![leadOf[j]] = "enriched"]
         /\ pc'[j] \in {"geo", "write", "mark"} =>
              \/ lead' = lead /\ pc[j] \in {"geo", "write"}
              \/ lead' = lead /\ pc[j] = "read" /\ Visible(j)
                 /\ lead[leadOf[j]] # "enriched"
              \/ lead' = lead /\ pc[j] = "read" /\ ~Visible(j)
<1> USE DEF TypeOK, RqTypeOK, workerFrame, storeVars, Goto
<1>1. CASE StartAttempt(j)
  BY <1>1 DEF StartAttempt
<1>2. CASE GeoExhausted(j) \/ LeadMissing(j)
  BY <1>2 DEF GeoExhausted, LeadMissing, Caught
<1>3. CASE InfraError(j)
  BY <1>3 DEF InfraError
<1>4. CASE ReadLead(j)
  BY <1>4 DEF ReadLead
<1>5. CASE WriteEnriched(j)
  BY <1>5 DEF WriteEnriched
<1>6. CASE PublishStarted(j) \/ GeoFound(j) \/ ClearActive(j) \/ PublishFinished(j)
           \/ PublishQueued(j) \/ MarkFailed(j) \/ DropActive(j) \/ PublishFailed(j)
           \/ HandlerError(j) \/ MarkSwallowed(j)
  BY <1>6 DEF PublishStarted, GeoFound, ClearActive, PublishFinished, PublishQueued,
     MarkFailed, DropActive, PublishFailed, HandlerError, MarkSwallowed
<1>7. CASE CompleteAttempt(j) \/ FailAttempt(j) \/ KillHorse(j)
  BY <1>7 DEF CompleteAttempt, FailAttempt, KillHorse
<1>8. CASE PromoteRetry(j) \/ ExpireHash(j)
  BY <1>8 DEF PromoteRetry, RqPromote, ExpireHash, JobInv
<1>9. QED
  BY <1>1, <1>2, <1>3, <1>4, <1>5, <1>6, <1>7, <1>8 DEF JobSteps, AttemptStep, Disturbance

\* The two updates of a row: by the only job that holds it, before it is settled.
LEMMA Updates ==
  ASSUME TypeOK, JobInv, HolderInv, RowInv, NEW j \in Jobs, JobSteps(j)
  PROVE  \/ lead' = lead /\ geo' = geo
         \/ LET l == leadOf[j]
            IN  /\ l \in Leads /\ Unsettled(l) /\ Holds(j, l)
                /\ \A i \in Jobs : Holds(i, l) => i = j
                /\ db # "memory"
                /\ \/ /\ WriteEnriched(j) /\ pc'[j] = "clear"
                      /\ lead' = [lead EXCEPT ![l] = "enriched"]
                      /\ geo' = [geo EXCEPT ![l] = TRUE]
                   \/ /\ MarkFailed(j) /\ pc'[j] = "drop"
                      /\ lead' = [lead EXCEPT ![l] = "failed"] /\ geo' = geo
<1> USE DEF TypeOK, RqTypeOK
<1>1. ASSUME pc[j] \in {"write", "mark"}, Visible(j)
      PROVE  LET l == leadOf[j]
             IN  /\ l \in Leads /\ Unsettled(l) /\ Holds(j, l)
                 /\ \A i \in Jobs : Holds(i, l) => i = j
                 /\ db # "memory"
  <2>1. rq[j] = "started" /\ leadOf[j] \in Leads
    BY <1>1 DEF JobInv
  <2>2. db # "memory" /\ Unsettled(leadOf[j])
    BY <1>1 DEF Visible, RowInv, Unsettled
  <2>3. Holds(j, leadOf[j])
    BY <1>1, <2>1 DEF Holds, Live
  <2>4. QED
    BY <2>1, <2>2, <2>3 DEF HolderInv
<1>2. CASE WriteEnriched(j)
  BY <1>1, <1>2 DEF WriteEnriched, Goto
<1>3. CASE MarkFailed(j)
  <2>1. /\ pc[j] = "mark" /\ pc'[j] = "drop" /\ geo' = geo
        /\ lead' = [lead EXCEPT ![leadOf[j]] = IF Visible(j) THEN "failed" ELSE @]
    BY <1>3 DEF MarkFailed, Goto
  <2>2. CASE Visible(j)
    BY <1>1, <1>3, <2>1, <2>2
  <2>3. CASE ~Visible(j)
    <3>1. lead' = lead
      BY <2>1, <2>3
    <3>2. QED
      BY <2>1, <3>1
  <2>4. QED
    BY <2>2, <2>3
<1>4. CASE UNCHANGED <<lead, geo>>
  BY <1>4
<1>5. QED
  BY <1>2, <1>3, <1>4 DEF JobSteps, StartAttempt, AttemptStep, Disturbance,
     storeVars, PublishStarted, ReadLead, GeoFound, GeoExhausted, LeadMissing, ClearActive,
     PublishFinished, PublishQueued, DropActive, PublishFailed, CompleteAttempt,
     FailAttempt, InfraError, MarkSwallowed, HandlerError, KillHorse, PromoteRetry,
     ExpireHash

LEMMA RowStep ==
  ASSUME Faults \cap {"raise", "raiseLate"} = {},
         TypeOK, JobInv, RequestInv, HolderInv, RowInv, [Next]_vars
  PROVE  RowInv'
<1> USE EnrichmentAssumption DEF TypeOK, RqTypeOK
<1>1. \A k \in Jobs : pc[k] # "idle" => leadOf[k] \in Leads /\ rq[k] = "started"
  BY DEF JobInv
<1>2. ASSUME NEW r \in Requests, NEW l \in Leads,
             SubmitLead(r, l) \/ ReadForReEnrich(r, l)
      PROVE  RowInv'
  <2>1. \A k \in Jobs : lead[l] = "absent" => leadOf[k] # l
    BY DEF RowInv
  <2>2. /\ UNCHANGED <<geo, pc, leadOf, db>> /\ lead'[l] # "absent"
        /\ \A m \in Leads : lead'[m] = lead[m] \/ (m = l /\ lead[l] = "absent")
        /\ req'[r].pc # "idle" /\ req'[r].lead = l
        /\ \A o \in Requests : o # r => req'[o] = req[o]
    <3>1. CASE SubmitLead(r, l)
      <4>1. PICK q : q = [pc |-> "hash", lead |-> l, seen |-> "pending", job |-> NoJob]
        OBVIOUS
      <4>2. q.pc = "hash" /\ q.lead = l
        BY <4>1
      <4>3. QED
        BY <3>1, <4>1, <4>2 DEF SubmitLead, apiFrame
    <3>2. CASE ReadForReEnrich(r, l)
      <4>1. PICK q : q = [pc |-> "check", lead |-> l, seen |-> lead[l], job |-> NoJob]
        OBVIOUS
      <4>2. q.pc = "check" /\ q.lead = l
        BY <4>1
      <4>3. /\ req' = [req EXCEPT ![r] = q] /\ lead[l] # "absent"
            /\ UNCHANGED <<lead, geo, pc, leadOf, db>>
        BY <3>2, <4>1 DEF ReadForReEnrich, apiFrame, storeVars
      <4>4. QED
        BY <4>2, <4>3
    <3>3. QED
      BY <1>2, <3>1, <3>2
  <2>3. QED
    BY <1>1, <2>1, <2>2 DEF RowInv, Unsettled, RequestInv
<1>3. ASSUME NEW r \in Requests, RequestStep(r) \/ AbandonCreate(r)
      PROVE  RowInv'
  <2>1. CASE RefuseReEnrich(r) \/ AdmitReEnrich(r) \/ SetActive(r) \/ AbandonCreate(r)
    BY <2>1 DEF RefuseReEnrich, AdmitReEnrich, SetActive, AbandonCreate, apiFrame,
       storeVars, RowInv, Unsettled
  <2>2. CASE CreateJobHash(r)
    <3>1. PICK n \in Jobs :
            /\ leadOf[n] = NoLead /\ leadOf' = [leadOf EXCEPT ![n] = req[r].lead]
            /\ req' = [req EXCEPT ![r] = [@ EXCEPT !.pc = "enqueue", !.job = n]]
      BY <2>2 DEF CreateJobHash
    <3>2. /\ req[r].pc = "hash" /\ UNCHANGED <<lead, geo, pc, db>>
      BY <2>2 DEF CreateJobHash, apiFrame
    <3>3. \A o \in Requests : req'[o].lead = req[o].lead
          /\ (req'[o].pc # "idle" => req[o].pc # "idle")
      BY <3>1, <3>2
    <3>4. pc[n] = "idle" /\ lead[req[r].lead] # "absent"
      BY <1>1, <3>1, <3>2 DEF RowInv
    <3>5. \A k \in Jobs : leadOf'[k] = leadOf[k] \/ (k = n /\ leadOf'[k] = req[r].lead)
      <4>1. leadOf' = [leadOf EXCEPT ![n] = req[r].lead]
        BY <3>1
      <4>2. QED
        BY <4>1
    <3>6. QED
      BY <3>2, <3>3, <3>4, <3>5 DEF RowInv, Unsettled
  <2>3. CASE EnqueueJob(r)
    BY <2>3 DEF EnqueueJob, storeVars, RowInv, Unsettled
  <2>4. QED
    BY <1>3, <2>1, <2>2, <2>3 DEF RequestStep
<1>4. ASSUME NEW j \in Jobs, JobSteps(j) PROVE RowInv'
  <2>1. /\ UNCHANGED <<leadOf, req, db>>
        /\ \A k \in Jobs : k # j => pc'[k] = pc[k]
    BY <1>4, ByItself
  <2>2. \A l \in Leads : /\ lead[l] = "deleted" <=> lead'[l] = "deleted"
                         /\ lead[l] = "absent" <=> lead'[l] = "absent"
                         /\ lead'[l] = lead[l] \/ leadOf[j] = l
    BY <1>4, SettledForGood
  <2>3. CASE lead' = lead /\ geo' = geo
    <3>1. ASSUME NEW k \in Jobs, pc'[k] \in TryAfterUpdate
          PROVE  lead'[leadOf'[k]] \in {"enriched", "deleted"}
      <4>1. CASE k = j
        <5>1. \/ pc[j] \in TryAfterUpdate
              \/ pc[j] = "read" /\ lead[leadOf[j]] = "enriched" /\ lead' = lead
              \/ pc[j] = "write" /\ lead' = [lead EXCEPT ![leadOf[j]] = "enriched"]
          BY <1>4, <3>1, <4>1, Arrivals
        <5>2. pc[j] = "write" => leadOf[j] \in Leads
          BY <1>1
        <5>3. QED
          BY <2>1, <2>3, <4>1, <5>1, <5>2 DEF RowInv
      <4>2. CASE k # j
        BY <2>1, <2>3, <3>1, <4>2 DEF RowInv
      <4>3. QED
        BY <4>1, <4>2
    <3>2. ASSUME NEW k \in Jobs, pc'[k] \in {"geo", "write", "mark"}
          PROVE  db = "memory" \/ lead[leadOf[k]] \in {"pending", "failed", "deleted"}
      <4>1. CASE k = j
        <5>1. CASE pc[j] \in {"geo", "write"}
          BY <4>1, <5>1 DEF RowInv, Unsettled
        <5>2. CASE pc[j] = "read" /\ Visible(j) /\ lead[leadOf[j]] # "enriched"
          BY <4>1, <5>2 DEF Visible
        <5>3. CASE pc[j] = "read" /\ ~Visible(j)
          <6>1. leadOf[j] \in Leads /\ lead[leadOf[j]] # "absent"
            BY <1>1, <5>3 DEF RowInv
          <6>2. QED
            BY <4>1, <5>3, <6>1 DEF Visible
        <5>4. QED
          BY <1>4, <3>2, <4>1, <5>1, <5>2, <5>3, Arrivals
      <4>2. CASE k # j
        BY <2>1, <3>2, <4>2 DEF RowInv, Unsettled
      <4>3. QED
        BY <4>1, <4>2
    <3>3. QED
      BY <2>1, <2>3, <3>1, <3>2 DEF RowInv, Unsettled
  <2>4. ASSUME NEW l \in Leads, l = leadOf[j], Unsettled(l),
               \A i \in Jobs : Holds(i, l) => i = j,
               \/ /\ pc'[j] = "clear"
                  /\ lead' = [lead EXCEPT ![l] = "enriched"]
                  /\ geo' = [geo EXCEPT ![l] = TRUE]
               \/ /\ pc'[j] = "drop"
                  /\ lead' = [lead EXCEPT ![l] = "failed"] /\ geo' = geo
        PROVE  RowInv'
    <3>1. \A k \in Jobs : k # j /\ pc[k] \in {"geo", "write", "mark"} => leadOf[k] # l
      BY <1>1, <2>4 DEF Holds, Live
    <3>2. \A k \in Jobs : k # j /\ pc[k] \in TryAfterUpdate => leadOf[k] # l
      BY <2>4 DEF RowInv, Unsettled
    <3>3. ~geo[l]
      BY <2>4 DEF RowInv, Unsettled
    <3>4. \A k \in Jobs : pc'[k] \in TryAfterUpdate =>
            lead'[leadOf[k]] \in {"enriched", "deleted"}
      BY <1>1, <2>1, <2>2, <2>4, <3>2 DEF RowInv
    <3>5. \A k \in Jobs : pc'[k] \in {"geo", "write", "mark"} =>
            db = "memory" \/ lead'[leadOf[k]] \in {"pending", "failed", "deleted"}
      BY <1>1, <2>1, <2>2, <2>4, <3>1 DEF RowInv, Unsettled
    <3>6. \A m \in Leads : geo'[m] => lead'[m] = "enriched"
      BY <2>4, <3>3 DEF RowInv
    <3>7. \A k \in Jobs : leadOf[k] # NoLead => lead'[leadOf[k]] # "absent"
      BY <2>2 DEF RowInv
    <3>8. \A r \in Requests : req[r].pc # "idle" => lead'[req[r].lead] # "absent"
      BY <2>2 DEF RowInv, RequestInv
    <3>9. QED
      BY <2>1, <3>4, <3>5, <3>6, <3>7, <3>8 DEF RowInv, Unsettled
  <2>5. QED
    BY <1>4, <2>3, <2>4, Updates
<1>5. ASSUME NEW l \in Leads, DeleteLead(l) \/ ExpireActive(l)
      PROVE  RowInv'
  <2>1. CASE DeleteLead(l)
    <3>1. /\ lead' = [lead EXCEPT ![l] = "deleted"] /\ geo' = [geo EXCEPT ![l] = FALSE]
          /\ UNCHANGED <<pc, leadOf, req, db>>
      BY <2>1 DEF DeleteLead, apiFrame
    <3>2. QED
      BY <1>1, <3>1 DEF RowInv, Unsettled, RequestInv
  <2>2. CASE ExpireActive(l)
    BY <2>2 DEF ExpireActive, RowInv, Unsettled
  <2>3. QED
    BY <1>5, <2>1, <2>2
<1>6. CASE UNCHANGED vars
  BY <1>6 DEF vars, RowInv, Unsettled
<1>7. QED
  BY <1>2, <1>3, <1>4, <1>5, <1>6, NextCases DEF StepCases, JobSteps

-----------------------------------------------------------------------------
(* One job at a time.                                                      *)

\* One call at a time, no attempt that raises: what each lead's row, key and jobs say
\* (Enrichment.SerialInv) is inductive on top of Enrichment.IInv.
THEOREM SerialSafety ==
  ASSUME OneCallAtATime
  PROVE  Spec => []SerialInv
<1>1. Init => SerialInv
  <2> SUFFICES ASSUME Init PROVE SerialInv
    OBVIOUS
  <2>1. \A j \in Jobs : ~Live(j) /\ pc[j] = "idle" /\ leadOf[j] = NoLead
    BY DEF Init, RqInit, Live
  <2>2. /\ \A r \in Requests : req[r].pc = "idle"
        /\ \A l \in Leads : ~geo[l]
    BY DEF Init
  <2>3. QED
    BY <2>1, <2>2 DEF SerialInv, HolderInv, RowInv, Holds
<1>2. IInv /\ SerialInv /\ [Next]_vars => SerialInv'
  BY HolderStep, RowStep DEF IInv, SerialInv, OneCallAtATime
<1>3. QED
  BY <1>1, <1>2, Safety, PTL DEF Spec

\* At most one job works on a lead that still needs it, for any number of leads, jobs,
\* workers and retries, and wherever work horses die (Enrichment.OneWorkingJobPerLead):
\* what the active key was introduced for, and more than it gives to calls that overlap.
THEOREM OneJobWorksOnALead ==
  ASSUME OneCallAtATime
  PROVE  Spec => []OneWorkingJobPerLead
<1>1. IInv /\ SerialInv => OneWorkingJobPerLead
  <2> SUFFICES ASSUME IInv, SerialInv, NEW i \in Jobs, NEW j \in Jobs,
                      Working(i), Working(j), leadOf[i] = leadOf[j],
                      lead[leadOf[i]] \in {"pending", "failed"}
               PROVE  i = j
    BY DEF OneWorkingJobPerLead
  <2>1. \A k \in Jobs : Working(k) => leadOf[k] \in Leads /\ Holds(k, leadOf[k])
    BY DEF IInv, JobInv, Working, Live, Holds, Exhausted
  <2>2. QED
    BY <2>1 DEF SerialInv, HolderInv, Unsettled
<1>2. QED
  BY <1>1, Safety, SerialSafety, PTL

-----------------------------------------------------------------------------
(* The contract.                                                           *)

\* The run "serial": one repository, work horses that may die while retries are left.
ContractKept == OneCallAtATime /\ NothingStrandsLeads

Busy == [l \in Leads |-> BusyWith(l)]

LEMMA BusyIsBoolean ==
  /\ Busy \in [Leads -> BOOLEAN] /\ Busy' \in [Leads -> BOOLEAN]
  /\ \A l \in Leads : (Busy[l] <=> BusyWith(l)) /\ (Busy'[l] <=> BusyWith(l)')
<1>1. \A l \in Leads : BusyWith(l) \in BOOLEAN /\ BusyWith(l)' \in BOOLEAN
  BY Zenon DEF BusyWith
<1>2. Busy = [l \in Leads |-> BusyWith(l)] /\ Busy' = [l \in Leads |-> BusyWith(l)']
  BY DEF Busy
<1>3. QED
  BY <1>1, <1>2, Zenon

\* Two Boolean functions that agree everywhere, or everywhere but at one lead.
LEMMA SameBooleans ==
  ASSUME NEW f \in [Leads -> BOOLEAN], NEW g \in [Leads -> BOOLEAN],
         \A l \in Leads : g[l] <=> f[l]
  PROVE  g = f
<1>1. \A l \in Leads : g[l] = f[l]
  BY Zenon
<1>2. QED
  BY <1>1

LEMMA SameBut ==
  ASSUME NEW f \in [Leads -> BOOLEAN], NEW g \in [Leads -> BOOLEAN], NEW m \in Leads,
         \A l \in Leads \ {m} : g[l] <=> f[l]
  PROVE  /\ g[m] => g = [f EXCEPT ![m] = TRUE]
         /\ ~g[m] => g = [f EXCEPT ![m] = FALSE]
<1>1. ASSUME g[m] PROVE g = [f EXCEPT ![m] = TRUE]
  <2>1. PICK h : h = [f EXCEPT ![m] = TRUE]
    OBVIOUS
  <2>2. h \in [Leads -> BOOLEAN] /\ h[m] /\ \A l \in Leads \ {m} : h[l] = f[l]
    BY <2>1
  <2>3. \A l \in Leads : g[l] <=> h[l]
    BY <1>1, <2>2, Zenon
  <2>4. QED
    BY <2>1, <2>2, <2>3, SameBooleans
<1>2. ASSUME ~g[m] PROVE g = [f EXCEPT ![m] = FALSE]
  <2>1. PICK h : h = [f EXCEPT ![m] = FALSE]
    OBVIOUS
  <2>2. h \in [Leads -> BOOLEAN] /\ ~h[m] /\ \A l \in Leads \ {m} : h[l] = f[l]
    BY <2>1
  <2>3. \A l \in Leads : g[l] <=> h[l]
    BY <1>2, <2>2, Zenon
  <2>4. QED
    BY <2>1, <2>2, <2>3, SameBooleans
<1>3. QED
  BY <1>1, <1>2

\* A step that changes no row, and no jobs or requests but those of one lead.
LEMMA RowsUntouched ==
  ASSUME TypeOK, PendingIsCarried, PendingIsCarried', RequestInv', RowInv',
         UNCHANGED <<lead, geo>>, NEW m \in Leads,
         \A l \in Leads \ {m} : BusyWith(l)' <=> BusyWith(l)
  PROVE  [Contract!Next]_Contract!vars
<1>1. lead[m] \in LeadStatus
  BY DEF TypeOK
<1>2. \A l \in Leads : lead[l] = "pending" => BusyWith(l) /\ BusyWith(l)'
  BY DEF PendingIsCarried, BusyWith
<1>3. CASE BusyWith(m)' <=> BusyWith(m)
  <2>1. Busy' = Busy
    BY <1>3, BusyIsBoolean, SameBooleans
  <2>2. QED
    BY <2>1 DEF Contract!vars, Busy
<1>4. CASE BusyWith(m) /\ ~BusyWith(m)'
  <2>1. Busy[m] /\ Busy' = [Busy EXCEPT ![m] = FALSE]
    BY <1>4, BusyIsBoolean, SameBut
  <2>2. lead[m] # "pending"
    BY <1>2, <1>4
  <2>3. Contract!Release(m)
    BY <2>1, <2>2 DEF Contract!Release, Busy
  <2>4. QED
    BY <2>3 DEF Contract!Next
<1>5. CASE ~BusyWith(m) /\ BusyWith(m)'
  <2>1. Busy' = [Busy EXCEPT ![m] = TRUE]
    BY <1>5, BusyIsBoolean, SameBut
  <2>2. lead[m] # "pending"
    BY <1>2, <1>5
  <2>3. lead[m] # "absent"
    <3>1. CASE \E j \in Jobs : leadOf'[j] = m
      BY <3>1, EnrichmentAssumption DEF RowInv
    <3>2. CASE \E r \in Requests : req'[r].lead = m /\ req'[r].pc # "idle"
      BY <3>2 DEF RowInv
    <3>3. QED
      BY <1>5, <3>1, <3>2 DEF BusyWith, Admitted
  <2>4. Contract!ReEnrich(m)
    BY <1>1, <2>1, <2>2, <2>3 DEF Contract!ReEnrich, Busy
  <2>5. QED
    BY <2>4 DEF Contract!Next
<1>6. QED
  BY <1>3, <1>4, <1>5

LEMMA JobImplements ==
  ASSUME TypeOK, JobInv, HolderInv, RowInv, PendingIsCarried, PendingIsCarried',
         RequestInv', RowInv', NEW j \in Jobs, JobSteps(j)
  PROVE  [Contract!Next]_Contract!vars
<1>1. /\ UNCHANGED <<leadOf, req, db>>
      /\ \A k \in Jobs : k # j => rq'[k] = rq[k]
  BY ByItself
<1>2. leadOf[j] \in Leads \/ (UNCHANGED rq)
  <2>1. CASE PromoteRetry(j) \/ StartAttempt(j)
    BY <2>1 DEF PromoteRetry, RqPromote, StartAttempt, RqDequeue, JobInv
  <2>2. CASE ExpireHash(j)
    BY <2>2 DEF ExpireHash, rqVars
  <2>3. CASE AttemptStep(j) \/ Disturbance(j)
    <3>1. pc[j] # "idle"
      BY <2>3 DEF AttemptStep, Disturbance,
         PublishStarted, ReadLead, GeoFound, GeoExhausted, LeadMissing, WriteEnriched,
         ClearActive, PublishFinished, PublishQueued, MarkFailed, DropActive,
         PublishFailed, CompleteAttempt, FailAttempt, InfraError, MarkSwallowed,
         HandlerError, KillHorse
    <3>2. QED
      BY <3>1 DEF JobInv
  <2>4. QED
    BY <2>1, <2>2, <2>3 DEF JobSteps
<1>3. \A l \in Leads : leadOf[j] # l => (BusyWith(l)' <=> BusyWith(l))
  BY <1>1 DEF BusyWith, Admitted, Live
<1>4. CASE lead' = lead /\ geo' = geo
  <2>1. CASE leadOf[j] \in Leads
    BY <1>3, <1>4, <2>1, RowsUntouched
  <2>2. CASE UNCHANGED rq
    <3>1. Busy' = Busy
      BY <1>1, <2>2 DEF Busy, BusyWith, Admitted, Live
    <3>2. QED
      BY <1>4, <3>1 DEF Contract!vars, Busy
  <2>3. QED
    BY <1>2, <2>1, <2>2
<1>5. ASSUME NEW l \in Leads, l = leadOf[j], Unsettled(l), Holds(j, l),
             \/ /\ WriteEnriched(j)
                /\ lead' = [lead EXCEPT ![l] = "enriched"]
                /\ geo' = [geo EXCEPT ![l] = TRUE]
             \/ /\ MarkFailed(j)
                /\ lead' = [lead EXCEPT ![l] = "failed"] /\ geo' = geo
      PROVE  [Contract!Next]_Contract!vars
  <2>1. rq' = rq
    BY <1>5 DEF WriteEnriched, MarkFailed, workerFrame
  <2>2. Busy' = Busy
    BY <1>1, <2>1 DEF Busy, BusyWith, Admitted, Live
  <2>3. Busy[l] /\ ~geo[l]
    BY <1>5 DEF Busy, BusyWith, Holds, RowInv, Unsettled
  <2>4. Contract!Enrich(l) \/ Contract!Fail(l)
    BY <1>5, <2>2, <2>3 DEF Contract!Enrich, Contract!Fail, Busy, Unsettled
  <2>5. QED
    BY <2>4 DEF Contract!Next
<1>6. QED
  BY <1>4, <1>5, Updates

LEMMA ApiImplements ==
  ASSUME TypeOK, JobInv, RequestInv, RowInv, PendingIsCarried, PendingIsCarried',
         RequestInv', RowInv', "api" \notin Faults, NEW r \in Requests,
         \/ \E l \in Leads : SubmitLead(r, l) \/ ReadForReEnrich(r, l)
         \/ RequestStep(r) \/ AbandonCreate(r)
  PROVE  [Contract!Next]_Contract!vars
<1> USE EnrichmentAssumption DEF TypeOK, RqTypeOK, apiFrame, storeVars
<1>1. ASSUME NEW l \in Leads, SubmitLead(r, l) PROVE [Contract!Next]_Contract!vars
  <2>1. PICK q : q = [pc |-> "hash", lead |-> l, seen |-> "pending", job |-> NoJob]
    OBVIOUS
  <2>2. q.pc = "hash" /\ q.lead = l
    BY <2>1
  <2>3. /\ req' = [req EXCEPT ![r] = q] /\ req[r].pc = "idle" /\ lead[l] = "absent"
        /\ lead' = [lead EXCEPT ![l] = "pending"] /\ UNCHANGED <<rq, leadOf, geo>>
    BY <1>1, <2>1 DEF SubmitLead
  <2>4. BusyWith(l)' /\ \A m \in Leads \ {l} : BusyWith(m)' <=> BusyWith(m)
    BY <2>2, <2>3 DEF BusyWith, Admitted, Live
  <2>5. Busy' = [Busy EXCEPT ![l] = TRUE]
    BY <2>4, BusyIsBoolean, SameBut
  <2>6. Contract!Submit(l)
    BY <2>3, <2>5 DEF Contract!Submit, Busy
  <2>7. QED
    BY <2>6 DEF Contract!Next
<1>2. ASSUME UNCHANGED <<lead, geo>>, \A l \in Leads : BusyWith(l)' <=> BusyWith(l)
      PROVE  [Contract!Next]_Contract!vars
  <2>1. Busy' = Busy
    BY <1>2, BusyIsBoolean, SameBooleans
  <2>2. QED
    BY <1>2, <2>1 DEF Contract!vars, Busy
<1>3. ASSUME NEW q, req' = [req EXCEPT ![r] = q], ~Admitted(r),
             q.pc \notin {"hash", "enqueue"}, UNCHANGED <<lead, geo, rq, leadOf>>
      PROVE  [Contract!Next]_Contract!vars
  <2>1. \A l \in Leads : BusyWith(l)' <=> BusyWith(l)
    BY <1>3 DEF BusyWith, Admitted, Live
  <2>2. QED
    BY <1>2, <1>3, <2>1
<1>4. ASSUME NEW l \in Leads, ReadForReEnrich(r, l) PROVE [Contract!Next]_Contract!vars
  <2>1. PICK q : q = [pc |-> "check", lead |-> l, seen |-> lead[l], job |-> NoJob]
    OBVIOUS
  <2>2. q.pc = "check"
    BY <2>1
  <2>3. QED
    BY <1>3, <1>4, <2>1, <2>2 DEF ReadForReEnrich, Admitted
<1>5. CASE RefuseReEnrich(r)
  BY <1>3, <1>5 DEF RefuseReEnrich, Admitted
<1>6. CASE SetActive(r)
  BY <1>3, <1>6 DEF SetActive, Admitted
<1>7. CASE AdmitReEnrich(r)
  <2>1. /\ req[r].pc = "check" /\ req[r].lead \in Leads
        /\ req' = [req EXCEPT ![r].pc = "hash"] /\ UNCHANGED <<lead, geo, rq, leadOf>>
    BY <1>7 DEF AdmitReEnrich, RequestInv
  <2>2. /\ req'[r].lead = req[r].lead
        /\ \A o \in Requests : o # r => req'[o] = req[o]
    BY <2>1
  <2>3. \A l \in Leads \ {req[r].lead} : BusyWith(l)' <=> BusyWith(l)
    BY <2>1, <2>2 DEF BusyWith, Admitted, Live
  <2>4. QED
    BY <2>1, <2>3, RowsUntouched
<1>8. CASE CreateJobHash(r)
  <2>1. PICK n \in Jobs :
          /\ leadOf[n] = NoLead /\ leadOf' = [leadOf EXCEPT ![n] = req[r].lead]
          /\ req' = [req EXCEPT ![r] = [@ EXCEPT !.pc = "enqueue", !.job = n]]
    BY <1>8 DEF CreateJobHash
  <2>2. req[r].pc = "hash" /\ UNCHANGED <<lead, geo, rq>>
    BY <1>8 DEF CreateJobHash
  <2>3. ~Live(n)
    BY <2>1 DEF JobInv, Live
  <2>4. /\ req'[r].pc = "enqueue" /\ req'[r].lead = req[r].lead
        /\ \A o \in Requests : o # r => req'[o] = req[o]
    <3>1. \A s \in RequestState : LET x == [s EXCEPT !.pc = "enqueue", !.job = n]
                                  IN  x.pc = "enqueue" /\ x.lead = s.lead
      OBVIOUS
    <3>2. QED
      BY <2>1, <3>1
  <2>5. \A k \in Jobs : k # n => leadOf'[k] = leadOf[k]
    BY <2>1
  <2>6. \A l \in Leads : BusyWith(l)' <=> BusyWith(l)
    BY <2>2, <2>3, <2>4, <2>5 DEF BusyWith, Admitted, Live
  <2>7. QED
    BY <1>2, <2>2, <2>6
<1>9. CASE EnqueueJob(r)
  <2>1. /\ req[r].pc = "enqueue" /\ rq' = [rq EXCEPT ![req[r].job] = "queued"]
        /\ req' = [req EXCEPT ![r].pc = "activate"] /\ UNCHANGED <<lead, geo, leadOf>>
    BY <1>9 DEF EnqueueJob, RqEnqueue
  <2>2. req[r].job \in Jobs /\ leadOf[req[r].job] = req[r].lead /\ req[r].lead \in Leads
    BY <2>1 DEF RequestInv
  <2>3. /\ \A o \in Requests : o # r => req'[o] = req[o]
        /\ \A k \in Jobs : k # req[r].job => rq'[k] = rq[k]
        /\ req'[r].lead = req[r].lead
    BY <2>1
  <2>4. \A l \in Leads \ {req[r].lead} : BusyWith(l)' <=> BusyWith(l)
    BY <2>1, <2>2, <2>3 DEF BusyWith, Admitted, Live
  <2>5. QED
    BY <2>1, <2>2, <2>4, RowsUntouched
<1>10. CASE AbandonCreate(r)
  BY <1>10 DEF AbandonCreate
<1>11. QED
  BY <1>1, <1>4, <1>5, <1>6, <1>7, <1>8, <1>9, <1>10 DEF RequestStep

LEMMA StepImplements ==
  ASSUME "api" \notin Faults, TypeOK, JobInv, RequestInv, HolderInv, RowInv,
         PendingIsCarried, PendingIsCarried', RequestInv', RowInv', [Next]_vars
  PROVE  [Contract!Next]_Contract!vars
<1>1. ASSUME UNCHANGED <<rq, leadOf, req>> PROVE Busy' = Busy
  BY <1>1 DEF Busy, BusyWith, Admitted, Live
<1>2. ASSUME NEW l \in Leads, DeleteLead(l) PROVE [Contract!Next]_Contract!vars
  <2>1. Busy' = Busy
    BY <1>1, <1>2 DEF DeleteLead, apiFrame
  <2>2. Contract!Delete(l)
    BY <1>2, <2>1 DEF DeleteLead, Contract!Delete, Busy
  <2>3. QED
    BY <2>2 DEF Contract!Next
<1>3. ASSUME NEW l \in Leads, ExpireActive(l) PROVE [Contract!Next]_Contract!vars
  <2>1. Busy' = Busy /\ UNCHANGED <<lead, geo>>
    BY <1>1, <1>3 DEF ExpireActive, rqVars
  <2>2. QED
    BY <2>1 DEF Contract!vars, Busy
<1>4. CASE UNCHANGED vars
  <2>1. Busy' = Busy /\ UNCHANGED <<lead, geo>>
    BY <1>1, <1>4 DEF vars
  <2>2. QED
    BY <2>1 DEF Contract!vars, Busy
<1>5. QED
  BY <1>2, <1>3, <1>4, JobImplements, ApiImplements, NextCases DEF StepCases, JobSteps

\* The safety half of Enrichment.ImplementsContract: seen lead by lead, the requests,
\* jobs, keys and retries do nothing but submit, enrich, fail, release, take up again
\* and delete, each under the contract's conditions.
THEOREM ContractImplemented ==
  ASSUME ContractKept
  PROVE  Spec => Contract!Init /\ [][Contract!Next]_Contract!vars
<1>1. Init => Contract!Init
  <2> SUFFICES ASSUME Init PROVE Contract!Init
    OBVIOUS
  <2>1. \A l \in Leads : ~BusyWith(l)
    BY DEF Init, RqInit, BusyWith, Live, Admitted
  <2>2. PICK f : f = [l \in Leads |-> FALSE]
    OBVIOUS
  <2>3. f \in [Leads -> BOOLEAN] /\ \A l \in Leads : ~f[l]
    BY <2>2
  <2>4. \A l \in Leads : f[l] <=> Busy[l]
    BY <2>1, <2>3, BusyIsBoolean
  <2>5. Busy = [l \in Leads |-> FALSE]
    BY <2>2, <2>3, <2>4, BusyIsBoolean, SameBooleans
  <2>6. QED
    BY <2>5 DEF Init, Contract!Init, Busy
<1>2. /\ IInv /\ SerialInv /\ PendingIsCarried
      /\ IInv' /\ SerialInv' /\ PendingIsCarried' /\ [Next]_vars
      => [Contract!Next]_Contract!vars
  BY StepImplements DEF IInv, SerialInv, ContractKept, NothingStrandsLeads
<1>3. Spec => []IInv /\ []SerialInv /\ []PendingIsCarried
  BY Safety, SerialSafety, NoLeadLeftBehind DEF ContractKept
<1>4. QED
  BY <1>1, <1>2, <1>3, PTL DEF Spec

=============================================================================
