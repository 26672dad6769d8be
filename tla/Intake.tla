------------------------------- MODULE Intake -------------------------------
(***************************************************************************)
(* The submission pipeline: submit_lead (src/app/services/lead_service.py) *)
(* with the widget and origin checks, the rate limiter, the honeypot, the  *)
(* fingerprint store (src/app/services/fingerprint_service.py), the insert *)
(* and what follows it.  Several submissions, deletions, the passage of    *)
(* time and failures of Redis or of the API process interleave.            *)
(*                                                                         *)
(* Spam scores and statistics change nothing here.  What enrichment does   *)
(* with the job is module Enrichment, the statistics cache Dashboard.      *)
(* Operators named Slip... are mistakes kept to show that the properties   *)
(* would notice them.                                                      *)
(***************************************************************************)
EXTENDS RateLimiter

CONSTANTS
  Requests,  \* submissions that may be in progress at the same time
  Bots,      \* those whose sender fills in the honeypot field
  Forms,     \* contents of form_data, without the honeypot field
  Leads,     \* lead ids; bounds the leads that are created
  MaxCalls,  \* bound of the submissions
  MaxFaults, \* bound of the failures
  FpTtl,     \* FINGERPRINT_TTL
  Faults,    \* the kinds of failure this instance is exposed to
  Backends,  \* the leads tables it may run with
  NoLead

(***************************************************************************)
(*   redis     a Redis call raises, before or after it took effect         *)
(*   crash     the API process restarts: its calls and its memory are gone *)
(***************************************************************************)
ASSUME IntakeAssumption ==
  /\ IsFiniteSet(Requests)
  /\ Bots \subseteq Requests
  /\ FpTtl \in Nat \ {0}
  /\ MaxCalls \in Nat
  /\ MaxFaults \in Nat
  /\ Faults \subseteq {"redis", "crash"}
  /\ Backends \subseteq {"memory", "postgres"}
  /\ NoLead \notin Leads

VARIABLES
  hasRedis,  \* is there a Redis client, or was none configured at start?
  db,        \* LeadRepository or PostgresLeadRepository, chosen at start
  stored,    \* the leads that are in the table
  lead,      \* lead[l]: what the table says, or said, of lead l
  seen,      \* seen[fp]: submission:fp:{fp}, a lead id and its time of expiry
  call,      \* call[r]: the local state of submission r
  notified,  \* of the leads in the table, those whose webhook was scheduled (if their
             \* widget has one) ...
  queued,    \* ... whose create_enrichment_job returned: their job was in RQ ...
  unqueued,  \* ... and (history) whose create_enrichment_job raised
  why,       \* history: why[fp], what may have led to more than one lead
  calls, faults  \* submissions and failures so far, counted for their bounds

bounds == <<calls, faults>>
followVars == <<notified, queued, unqueued>>
intakeVars == <<hasRedis, db, stored, lead, seen, call, followVars, why, bounds>>
vars == <<now, limiterVars, intakeVars>>

Fps == Widgets \X Ips \X Forms

Row == [fp: Fps, trap: BOOLEAN, at: 0..MaxTime]
NoRow == [at |-> -FpTtl]
Unseen == [lead |-> NoLead, until |-> 0]

IdleCall == [pc |-> "idle"]
CallPc == {"limit", "dedup", "checked", "mark", "follow", "enqueue"}
Call == [pc: CallPc, fp: Fps, lead: Leads \cup {NoLead},
         overlap: BOOLEAN]

IntakeTypeOK ==
  /\ LimiterTypeOK
  /\ hasRedis \in BOOLEAN
  /\ db \in Backends
  /\ stored \subseteq Leads
  /\ lead \in [Leads -> Row \cup {NoRow}]
  /\ seen \in [Fps -> [lead: Leads \cup {NoLead}, until: 0..(MaxTime + FpTtl)]]
  /\ call \in [Requests -> Call \cup {IdleCall}]
  /\ notified \subseteq Leads
  /\ queued \subseteq Leads
  /\ unqueued \subseteq Leads
  /\ why \in [Fps -> SUBSET {"raced", "deleted", "blind"}]
  /\ calls \in 0..MaxCalls
  /\ faults \in 0..MaxFaults

Init ==
  /\ LimiterInit
  /\ hasRedis \in BOOLEAN
  /\ db \in Backends
  /\ stored = {}
  /\ lead = [l \in Leads |-> NoRow]
  /\ seen = [fp \in Fps |-> Unseen]
  /\ call = [r \in Requests |-> IdleCall]
  /\ notified = {}
  /\ queued = {}
  /\ unqueued = {}
  /\ why = [fp \in Fps |-> {}]
  /\ calls = 0
  /\ faults = 0

-----------------------------------------------------------------------------

At(r, label) == call[r].pc = label
GoOn(r, label) == call' = [call EXCEPT ![r].pc = label]
Answer(r) == call' = [call EXCEPT ![r] = IdleCall]

Widget(r) == call[r].fp[1]
Ip(r) == call[r].fp[2]

\* The other calls with r's fingerprint that are at one of these steps.
Twins(r, labels) ==
  {o \in Requests \ {r} : call[o].pc \in labels /\ call[o].fp = call[r].fp}

tableFrame == <<now, limiterVars, hasRedis, db, stored, lead, followVars>>

Fails(kind) ==
  /\ kind \in Faults
  /\ faults < MaxFaults
  /\ faults' = faults + 1
  /\ UNCHANGED calls

\* Up to the limiter: a widget that is unknown, inactive or deleted between its two
\* reads (404, 403), and a foreign origin (403), end the call without a trace.  The
\* fields sent, without the honeypot, decide the fingerprint.
Begin(r, fp) ==
  /\ call[r] = IdleCall
  /\ calls < MaxCalls
  /\ calls' = calls + 1
  /\ call' = [call EXCEPT ![r] =
       [pc |-> "limit", fp |-> fp, lead |-> NoLead, overlap |-> FALSE]]
  /\ UNCHANGED <<tableFrame, seen, why, faults>>

\* A Redis call that has no effect, or none that its caller learns of.
RedisLost ==
  \/ hasRedis /\ Fails("redis")
  \/ ~hasRedis /\ UNCHANGED bounds

Limit(r, ok) ==
  /\ At(r, "limit")
  /\ \/ hasRedis /\ HitRedis(Ip(r), Widget(r), ok) /\ UNCHANGED bounds
     \/ hasRedis /\ HitFallback(Ip(r), Widget(r), ok) /\ Fails("redis")
     \/ ~hasRedis /\ HitLocal(Ip(r), Widget(r), ok) /\ UNCHANGED <<now, redis, bounds>>
  /\ IF ok THEN GoOn(r, "dedup") ELSE Answer(r)
  /\ UNCHANGED <<hasRedis, db, stored, lead, seen, followVars, why>>

\* check_dedup: what GET found.
Checked(r, found) ==
  call' = [call EXCEPT ![r] = [@ EXCEPT !.pc = "checked", !.lead = found,
                                        !.overlap = Twins(r, {"mark"}) # {}]]

Dedup(r) ==
  /\ At(r, "dedup")
  /\ hasRedis
  /\ Checked(r, seen[call[r].fp].lead)
  /\ UNCHANGED <<tableFrame, seen, why, bounds>>

\* An error of Redis, or no Redis, counts as a miss.
DedupBlind(r) ==
  /\ RedisLost
  /\ At(r, "dedup")
  /\ Checked(r, NoLead)
  /\ why' = [why EXCEPT ![call[r].fp] = @ \cup {"blind"}]
  /\ UNCHANGED <<tableFrame, seen>>

\* get_by_id finds the lead of the earlier submission: it is the answer.
AnswerExisting(r) ==
  /\ At(r, "checked")
  /\ call[r].lead \in stored
  /\ Answer(r)
  /\ UNCHANGED <<tableFrame, seen, why, bounds>>

\* Slip: the lookup in the table is forgotten.
SlipNoLookup(r) == At(r, "checked")

\* Without one, or when it is gone from the table, a new one is inserted.
MustCreate(r) == At(r, "checked") /\ call[r].lead \notin stored

\* repo.create.  (In memory the lookup and the insert are one step; on Postgres no
\* fingerprint is ever stored.)  On Postgres the row is committed, and its
\* conversion fails: the driver returns the inet column as an address object where
\* LeadResponse wants a string.  The caller gets a 500, nothing below is reached.
Create(r) ==
  /\ MustCreate(r)
  /\ \E l \in Leads :
       /\ lead[l] = NoRow
       /\ lead' = [lead EXCEPT ![l] =
                     [fp |-> call[r].fp, trap |-> r \in Bots, at |-> now]]
       /\ stored' = stored \cup {l}
       /\ call' = [o \in Requests |->
            IF o = r THEN IF db = "postgres" THEN IdleCall
                          ELSE [call[r] EXCEPT !.pc = "mark", !.lead = l,
                                                !.overlap = FALSE]
            ELSE IF o \in Twins(r, {"checked"})
                 THEN [call[o] EXCEPT !.overlap = TRUE] ELSE call[o]]
  /\ why' = [why EXCEPT ![call[r].fp] = @
               \cup (IF call[r].overlap THEN {"raced"} ELSE {})
               \cup (IF db = "postgres" THEN {"blind"} ELSE {})]
  /\ UNCHANGED <<now, limiterVars, hasRedis, db, seen, followVars, bounds>>

\* Slip: the fingerprint is stored without its expiry renewed from the present.
SlipMarkExpires(r) ==
  /\ At(r, "mark")
  /\ hasRedis
  /\ seen' = [seen EXCEPT ![call[r].fp] = [lead |-> call[r].lead, until |-> now + 1]]
  /\ GoOn(r, "follow")
  /\ UNCHANGED <<tableFrame, why, bounds>>

\* mark_seen: SETEX with a time to live of FpTtl.
MarkSeen(r) ==
  /\ At(r, "mark")
  /\ hasRedis
  /\ seen' = [seen EXCEPT ![call[r].fp] =
                [lead |-> call[r].lead, until |-> now + FpTtl]]
  /\ GoOn(r, "follow")
  /\ UNCHANGED <<tableFrame, why, bounds>>

\* Slip: the error of SETEX leaves the pipeline.
SlipMarkRaises(r) ==
  /\ RedisLost
  /\ At(r, "mark")
  /\ why' = [why EXCEPT ![call[r].fp] = @ \cup {"blind"}]
  /\ Answer(r)
  /\ UNCHANGED <<tableFrame, seen>>

\* "except Exception: pass", or no Redis.
MarkLost(r) ==
  /\ RedisLost
  /\ At(r, "mark")
  /\ why' = [why EXCEPT ![call[r].fp] = @ \cup {"blind"}]
  /\ GoOn(r, "follow")
  /\ UNCHANGED <<tableFrame, seen>>

\* A trapped lead is not followed up: it is the answer at once.
AnswerTrapped(r) ==
  /\ At(r, "follow")
  /\ r \in Bots
  /\ Answer(r)
  /\ UNCHANGED <<tableFrame, seen, why, bounds>>

\* The invalidation of the statistics swallows its errors, and _schedule_webhook
\* only creates a task, which dispatch_webhook never lets fail.
ScheduleWebhook(r) ==
  /\ At(r, "follow")
  /\ r \notin Bots
  /\ notified' = notified \cup ({call[r].lead} \cap stored)
  /\ GoOn(r, "enqueue")
  /\ UNCHANGED <<now, limiterVars, hasRedis, db, stored, lead, queued, unqueued,
                 seen, why, bounds>>

\* create_enrichment_job has a connection of its own, made at its first call: it may
\* find a Redis that the pipeline did not find when the process started.
Enqueue(r) ==
  /\ At(r, "enqueue")
  /\ queued' = queued \cup ({call[r].lead} \cap stored)
  /\ Answer(r)
  /\ UNCHANGED <<now, limiterVars, hasRedis, db, stored, lead, notified, unqueued,
                 seen, why, bounds>>

\* It raises, and the job is in RQ or is not, which nothing here tells apart; the
\* error is logged, and the lead is the answer all the same.
EnqueueLost(r) ==
  /\ RedisLost
  /\ At(r, "enqueue")
  /\ unqueued' = unqueued \cup ({call[r].lead} \cap stored)
  /\ Answer(r)
  /\ UNCHANGED <<now, limiterVars, hasRedis, db, stored, lead, notified, queued,
                 seen, why>>

-----------------------------------------------------------------------------
(* The surroundings.                                                       *)

\* What was done for leads that leave the table is not remembered.
Forget(ls) ==
  /\ notified' = notified \ ls
  /\ queued' = queued \ ls
  /\ unqueued' = unqueued \ ls

\* delete_lead, batch_delete_leads: Redis keeps the fingerprint.
DeleteLead(l) ==
  /\ l \in stored
  /\ stored' = stored \ {l}
  /\ Forget({l})
  /\ why' = [why EXCEPT ![lead[l].fp] = @ \cup {"deleted"}]
  /\ UNCHANGED <<now, limiterVars, hasRedis, db, lead, seen, call, bounds>>

TimePasses ==
  /\ Tick
  /\ seen' = [fp \in Fps |-> IF seen[fp].until <= now + 1 THEN Unseen ELSE seen[fp]]
  /\ UNCHANGED <<hasRedis, db, stored, lead, call, followVars, why, bounds>>

\* Redis survives; the in-memory repositories and counters do not.
Restart ==
  /\ Fails("crash")
  /\ call' = [r \in Requests |-> IdleCall]
  /\ local' = [k \in Keys |-> <<>>]
  /\ admitted' = [admitted EXCEPT !["local"] = [k \in Keys |-> <<>>]]
  /\ stored' = IF db = "memory" THEN {} ELSE stored
  /\ Forget(stored \ stored')
  /\ why' = [fp \in Fps |-> why[fp] \cup
       IF \E r \in Requests : At(r, "mark") /\ call[r].fp = fp THEN {"blind"} ELSE {}]
  /\ UNCHANGED <<now, redis, lastHit, hasRedis, db, lead, seen>>

-----------------------------------------------------------------------------

Next ==
  \/ \E r \in Requests :
       \/ \E fp \in Fps : Begin(r, fp)
       \/ \E ok \in BOOLEAN : Limit(r, ok)
       \/ Dedup(r)
       \/ DedupBlind(r)
       \/ AnswerExisting(r)
       \/ Create(r)
       \/ MarkSeen(r)
       \/ MarkLost(r)
       \/ AnswerTrapped(r)
       \/ ScheduleWebhook(r)
       \/ Enqueue(r)
       \/ EnqueueLost(r)
  \/ \E l \in Leads : DeleteLead(l)
  \/ TimePasses
  \/ Restart

Spec == Init /\ [][Next]_vars

-----------------------------------------------------------------------------
(* Properties.                                                             *)

\* A submission is refused only after other calls from its address or to its
\* widget within the window: a counter that no one touches for a window is
\* forgotten (check_rate_limits, INCR and EXPIRE of every tier in one pipeline).
QuietCallerIsAdmitted ==
  [][\A r \in Requests : Limit(r, FALSE) => ~Quiet(Ip(r), Widget(r))]_vars

\* The leads stored for one fingerprint within its time to live.
Copies(fp) == {l \in stored : lead[l].fp = fp /\ now - lead[l].at < FpTtl}

\* README, "Fingerprint dedup": identical submissions within the window give one
\* lead, whatever is deleted or restarted in between.  Exceptions: submissions
\* that overlap (check_dedup and mark_seen are apart) leave one lead each at most,
\* and with a Redis call lost, or a crash before it, nothing is promised.
DuplicatesBounded ==
  \A fp \in Fps :
    /\ why[fp] \cap {"raced", "blind"} = {} => Cardinality(Copies(fp)) <= 1
    /\ why[fp] \subseteq {"raced"} => Cardinality(Copies(fp)) <= Cardinality(Requests)

\* The leads whose webhook, or job, was asked for.
FollowedUp == notified \cup queued \cup unqueued

\* A stored lead that came in through the trap has neither webhook nor job.  Any
\* other one is still on its way, or has had its webhook, and its job unless
\* create_enrichment_job itself raised: after the insert no failure may turn the
\* submission into an error (comments at lead_service.py:204; README, "Storage +
\* async side effects").
StoredIsFollowedUp ==
  \A l \in stored :
    IF lead[l].trap THEN l \notin FollowedUp
    ELSE \/ \E r \in Requests : call[r].pc \in {"mark", "follow"} /\ call[r].lead = l
         \/ /\ l \in notified
            /\ \/ l \in queued \cup unqueued
               \/ \E r \in Requests : At(r, "enqueue") /\ call[r].lead = l

-----------------------------------------------------------------------------
(* The strengthening that makes the properties of the leads inductive, on  *)
(* top of LimiterInv.                                                      *)

\* A call of r that is at q remembers a lead of its fingerprint, and its own once it
\* has inserted one.
Knows(r, q) ==
  q # IdleCall =>
    /\ q.pc \in {"mark", "follow", "enqueue"} => /\ q.lead # NoLead
                                                 /\ lead[q.lead].trap = (r \in Bots)
    /\ q.pc = "enqueue" => r \notin Bots
    /\ q.lead # NoLead => lead[q.lead] # NoRow /\ lead[q.lead].fp = q.fp

LeadsInv ==
  /\ IsFiniteSet(stored)
  /\ \A l \in stored \cup FollowedUp : lead[l] # NoRow
  /\ \A l \in Leads : lead[l].at <= now
  /\ \A fp \in Fps : seen[fp].lead # NoLead => lead[seen[fp].lead] # NoRow
                                              /\ lead[seen[fp].lead].fp = fp
  /\ \A r \in Requests : Knows(r, call[r])

\* The submissions of a fingerprint between one step and the next.
Here(fp, label) == {r \in Requests : At(r, label) /\ call[r].fp = fp}

\* A submission that is checked while another one of its fingerprint inserts knows it.
OverlapIsSeen(fp) ==
  Here(fp, "mark") # {} => \A o \in Here(fp, "checked") : call[o].overlap

\* A lead is about to be marked, or Redis remembers one of these as long as it counts.
Covered(fp, l, ls) ==
  \/ \E r \in Here(fp, "mark") : call[r].lead = l
  \/ seen[fp].lead \in ls /\ seen[fp].until >= lead[l].at + FpTtl

\* Without overlap and loss: one lead at most, and every submission that is on its way
\* knows it.
OneCopy(fp) ==
  why[fp] \cap {"raced", "blind"} = {} =>
    \A l \in Copies(fp) :
      /\ \A m \in Copies(fp) : m = l
      /\ Covered(fp, l, {l})
      /\ \A r \in Here(fp, "mark") : call[r].lead = l
      /\ \A r \in Here(fp, "checked") : ~call[r].overlap => call[r].lead = l

\* The submissions that will insert.
Pending(fp) == {r \in Here(fp, "checked") : call[r].lead \notin stored}

\* Without deletion and loss: each lead takes the place of a submission that overlapped.
FewCopies(fp) ==
  why[fp] \subseteq {"raced"} =>
    /\ \A l \in Copies(fp) : Covered(fp, l, stored)
    /\ \A r \in Here(fp, "mark") : call[r].lead \in stored
    /\ Cardinality(Copies(fp)) + Cardinality(Pending(fp)) <= Cardinality(Requests)

DedupInv ==
  /\ LeadsInv
  /\ \A fp \in Fps : OverlapIsSeen(fp) /\ OneCopy(fp) /\ FewCopies(fp)

=============================================================================
