# Formal model of the FlyRank backend

TLA+ modules for the backend in `src/`: how leads are submitted, limited, deduplicated,
enriched, listed and counted, how widgets and their configurations are kept, how PDF reports
and AI jobs are run, and what survives of it all when API calls overlap, calls break off,
work horses die, Redis fails and keys expire. TLC checks the modules on small instances;
the theorems of the seven `...Proofs` modules, which state every safety property of the passing
runs, are checked by TLAPS for every size of instance.

Contents: [the system](#1-the-system), [the plan](#2-the-plan),
[modules](#3-modules-and-how-they-correspond-to-the-code),
[runs](#4-what-the-runs-check), [fairness](#5-fairness),
[faults](#6-which-property-survives-which-fault),
[findings](#7-where-the-code-and-its-documents-disagree),
[proofs](#8-what-is-proved), [limits](#9-what-is-only-model-checked-and-what-is-not-modelled).

To repeat a check: `tlc -workers 2 -config MCEnrichment_faults.cfg MCEnrichment.tla`,
and likewise for the other configurations; for the proofs, `tlapm EnrichmentProofs.tla`, and
likewise for `EnrichmentSerialProofs`, `ReportJobsProofs`, `AiJobsProofs`, `IntakeProofs`,
`WidgetsProofs` and `DashboardProofs`.

## 1. The system

One FastAPI process (uvicorn, `Dockerfile`) serves the API; one or more RQ worker
processes (`app/core/worker.py`) run background jobs in forked *work horses*; Redis
holds RQ's queues, the job hashes, and several caches and counters; a SQL database
(SQLite for tasks and reports in development, Postgres otherwise) and, for leads and
widgets without a database, in-memory repositories hold the rest. Nothing spans two
of these stores in a transaction, and almost everything interesting follows from that.

| component | state | operations | interacts with |
|---|---|---|---|
| **Lead submission pipeline** (`lead_service.submit_lead`, `fingerprint_service`) | leads, `submission:fp:{fp}` | lookup, origin, rate limit, honeypot, dedup, insert, mark seen, invalidate, webhook, enqueue | widgets, rate limiter, statistics cache, enrichment |
| **Rate limiter** (`dependencies/leads`) | lists of time stamps in process, or `ratelimit:*` counters | hit on three tiers | Redis with fallback to the process |
| **Geo enrichment of leads** (`lead_service`, `lead_worker`, `core/queue`) | `leads` row (status, geo columns); `enrichment_job:{job}`; `enrichment:active:{lead}` | create job, re-enrich, run job, retry, give up | RQ; geo chain; leads repository |
| **Lead statistics cache** (`lead_service`) | `stats:widget:*`, `stats:tenant:*` | read through, invalidate | submission, deletion |
| **Lead dashboard** (`lead_service`, `routers/leads`) | none | list, get, export with a cap of 10,000 rows, delete | leads repository |
| **Widgets, configuration cache** (`widget_service`, `widget_repo`, `postgres_widget_repo`, `embed_service`) | widgets, `js_version`; `widget:config:*` | create, update (read, merge, write), delete (soft), read config | submission, embed endpoints |
| **RQ** (library; `core/queue`, `core/worker`) | registries, `retries_left` | enqueue, dequeue, success, failure, promotion of due retries | all three job kinds |
| **PDF reports** (`report_service`, `report_worker`, `report_repo`) | `report_job:{job}`; `reports` row; the file | enqueue, run job, show, download | RQ; database; disk; alerts |
| **AI jobs** (`core/queue`, `ai_worker`, `ai_service`) | `job:{job}`; `idempotency:{key}` | create (with or without a key), run job, show | RQ; OpenAI; alerts |
| **Origin validation** (`dependencies/embed`) | none | match header and domain | submission, embed |
| **Widget bundle** (`widget_js`) | none | generate text per version | embed |
| **Geo provider chain** (`geo_service`) | `geo:{ip}` for 24 h | cache, then three providers in order | enrichment |
| **Webhook** (`webhook_service`) | none | one HTTP call | submission |
| **Tasks** (`sqlite_repo`, `postgres_repo`, `task_service`) | tasks | CRUD, seed when empty | – |
| **Scraper** (`scrapers/*`) | request clock, robots rules, visited pages | crawl with delays and retries | scraped books |
| **Scraped books** (`scraped_book_repo`) | rows by URL | bulk upsert, list, statistics | scraper, reports |
| **Connection pool** (`core/database`) | one global pool | create, close | every Postgres repository |
| **Authentication** (`supabase`, `dependencies/auth`) | none (delegated) | verify | all private endpoints |
| **Body limit, PDF layout, alerts, assembly** | none | – | – |

### What is hard, component by component

*Lead submission.* The fingerprint is looked up before the insert and stored after it, each
by a Redis call that may fail, and the lead it names may be gone from the table. The
webhook and the enrichment job come after the insert and their errors are swallowed.
Correct means: identical submissions give one lead while the fingerprint lives; for a lead that
is stored webhook and job are asked for, whatever failed before, and for a trapped one never.

*Rate limiter.* Each hit, refused ones included, counts and renews the expiry in Redis; in
process the earlier tiers are charged although a later one refuses; a Redis failure
switches to counters of the process, perhaps after the pipeline was executed. Correct means:
no tier ever admits more than its limit in a window; a client that stays away is admitted.

*Geo enrichment.* Two API calls may interleave at every await. The status that
decides about re-enrichment is read before the active key is fetched. The key is
stored after the enqueue, so a fast worker clears a key that does not exist yet; it
expires after 600 s although a job with its delays lives longer; it is deleted
whatever job it names. The work horse may die between the row update and the hash
update; the retry must then recognise its own work. The except branch consists of
four calls that may fail one by one. Correct means: failure is only declared by a
job that will not run again; a job that reports success has put the geo data there;
a verdict told to a client is never taken back; no lead stays pending with nobody
responsible; a lead is worked on by one job at a time; every job comes to an end.

*Statistics and dashboard.* Statistics computed before a write are cached after its
invalidation; the invalidation consists of two calls; on Postgres one answer is put
together from eight statements; pages are offsets into a table that changes; periods end with
a day. Correct means: the cache tells the truth or is about to expire or be deleted; a
client turning pages misses nothing that it could not have missed; files of neighbouring
periods neither overlap nor leave a gap.

*Widgets.* Domain check and insert are separate on Postgres and disagree with the unique
index about deleted widgets; updates read, merge and write; a configuration read before an
update may be cached after the update's `DEL`; deletion invalidates nothing. Correct
means: one live widget per domain, no lost field, stale configurations that vanish by themselves.

*RQ.* The code decides whether a failure is the last with `job.retries_left`, RQ
with its own counter at another moment: they must agree. Retries are all delayed, and
a delayed retry needs a scheduler.

*PDF reports.* The job is enqueued before its row exists. Row, hash and file change
one by one, and a retry rewrites in place a file that may already be on offer.
Correct means: what is offered for download is whole; the two records contradict each other
at most while, or because, the last failure is cut off between them; failure is final and alerts once; rows and hashes settle.

*AI jobs.* Looking up the idempotency key and storing it are two calls with an
enqueue between them; `create_job` is synchronous code, so a process executes it in
one piece, but it can break off at each call and two processes can overlap. Correct
means: clients with one key get one job; no key or answer names a job that nobody
runs; the fields of the hash fit its status; enqueued jobs are not lost.

*Pool, scraper, books, seeding.* A check before an await creates two pools, and the
pool is bound to an event loop; the crawl must keep its delay and stop; an upsert can
stop half-way; two starts may seed twice.

## 2. The plan

Order, most important behaviour first:

1. `RqQueue` – RQ's contract, shared by the three job kinds. **Done.**
2. `Enrichment`, with the abstract specification `EnrichmentContract` that it
   implements, `EnrichmentProofs` and `EnrichmentSerialProofs`. **Done.**
3. `ReportJobs`, on both databases, and `ReportJobsProofs`. **Done.**
4. `AiJobs` and `AiJobsProofs`. **Done.**
5. `RateLimiter` and, on top of it, `Intake`: the submission pipeline, and `IntakeProofs`
   about both. **Done.**
6. `Widgets`: repositories, unique index and configuration cache, and `WidgetsProofs`. **Done.**
7. `Dashboard`: lists, exports, deletions and the statistics cache, and
   `DashboardProofs`. **Done.**
8. The smaller components, each a short module: connection pool and event loops, geo
   provider chain, crawl (bounded clock). Open; see section 9 for what they would add.

Compositions: `RqQueue` is extended by each job kind, `RateLimiter` by `Intake`;
`Enrichment` composes API, workers and stores. `Intake` ends where a lead is stored and its job
requested, which is where `Enrichment` begins (`SubmitLead`); `Dashboard` takes the same insert
from the side of the statistics.

Theorems, in order: types and safety of `Enrichment`, `ReportJobs`, `Widgets`, `AiJobs`,
`RateLimiter` with `Intake`, `Dashboard`; the histories of `Widgets`; the safety half of
`ImplementsContract`. **Done**, section 8. What is left to TLC is in section 9.


## 3. Modules and how they correspond to the code

| module | models |
|---|---|
| `RqQueue` | what the code relies on of RQ: `Queue.enqueue` with `Retry`, dequeue, success, failure, scheduler |
| `Enrichment` | creation, execution and retry of enrichment jobs, the three stores they touch, deletion and expiry |
| `EnrichmentContract` | what enrichment promises, without jobs, queues and keys |
| `EnrichmentProofs` | theorems about `Enrichment` |
| `EnrichmentSerialProofs` | theorems about `Enrichment` while API calls do not overlap: one job per lead, the contract |
| `ReportJobs` | creation and execution of report jobs, the hash, the row, the file |
| `ReportJobsProofs` | theorems about `ReportJobs` |
| `AiJobs` | creation (idempotency keys) and execution of AI jobs |
| `AiJobsProofs` | theorems about `AiJobs` |
| `RateLimiter` | three tiers in Redis and in process, and the clock they run on |
| `Intake` | submissions from the widget check to the follow-up, on top of `RateLimiter` |
| `IntakeProofs` | theorems about `RateLimiter` and `Intake` |
| `Widgets` | widgets, their unique index and the cache of their configurations |
| `WidgetsProofs` | theorems about `Widgets` |
| `Dashboard` | the leads table as tenants see it: pages, exports, deletions, cached statistics |
| `DashboardProofs` | theorems about `Dashboard` |
| `MC...` | TLC instances: symmetry sets, constants that a configuration cannot write down |

Three conventions hold throughout. **One step per call**: each call to Redis, to the
database, to RQ or to an external service is an action, because other processes can
run, and this one can die, between any two of them; what runs between two awaits of the
event loop is one step. **Faults are named**: the constant `Faults` (or the bound
`MaxFaults`) says to what an instance is exposed, so that a run states
exactly what its properties survive. **History variables** are marked `history:`; no guard
reads them. Operators called `Slip...` belong to no
specification: each is a plausible mistake in the definition that follows it, kept to
show that some property notices.

### RqQueue

`rq[j]` is the registry that holds job `j`, `retriesLeft[j]` the counter
`rq.Job.retries_left`. RQ is not in the repository; the module is written from the way
`core/queue.py` and `core/worker.py` use it. Ready jobs form a set, which allows every
order that RQ's lists allow and more. All intervals of `Retry(max=3, interval=[10, 60,
300])` are positive, so a failed attempt with retries left always goes to the
scheduled registry; `WithScheduler` says whether somebody moves it back. A job's
function sees the counter before RQ decrements it, for both use it in the same attempt.

### Enrichment

| variable | in the code |
|---|---|
| `db` | which leads table API and workers see: one they share, or (in memory) one in each process |
| `lead`, `geo` | `leads.status` (or no row), the geo columns |
| `hash` | `status` of `enrichment_job:{job_id}` |
| `active` | `enrichment:active:{lead_id}` |
| `leadOf` | the job's argument; `NoLead` for a uuid not drawn yet |
| `pc` | the line `run_enrichment_job` is at in the work horse of a job |
| `req` | local variables of an API call: its step, lead, status read, job |

| actions | code |
|---|---|
| `SubmitLead` | `submit_lead` from the insert on (a genuine lead: `skip_enrich` is false) |
| `ReadForReEnrich`, `RefuseReEnrich`, `AdmitReEnrich` | `re_enrich_lead`: the row is read, the key fetched in an executor, both judged |
| `CreateJobHash`, `EnqueueJob`, `SetActive` | `create_enrichment_job` in its order |
| `AbandonCreate` | an exception or crash anywhere in it; `submit_lead` swallows the first |
| `DeleteLead` | `delete_lead`, `batch_delete_leads`: nothing in Redis is touched |
| `StartAttempt` … `CompleteAttempt` | the try block of `run_enrichment_job` |
| `Caught`, `PublishQueued`, `MarkFailed`, `DropActive`, `PublishFailed`, `FailAttempt` | its except branch and the re-raise |
| `LeadMissing`, `GeoExhausted`, `InfraError`, `HandlerError`, `MarkSwallowed`, `KillHorse` | the ways an attempt goes wrong |
| `PromoteRetry`, `ExpireActive`, `ExpireHash` | time |

The repository matters. With the in-memory one (`db = "memory"`) a work horse builds an empty
table of its own, so that each attempt finds its lead missing; on Postgres no job is created
at all (finding 4), so Postgres is not among the kinds here. `"shared"` is what the code is
written for, a repository whose statements do what they say.

Abstractions: the geo lookup either finds something or not; the `geo` columns are one
Boolean; a hash write is one step although `HSET` and `EXPIRE` are two calls, which is
why `HandlerError` may strike after the status was written (`pc = "read"`) as well as
before; `job.save_meta`, the first call of the except branch, is part of its first step.
Honeypot leads are stored as pending and never enqueued, by design; they are not leads
of this module. `ExpireHash` does not strike during an attempt or a creating request:
24 hours against at most ten minutes.

### EnrichmentContract

Per lead: a status, whether geo data is there, whether work is requested or going on.
Submission starts work; work settles the lead as enriched or failed and only then ends;
an enriched lead is never touched again; a settled lead may be taken up again; pending
leads settle and work ends. `Enrichment` maps `busy` to "some live job, or admitted
request, is for this lead".

### ReportJobs

`db` is chosen at start: on SQLite a row update works, on Postgres
`update_report_status` raises for every status (`RowUpdateWorks`), because
`report_repo.py:147` numbers the parameter of its `WHERE` clause one too low. It also raises
in the except branch, so that on Postgres a job that has failed for good keeps a hash that
says started, raises no alert, and its row stays queued: `cut` records such jobs, and the
liveness properties except them. `row` and `filed` are
`reports.status` and `reports.file_path`, `pdf` the file (none, partial, whole),
`alerts` the number of alerts, counted to two. `CreateJobHash`, `EnqueueJob`,
`InsertRow` are `enqueue_report` in its order; `SetRow` has no effect on a missing row,
as SQL has none. `OpenPdf` and `BuildPdf` are the moments at which the file is
truncated and complete. The hash's expiry (24 h) is left out.

### AiJobs

`used` marks uuids that were drawn, `result` and `error` are fields of the hash, `key`
is `idempotency:{key}`. `answered` is a history variable: the job ids that
clients have been given for a key since it was last unset. `api[p]` is the step of
`create_job` in API process `p`. `PublishQueued` writes the status alone and leaves
earlier fields in place. The `attempts` field of the hash is written once, as 0, and is
left out.

### RateLimiter and Intake

`redis[k]` is the counter of `ratelimit:{k}` with its time of expiry, `local[k]` the list of
time stamps in the process, for the keys of the three tiers. `HitRedis` is the pipeline:
all tiers are charged, whatever they say, and their expiry renewed. `HitLocal` charges tier by
tier up to the one that is full. `HitFallback` is the in-process form after an error of
Redis, with the pipeline executed or not. `Tick` advances the clock and drops what no later call
would count. The filter of the list (`Since`) is written as a tail: stamps are appended in the
order of time, so that what still counts comes last. That the tail is what the filter keeps
is `TailIsFilter` in `MCIntake`, which TLC evaluates; that the lists stay in order is part of
the proved invariant.

| Intake | code |
|---|---|
| `Begin` | the widget lookups and the origin check; a refusal leaves no trace and is not a step |
| `Limit` | `check_rate_limits`; a refused call gets its 429 |
| `Dedup`, `DedupBlind` | `check_dedup`, and the same with an error or without Redis |
| `AnswerExisting`, `Create` | the lookup of the fingerprint's lead, or `repo.create` |
| `MarkSeen`, `MarkLost` | `mark_seen`, whose error is swallowed |
| `AnswerTrapped` | a trapped lead is answered without webhook and job |
| `ScheduleWebhook` | invalidation, whose errors are swallowed, and the webhook's task |
| `Enqueue`, `EnqueueLost` | `create_enrichment_job` in the executor; if it raises, the error is logged and the lead answered |
| `DeleteLead`, `TimePasses`, `Restart` | deletion, clock, restart of the API process |

`create_enrichment_job` uses the connection of `core/queue.py`, not the one the pipeline got at its
start, so it may succeed where the pipeline has no Redis, and fail where it has. `notified`,
`queued` and `unqueued` are history: the leads whose webhook was scheduled, whose job was created,
whose job's creation raised; they keep only leads that are in the table (`Forget`). Every widget is taken to have a webhook URL.

The fingerprint is computed from what was sent without the honeypot field, so a bot's submission
and a genuine one with the same form share it: the genuine one, coming later, is answered
with the trapped lead and is not followed up. The model has this (`Bots` are senders,
`Forms` contents), and no property contradicts it. `why` records which of the known reasons for a
second copy applied to a fingerprint, so that `DuplicatesBounded` can promise one copy
without, and one per overlapping call with, an overlap.

### Widgets

`row[w]` is the widget's row in either repository, `cache[w]` the value of
`widget:config:{w}`. The in-memory repository does not suspend: `CreateInMemory` and
`UpdateInMemory` are single steps. On Postgres `BeginCreate` (the check) and `Insert` are two,
`BeginUpdate` (lookup), `CheckDomain`, `ReadConfig` (the `SELECT` of the merge) and `Write` four.
`IndexRefuses` is `idx_widgets_domain`, which unlike the check counts deleted rows: on
Postgres the domain of a deleted widget passes the check and then ends in a 500; in memory
it is refused with 409. An update without a new domain writes back the one it read. A
configuration is a number per field, the update that wrote it, so that a lost field is visible.
`js_version` is left out: each update counts it up, but beyond the URL of the script
tag nothing depends on it: `get_widget_js` does not read its `v`, and the bundle fetches its configuration when it runs. `latest`, `crossed` and `unsure` are
history. Which fresh identifier a row gets
is fixed by `CHOOSE`, as identifiers are only compared for equality.

### Dashboard

`table` is the set of leads there are, in either repository. A lead's `id` numbers the
insertions, which is the order of the in-memory dictionary, so no sequence is needed.
`Matching` and `Page` are `_apply_filters_and_paginate` with the default sort: `Before` is the
order of a stable sort on `created_at` in either direction, `Index` the place of a lead in the
sorted list, and a page is what lies between two indices. That such a page is the slice of
the stably sorted list is `PagesAreSlices` in `MCDashboard`, which TLC evaluates for every list
of the instance. `ExportData` and `ExportCsv` are the export with its cap. `Until` is the end of a period:
the end of the last day in memory (`lead_repo.py:158`), its start on Postgres
(`postgres_lead_repo.py:358`, where the date becomes midnight); a lead stored exactly then is not
considered. The filters on
status, score and text act on each lead alone, as does the honeypot filter, which stands for
them. `Walk` is a client turning pages: its list, the next page, what it has been shown.
`ComputeStats` keeps two of the eight figures (`total_leads`, `honeypot_blocked`), enough to see
an answer that was put together from two moments (`SelectTotal`, `SelectBlocked`); figures that
depend on the day change without a write and are left out. `DelWidget` and `DelTenant` are the
two `DEL`s of `_invalidate_stats_cache`.

On Postgres a list or an export that finds rows cannot answer (finding 4; `raises`), so pages are turned and
`ExportsAddUp` is promised in memory only, and a submission raises before it invalidates (`SubmitRaises`).
Enrichment changes `enriched`/`failed` counts without invalidating; those are among the
figures left out: with the repository's own backends no work horse changes a row that the API
counts.

A behaviour follows one cached key, or one client turning pages (`watched`). This loses nothing:
a key is computed from the table alone and touched by its own readers and `DEL`s alone, a
client turning pages reads the table alone, and every writer of the table is in every behaviour.

## 4. What the runs check

Distinct states are those of the complete state space.

| run | instance | properties | states |
|---|---|---|---|
| `enrichment_faults` | 3 jobs, 2 overlapping calls, 1 lead, 1 retry, 2 workers, shared or in-memory repository; every fault except hash expiry; symmetric | `TypeOK`, `FailedOnlyWhenExhausted`, `FinishedHasGeo`, `FailedIsFinal` | 298,606 |
| `enrichment_serial` | 3 jobs, 1 call at a time, 1 retry, 2 workers, shared repository; `kill`, `ttlHash` | `OneWorkingJobPerLead`, `ImplementsContract` | 76,561 |
| `enrichment_races` | 3 jobs, 2 overlapping calls, 1 retry, 1 worker, shared repository; `raise`, `raiseLate`, `kill`, `ttlActive` | `PendingIsCarried`, `JobReachesVerdict`, `PendingSettles` | 175,773 |
| `enrichment_duplicate` | as `enrichment_faults`, no fault at all | `OneWorkingJobPerLead` (violated) | |
| `enrichment_no_scheduler` | 1 job, no scheduler, no fault | `JobReachesVerdict` (violated) | |
| `report_jobs` | 2 jobs, 1 call at a time, 1 retry, 2 workers, both databases, every fault | `TypeOK`, `OfferedReportIsWhole`, `VerdictsAgree`, `AlertOncePerDeadJob`, `FailedRowIsFinal`, `StartedRowSettles`, `HashReachesVerdict` | 168,963 |
| `report_late_row` | 1 job, no fault, SQLite | `RowReachesVerdict` (violated) | |
| `ai_idempotency` | 2 jobs, 2 keys, 1 process, 1 worker, every fault | `TypeOK`, `KeyAnswersAgree`, `AnsweredJobIsEnqueued`, `VerdictFieldsFit`, `EnqueuedIsNeverLost` | 105,634 |
| `intake` | 1 widget, 2 addresses, 1 form, 2 overlapping calls (one of a bot) out of 3, limits of 2, window and fingerprint life of 2 ticks, with and without Redis, in-memory leads, 1 fault; symmetric | `IntakeTypeOK`, `AdmittedWithinLimit`, `DuplicatesBounded`, `StoredIsFollowedUp`, `QuietCallerIsAdmitted` | 1,810,490 |
| `intake_postgres` | 1 address, 1 call at a time, no fault, Postgres | `StoredIsFollowedUp` (violated) | |
| `widgets` | 2 widgets, 2 domains, 1 field, 2 overlapping calls, 2 updates, both repositories | `TypeOK`, `DomainsAreDistinct`, `UpdatesSurvive`, `CacheIsFresh`, `CacheSettles`, `DeletedIsForgotten` | 423,846 |
| `dashboard` | 2 widgets of one tenant and another tenant without any, 3 leads (2 where statistics are followed), 2 days, pages and export files of 1 lead, 2 overlapping calls, 1 fault, both repositories | `TypeOK`, `WalkIsComplete`, `ExportsAddUp`, `StatsAreFresh`, `StatsSettle` | 310,774 |

What each shows:

- **enrichment_faults.** Whatever fails and whatever overlaps, a lead says failed only
  on the word of a job that is really at its end, a finished hash has geo data behind it,
  and a failure once shown is never taken back. With the in-memory repository, where no
  job ever finds its lead, it ends in failure and never in finished.
- **enrichment_serial.** If calls for a lead do not overlap, all of the machinery
  amounts to the contract, including that leads settle, although work horses die and the
  status that decides about re-enrichment may be stale.
- **enrichment_races.** Overlapping calls, duplicate jobs and lost active keys waste work
  but strand nothing: every pending lead has a live job or request, and everything ends.
- **report_jobs.** A client is offered only whole files. Row and hash are updated one after the other, so they
  may differ; they hold opposite verdicts only with the row failed and the hash finished, which
  takes an error after the finished hash was written, in the last attempt, and lasts until the
  except branch has made its second update, or for ever if it is cut off before that. Failure is final and alerts at most once; what a client has seen
  started, and each queued job, finishes or fails unless its creation or its last attempt was cut
  short. On Postgres every job that starts is such a case (section 3).
- **ai_idempotency.** With the single API process of the Dockerfile, clients of one
  key get one job id while the key lives, no answer or key names a job RQ does not have,
  verdict and fields fit, and an enqueued job reaches a verdict or RQ's failed list. If
  the key cannot be stored a retry with it creates a second job: the *answers* agree
  because the first client got none. With two processes `KeyAnswersAgree` is violated.
- **intake.** Each form of the limiter keeps within every tier, so both together admit twice
  the limit at most; a caller is refused only after another call within the window;
  identical submissions give one lead unless they overlap, or Redis was not there; every stored
  lead has its webhook scheduled and then its job created, unless that very call raised, and no
  trapped one has either. Deletions and restarts, after which a fingerprint
  names a lead that is gone, break none of this. Two traits of the code show in the state
  space and in no property: who keeps calling is never admitted again, since refused
  calls renew the expiry too (`docs/implementation-plan.md:751` sets it on the first hit only), and
  a genuine submission that repeats a bot's is answered with the trapped lead.
- **widgets.** No two live widgets have one domain, thanks to the index; what an update wrote stays until another one names it, unless the two
  overlapped on Postgres, where read, merge and write are apart and one may be lost; the cache is
  stale only before the `DEL`, after a lost one, or after a reader that was overtaken, and
  then not for ever; the
  configuration of a deleted widget vanishes from it for good.
- **dashboard.** Turning pages misses no lead unless one was deleted meanwhile, and repeats none
  unless one was stored into a list with the newest first; in memory the files of
  neighbouring periods share no lead and leave no gap, and a file that is cut off has the newest; cached statistics are right or marked by one of the known
  reasons, and get right once nobody writes. On Postgres a submission raises before it
  invalidates anything (finding 4), which is one of these reasons.
- The four violated runs are the findings of section 7.

**Bounds.** Jobs never share data except through a lead, a row or a key, and one job
touches one of each; so one lead with three jobs shows every conflict of a first job, a
re-enrichment and a duplicate of it, and two calls suffice for every race of a check with
an update. The supply of job ids bounds the calls (`IdsRemain` in `AiJobs`). `MaxRetries` is 1
instead of 3: there is an attempt that has retries left and one that has none,
which is all that the code distinguishes. Two workers allow two
jobs for the same lead to run at once. `AlertOncePerDeadJob` counts to two, one more than
allowed.

In `Intake` limits of 2 are the smallest at which a call can be the last one admitted and the next
one refused without the first already being the last; the addresses share the tier of the widget
and differ in the others; 3 calls fill a tier once and go over it; `MaxTime` lets a window and a
fingerprint end once. `MaxFaults` of 1 is one lost Redis call or one restart at any
place. In `Widgets` the fields of a configuration are merged one by one and never looked at
together, so one field, with the domain as a second thing to update, shows a lost update; two
domains and two widgets allow a collision and an exchange. In `Dashboard` pages of one lead make
every offset a boundary, three leads give a first, a middle and a last page, two days an
order, ties and a period with a border inside. Runs with liveness properties use no symmetry.

Deadlock checking is off: when all ids are used and all jobs have ended, or the bound of
calls is reached, an instance stops because the bound says so.

## 5. Fairness

`FairSpec` assumes weak fairness of

- the own steps of an API call that has begun (`RequestStep`, `ApiStep`): the event loop
  runs its handlers, and Redis and the database answer or raise;
- `StartAttempt`: an idle worker takes a ready job. It is enabled again and again only in
  turns when workers are busy; but each attempt ends and the supply of jobs is finite, so
  from some point on it is enabled continuously;
- `AttemptStep`: a work horse is not suspended for ever; `job_timeout` ends it with an
  exception otherwise;
- `PromoteRetry`: RQ's scheduler, where there is one, promotes due jobs. This is an
  assumption about the *deployment*: `core/worker.py` starts none (finding 2);
- `ExpireConfig` and `ExpireStats`: Redis expires keys that have a time to live, as those two
  caches have (`CONFIG_CACHE_TTL`, `_CACHE_TTL`).

Nothing is assumed of clients and faults, nor of the expiry of other keys: they may happen at any
time or never. `Intake` has no liveness property; its clock may stop.

## 6. Which property survives which fault

Yes: holds in the runs of section 4, or in variations of them with that fault (and is
proved where section 8 says so). No: TLC finds a violation.

| property | raise | raiseLate | handler | kill | killLast | api | overlapping calls |
|---|---|---|---|---|---|---|---|
| `FailedOnlyWhenExhausted`, `FinishedHasGeo`, `FailedIsFinal` | yes | yes | yes | yes | yes | yes | yes |
| `PendingIsCarried`, `JobReachesVerdict`, `PendingSettles` | yes | yes | no | yes | no | no | yes |
| `OneWorkingJobPerLead` | yes | no | yes | unless with `raise` | yes | no | no |
| `ImplementsContract` | no | no | no | yes | no | no | no |
| report properties (`report_jobs`) | yes | yes | yes | yes | yes | yes | yes |
| AI properties (`ai_idempotency`) | yes | yes | yes | yes | yes | yes | one process |

The first block of three rows assumes the shared repository where it is about leads that settle:
with the in-memory one no lead is ever enriched or marked as failed. `StartedRowSettles` and
`HashReachesVerdict` except, by their statement, the jobs that `handler`, `killLast` or `api` cut
off. An expiring active key (`ttlActive`) is harmless except to `OneWorkingJobPerLead` and, with
two workers, `ImplementsContract`; a request may then be admitted while a job is still at work.

Some entries deserve a word. The contract says that a lead with geo data is never shown as
failed. `raiseLate` breaks it in the last attempt: the row has been updated, clearing the key
or publishing the result raises, and `MarkFailed` turns the enriched lead into a failed one
that keeps its geo data. `raise` breaks it through a job admitted by a stale status for a lead
that is enriched meanwhile, or, together with `kill`, when the horse dies after the update and
the last attempt raises before it can see that. In this last case, and with `raiseLate`, the
job's own key is already gone when `MarkFailed` runs: a re-enrichment admitted at this point
stores its key, the failing job's `DropActive` deletes it, and a second one is admitted too,
hence the entries of `OneWorkingJobPerLead`. And the
leads that `handler`, `killLast` and `api` strand as pending cannot be rescued through the
API, because `re_enrich_lead` refuses pending leads with 409.

In `Intake`, `Widgets` and `Dashboard` every property holds under every fault of the module (a
Redis call that raises before or after it took effect, a restart of the API process, a lost `DEL`
or `SETEX`); where a fault takes something away the property says so in its own words (`why`,
`unsure`). Each of these exceptions is needed: without it TLC finds a violation.

## 7. Where the code and its documents disagree

1. **Duplicate enrichment jobs** (`enrichment_duplicate`). The active key is looked up
   and later stored in separate calls, so two re-enrich calls can both be admitted.
   `docs/reviews/m1-architecture.md:112` lists the race as fixed by the key.
2. **Delayed retries** (`enrichment_no_scheduler`). `worker.work()` starts no scheduler and
   all retries are delayed. `README.md:166` promises retries after 10, 60 and 300 s.
3. **A report that stays queued** (`report_late_row`). A worker that is done before
   `enqueue_report` has inserted the row leaves a row that says queued for ever.
4. **Leads on Postgres** (`intake_postgres`). The column `ip_address` is `INET`, asyncpg returns an
   address object, and `LeadResponse` wants a string: whatever returns a row raises.
   A submission is stored, then answered with a 500; webhook, fingerprint, invalidation and
   enrichment are never reached. `README.md:178` says what follows a stored lead, `README.md:157`
   that the backends are interchangeable.

Not given a run of their own: `report_repo.py:147` (section 3, modelled in `ReportJobs`; that
`create_report` and `get_report` convert columns wrongly on Postgres was noticed in
`docs/reviews/m4-test-baseline.md:357`). Behind finding 4, and therefore not reached, lie the placeholders of the
geo columns, which start at the one of `updated_at` (`postgres_lead_repo.py:389`), and a pool that is
bound to the event loop of an earlier `asyncio.run` in the same work horse (`database.py:13`).

Three more disagreements are in the models and are excepted by the words of a property instead:

- *A stored lead without a job.* `README.md:178` says that geo enrichment is enqueued for a stored lead.
  If `create_enrichment_job` raises, which it does whenever Redis is down, the error is logged
  (`lead_service.py:219-228`) and the lead stays pending for good: `re_enrich_lead` refuses pending
  leads. `StoredIsFollowedUp` says that this is the only way to lose the job.
- *Opposite verdicts of a report.* `update_report_job` is `HSET`, then `EXPIRE` (`queue.py:180-181`). If the
  latter raises after a finished hash in the last attempt, the except branch marks the row failed
  (`report_worker.py:46`, `:52`, `:72`); if it is cut off before its own `update_report_job`, the row
  says failed and the hash finished for good. `VerdictsAgree` says that nothing else leads there.
- *The last day on Postgres.* `date_to` is compared with the *start* of its day
  (`postgres_lead_repo.py:242`, `:358`), in memory with its end. Such a query loses the last day's rows before any of
  them is converted, so a list or an export of a single day is empty and answered without an
  error. `ExportsAddUp` is promised for the in-memory table only.

## 8. What is proved

`EnrichmentProofs` proves, for every finite set of jobs, any leads and calls, every number
of retries and workers, with and without a scheduler:

| theorem | statement |
|---|---|
| `Typing` | `Spec => []TypeOK` |
| `Safety` | `Spec => []IInv` |
| `FailureIsFinalWord` | `Spec => []FailedOnlyWhenExhausted` |
| `FinishedMeansGeo` | `Spec => []FinishedHasGeo` |
| `FailedHashIsFinal` | `Spec => FailedIsFinal` |
| `NoLeadLeftBehind` | `Spec => []PendingIsCarried`, if `Faults` has none of `handler`, `killLast`, `api` and the repository is shared |

Assumptions: `RqAssumption` (jobs are a finite set, retries a natural number, at least one
worker) and `EnrichmentAssumption` (`Faults` and `Backends` are known kinds; `NoLead` and `NoJob`
are no ids). TLC evaluates both in every run. Only the last theorem restricts them further.

The inductive invariant is `IInv`. `FailedOnlyWhenExhausted` alone is not inductive: that
`MarkFailed` runs in the last attempt only has to be known of `pc`, `retriesLeft` and `rq`
together, which is `JobInv` (work horse, registry, counter and hash tell one story).
`JobInv` needs of the API that a job exists only with its lead, hence `RequestInv`.
`FinishedHasGeo` needs `GeoInv`: a work horse past the row update, whether it wrote the row
or found it enriched, leaves geo data behind it, and no later write removes it. For a
finished hash this goes through `pc`, since the verdict is written two steps after the row.
The delicate case is that an exhausted job stays exhausted, for it is another job whose
steps might undo the witness; that is the lemma `ExhaustedForEver`.

`NoLeadLeftBehind` rests on `PendingInv`, which strengthens "live" to `Carries`: the job has
an attempt to come, or its present attempt has neither updated the lead nor given up on it.
Each step that ends a carrier either settles the lead first or hands over to the retry; each
way of losing the last carrier is one of the three excluded faults or an empty table.

The proof follows the code: one lemma for the steps that change nothing an invariant speaks
of (`QuietSteps`), one case per action elsewhere, and the temporal theorems at the end by PTL.

`EnrichmentSerialProofs` goes on from there for API calls that do not overlap:

| theorem | statement | assumption |
|---|---|---|
| `SerialSafety` | `Spec => []SerialInv` | `OneCallAtATime` |
| `OneJobWorksOnALead` | `Spec => []OneWorkingJobPerLead` | `OneCallAtATime` |
| `ContractImplemented` | `Spec => Contract!Init /\ [][Contract!Next]_Contract!vars` | `OneCallAtATime`, `NothingStrandsLeads` |

`OneCallAtATime` says that there is one request and that `Faults` has none of `raise`,
`raiseLate`, `api` and `ttlActive`; any number of jobs, leads, workers and retries, killed work
horses, expiring hashes and (but for the contract) `handler` and `killLast` remain.
`NothingStrandsLeads` is the assumption of `NoLeadLeftBehind`. Both allow the faults of the run
`enrichment_serial`; the third theorem is the safety half of its `ImplementsContract`, where
the contract's fairness stays with TLC.

The active key does not name the working job in every state: a fast worker may clear it before it is
stored, and a job that is through with its lead lives on. What holds is `HolderInv`: a lead that
is *not enriched* has at most one job that can still work on it (`Holds`), and the key, or
the call about to store it, names this job. A re-enrichment is refused by the key while the lead is
pending or failed, and by the status once it is enriched, unless the status it read is stale; then
the job it creates finds the lead enriched and leaves it alone, which is why `HolderInv` need not
speak of enriched leads. `RowInv` supplies the rest: a work horse past its update finds its lead
enriched or gone for good. Each excluded fault breaks one of the two, not only the proof, except
that `raise` alone, without a killed horse, has shown TLC no violation of `OneWorkingJobPerLead` (section 6):
with `raise` a job that was past its update may mark the lead failed, which `RowInv` denies.

The refinement is proved lead by lead. `busy` is a function of jobs and requests;
`SameBooleans` and `SameBut` say that it changes for one lead at most, `RowsUntouched` that a step
which changes no row only starts or ends work, and the latter on settled leads, for which
`PendingIsCarried` is needed. `JobImplements` and `ApiImplements` treat the steps that do change a row.

`ReportJobsProofs` proves, for every finite set of jobs, any calls, every number of workers and
retries, both databases and every set of faults:

| theorem | statement |
|---|---|
| `ReportSafety` | `Spec => []IInv` |
| `ReportTyping` | `Spec => []TypeOK` |
| `OfferedFileIsWhole` | `Spec => []OfferedReportIsWhole` |
| `VerdictsStayInAgreement` | `Spec => []VerdictsAgree` |
| `OneAlert` | `Spec => []AlertOncePerDeadJob` |
| `FailedReportIsFinal` | `Spec => FailedRowIsFinal` |

The only assumption used is `RqAssumption`. `IInv` adds to the three invariants what makes
them inductive. `WorkInv` ties the work horse to RQ: it runs exactly while RQ holds the job as
started, and the except branch's choice between retry and failure still fits the counter when
its steps are taken. `FailureInv` says that a recorded failure is followed by nothing but the rest
of the same attempt; the alert's "once" is part of it (`pc[j] = "alert"` with no alert yet).
`FileInv` is the order of the try block: the row leaves `finished` before the file is opened and returns
to it after the file is complete. `RequestInv` is needed because the row is inserted after
the enqueue: a call between the two is alone with its job and the row is not there, so the
late `INSERT` cannot overwrite a verdict. It can still come after the verdict of the hash, which is why
`VerdictsAgree` admits a row that says queued or is absent. That a row says failed while the hash says finished
happens between `FailRow` and `PublishFailed` only, where the work horse is at `report`; it leaves this place
by publishing the failure or by being cut off, which `cut` remembers. Every invariant but `RequestInv` speaks of one job, so a lemma
about jobs a step does not touch (`UntouchedKeeps`) leaves one obligation per action; the action
property then follows from where `FailureInv` lets the work horse of a failed row be.

`AiJobsProofs` proves, for every finite set of jobs, any keys and processes, every number of
workers and retries and every set of faults:

| theorem | statement |
|---|---|
| `AiSafety` | `Spec => []IInv` |
| `AiTyping` | `Spec => []TypeOK` |
| `AnswersAreEnqueued` | `Spec => []AnsweredJobIsEnqueued` |
| `VerdictsHaveTheirFields` | `Spec => []VerdictFieldsFit` |
| `OneAnswerPerKey` | `Spec => []KeyAnswersAgree`, if there is one API process |

Assumptions: `RqAssumption` and `AiAssumption`. `AnsweredJobIsEnqueued` needs `CallInv`: between
its steps a call holds an id that was drawn, and from the enqueue on one that RQ has. The code
stores the key after the enqueue, so that a call that breaks off leaves a job without a key, never a
key without a job. `VerdictFieldsFit` needs `VerdictInv` and `WorkInv`: an error is written only
where no retry is left, so no later attempt can put `finished` beside it. `OneAnswerPerKey`
rests on `KeyInv`: a call that is creating a job for a key is the first to answer for it.
With a second process that is false, and TLC finds two answers; the Dockerfile starts one.

`IntakeProofs` proves, for all limits, windows, times to live, addresses, widgets and forms, any
finite number of overlapping calls, and every set of faults:

| theorem | statement |
|---|---|
| `IntakeSafety` | `Spec => [](IntakeTypeOK /\ LimiterInv /\ DedupInv)` |
| `IntakeTyping` | `Spec => []IntakeTypeOK` |
| `AdmissionsAreLimited` | `Spec => []AdmittedWithinLimit` |
| `DuplicatesStayBounded` | `Spec => []DuplicatesBounded` |
| `QuietCallersAreAdmitted` | `Spec => QuietCallerIsAdmitted` |
| `StoredLeadsAreFollowedUp` | `Spec => []StoredIsFollowedUp`, if no API process runs on Postgres |

Assumptions: `LimiterAssumption` (limits, window and time bound are numbers, the first two positive) and
`IntakeAssumption`; of the latter `IsFiniteSet(Requests)` is needed to count copies.

The *limiter* promises something about admissions but keeps counters and lists of hits.
For Redis `CounterInv` says that a live counter counts every admission that is remembered and
outlives them all, since each hit renews the expiry. In process the list may lose stamps that
still matter to nobody; `ListInv` says that the admissions lie `Behind` the stamps, the last
behind the last and so on, so that dropping old stamps never drops a stamp
whose admission is still within the window. `Behind` survives the filter (`SinceBehind`) and the append
(`BehindAdded`), the steps of the two forms are `HitRedisKeeps` and `HitLocalKeeps`,
and the clock is `TickKeeps`. `QuietCallersAreAdmitted` is an action property from the
same invariant: what is alive was hit within the window.

*Duplicates* are counted per fingerprint. As long as nothing was lost, each copy is `Covered`: its
call is about to store the mark, or Redis remembers a copy at least as long as this
one counts. Without an overlap all copies are one (`OneCopy`). With overlaps only, copies
plus calls that are still going to insert never exceed the number of requests
(`FewCopies`), because the first call that looks after a mark finds it; the heart of the proof is `OneCallEach`,
which maps each copy to a call of its own, all of them different from those still to insert. `OverlapIsSeen` relates the two
regimes. `StoredLeadsAreFollowedUp` has its assumption because on Postgres it is false
(finding 4); it counts a job whose creation raised as asked for, as the property does, and shows that no
other failure and no overlap keeps webhook or job away.

`WidgetsProofs` proves, for any sets of widgets, domains, fields and calls, any number of
updates and either repository:

| theorem | statement |
|---|---|
| `WidgetSafety` | `Spec => []IInv` |
| `WidgetTyping` | `Spec => []TypeOK` |
| `DomainsStayDistinct` | `Spec => []DomainsAreDistinct` |
| `CacheStaysFresh` | `Spec => []CacheIsFresh` |
| `WidgetHistory` | `Spec => []HistoryInv` |
| `UpdatesAreKept` | `Spec => []UpdatesSurvive` |

Assumptions: `WidgetsAssumption` (the bound of the updates is a natural number, the repositories
are known) and `NoneAssumption` (`None` is neither a row nor a configuration). No finiteness is
needed.

`DomainsAreDistinct` is not inductive: it speaks of live widgets, and what keeps two of them apart
is that *all* rows have distinct domains, deleted ones included, which is what the unique index
enforces on Postgres and the check in memory (`RowsAreDistinct`). That an update writes to a row
that exists, and a fill caches a configuration of one, is `OnlyRows`; without it a new row could
appear under a cached value. `CacheIsFresh` is preserved for two reasons: a write puts its own call at
the `DEL` in the same step, and a call leaves the `DEL` only by deleting the key or by being
recorded in `unsure`. The proof has one lemma for what each of the two writes of the table does
(`RowIsAdded`, `RowIsUpdated`), one each for steps that move a call (`CallMoves`, `CallEnds`) or
change the cache (`CacheMoves`), and one case per action (`IInvStep`).

`UpdatesSurvive` needs more than `IInv`. It excepts overlapping updates; that a call which no write overtook writes
what its patch makes of the *present* row, though it read an earlier one, is `UpToDate`.
`HistoryApplied` does the write, `HistoryStored` a new row, `HistoryKept` everything else.

`DashboardProofs` proves, for any widgets and tenants, any number of leads, days, overlapping calls
and faults, every page size and every cap of an export:

| theorem | statement |
|---|---|
| `DashboardSafety` | `Spec => [](TypeOK /\ TableInv /\ WalkInv)` |
| `DashboardTyping` | `Spec => []TypeOK` |
| `WalksAreComplete` | `Spec => []WalkIsComplete` |
| `ExportsAreWhole` | `Spec => []ExportsAddUp` |
| `CachedStatsAreFresh` | `Spec => []StatsAreFresh` |

The only assumption is `DashboardAssumption` (every widget has an owner, bounds are numbers, pages and
files hold at least one lead, identifiers of widgets and tenants differ as the keys
`stats:widget:` and `stats:tenant:` do).

`WalkIsComplete` speaks of what a client has seen, the code of offsets. `WalkInv` puts the two together:
leads that were there at the start and have not been shown have an index beyond the
offset of the next page, and leads that have been shown lie before it, each unless the table moved
that way. Three facts about indices carry it. A lead added to a list moves others back only
(`IndexGrows`), and none of them if it is the newest of an ascending list
(`GrowthKeepsCourse`); a deletion moves them forward only (`ShrinkingKeepsCourse`); a
list whose indices are all below `k` has at most `k` leads (`IndicesFit`: indices are an
injection), so that the last page is really the last. `ExportsAddUp`, a statement about the in-memory table, uses the same facts
of the newest-first order (`RowsOfExport`) and that the days of neighbouring periods are disjoint. `StatsAreFresh` is inductive by itself, given types: `WriterStep` says
that a step which changes the table leaves its own call before the `DEL` or the
history `unsure`, and `ReaderStep` that computing changes nothing yet.

## 9. What is only model-checked, and what is not modelled

Left to TLC: all liveness (`JobReachesVerdict`, `PendingSettles`, `StartedRowSettles`,
`HashReachesVerdict`, `EnqueuedIsNeverLost`, `CacheSettles`, `DeletedIsForgotten`, `StatsSettle` and the fairness
part of `ImplementsContract`), since liveness under fairness and `ENABLED` are beyond the prover. So is
induction over data; the two statements of the project that would need it, that a tail of time stamps is
what the filter keeps (`TailIsFilter`) and that pages are slices of a sorted list
(`PagesAreSlices`), are evaluated by TLC over all inputs up to a bound. Every safety property of a
passing run is proved. The inductive invariants were checked by TLC, conjunct by conjunct, before they
were proved.

Not modelled, with the reason:

- *Geo provider chain and cache*: a lookup that finds something or not is all that enrichment sees; the
  cache saves a call and its entries do not change.
- *Origin validation, body limit, request parsing, spam score*: functions of one request. A refusal
  happens before anything is stored; the score is stored and decides no step.
- *Eviction of the in-process limiter* at 10,000 keys: forgets counters, and needs more keys than TLC
  can hold.
- *Webhook delivery, authentication*: one call each to somebody else's service, without state here.
- *Widget bundle, PDF layout, CSV format*: text.
- *Tasks*: one SQL statement per operation on one table.
- *Scraper and scraped books*: a sequential loop over pages of another site; each upsert can be
  repeated. Its delays and robots rules would need a clock and are the next candidate.
- *Connection pool*: two callers of `get_pool` may create two pools (`database.py:15`), of which one
  is never closed; what follows is asyncpg's.
- *Lead lists by other columns and filters*: each filter looks at one lead, as the honeypot
  filter does; `sort_by` takes any attribute, of which `created_at` is the default.
- *Application assembly*: runs once, before any of this.
