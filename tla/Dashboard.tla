----------------------------- MODULE Dashboard -----------------------------
(***************************************************************************)
(* What a tenant sees of the stored leads: lists page by page, statistics  *)
(* behind a cache in Redis, exports and deletions (src/app/routers/leads.py*)
(* and src/app/services/lead_service.py over one of two repositories).     *)
(*                                                                         *)
(* The in-memory table is a dictionary in the order of insertion, which is *)
(* the order of the leads' numbers, and every query of it is atomic; on    *)
(* Postgres the statements of one query are steps of their own.  Postgres  *)
(* rows cannot be turned into an answer (see Intake): there a list or an   *)
(* export is answered only if it finds no lead, so that pages are turned   *)
(* in memory only, while statistics and deletions exist for both.          *)
(*                                                                         *)
(* Two cached statistics read nothing of each other, and a client turning  *)
(* pages reads nothing of either: a behaviour follows one of them          *)
(* (watched), beside all writers, and leaves out the invalidation of keys  *)
(* it does not follow.  Operators named Slip... are mistakes kept to show  *)
(* that the properties would notice them.                                  *)
(***************************************************************************)
EXTENDS Integers, FiniteSets

CONSTANTS
  Widgets, Tenants,
  Owner,          \* Owner[w]: the tenant of widget w
  Requests,       \* calls, or the client turning pages, at the same time
  MaxLeads,       \* bound of the leads ever stored ...
  MaxCounted,     \* ... and where statistics are followed
  PageSize,
  MaxExportRows,  \* MAX_EXPORT_ROWS
  MaxDay,         \* bound of the clock
  MaxFaults,      \* bound of lost Redis calls and crashes
  Backends,       \* the repositories the API may run with
  None

ASSUME DashboardAssumption ==
  /\ Owner \in [Widgets -> Tenants]
  /\ Widgets \cap Tenants = {} /\ None \notin Widgets \cup Tenants
  /\ MaxLeads \in Nat /\ MaxCounted \in 0..MaxLeads /\ MaxFaults \in Nat
  /\ PageSize \in Nat \ {0} /\ MaxDay \in Nat \ {0} /\ MaxExportRows \in Nat \ {0}
  /\ Backends \subseteq {"memory", "postgres"}

VARIABLES
  db,      \* LeadRepository or PostgresLeadRepository
  watched, \* the key of the statistics that are followed, or None: the pages
  today,
  stored,  \* number of leads ever stored
  table,   \* the leads there are
  cache,   \* value of stats:widget:{watched} or stats:tenant:{watched}
  req,     \* req[r]: local state of call or client r
  unsure,  \* history: whether the cache was filled too late, or not invalidated
           \* because of a failure
  faults

storeVars == <<watched, today, stored, table>>
vars == <<db, watched, today, stored, table, cache, req, unsure, faults>>

Days == 1..MaxDay
LeadIds == 1..MaxLeads
Lead == [id: LeadIds, widget: Widgets, trap: BOOLEAN, day: Days]
Keys == Widgets \cup Tenants
Stats == [total: 0..MaxLeads, blocked: 0..MaxLeads]

\* What a list asks for: the leads of one widget or (None) of all of them.
Query == [tenant: Tenants, widget: Widgets \cup {None}, traps: BOOLEAN,
          order: {"asc", "desc"}]

\* What a client that turns pages knows: its list, the page it asks for next, what it
\* has been shown, and (history) what was there at the start and has changed since.
Walk == [pc: {"turn"}, query: Query, page: 1..(MaxLeads + 1),
         shown: SUBSET Lead, first: SUBSET Lead, grew: BOOLEAN, shrank: BOOLEAN]

Idle == [pc |-> "idle"]
Request ==
  {Idle}
    \cup Walk
    \cup [pc: {"compute"}]
    \cup [pc: {"count"}, total: 0..MaxLeads]
    \cup [pc: {"fill"}, stats: Stats]
    \cup [pc: {"del widget", "del tenant"}, widget: Widgets]

TypeOK ==
  /\ db \in Backends
  /\ today \in Days
  /\ stored \in 0..MaxLeads
  /\ table \in SUBSET Lead
  /\ \A l, m \in table : l.id = m.id => l = m
  /\ watched \in Keys \cup {None}
  /\ cache \in Stats \cup {None}
  /\ req \in [Requests -> Request]
  /\ unsure \in BOOLEAN
  /\ faults \in 0..MaxFaults

Init ==
  /\ db \in Backends
  /\ today = 1
  /\ stored = 0
  /\ table = {}
  /\ watched \in Keys \cup (IF db = "memory" THEN {None} ELSE {})
  /\ cache = None
  /\ req = [r \in Requests |-> Idle]
  /\ unsure = FALSE
  /\ faults = 0

-----------------------------------------------------------------------------
(* Queries of the table.                                                   *)

Tenant(l) == Owner[l.widget]

OfWidget(w, t) == {l \in table : l.widget = w /\ Tenant(l) = t}

OfTenant(t) == {l \in table : Tenant(l) = t}

\* _apply_filters_and_paginate: the filter, here on the honeypot ...
Matching(q) ==
  {l \in (IF q.widget = None THEN OfTenant(q.tenant) ELSE OfWidget(q.widget, q.tenant)) :
     q.traps \/ ~l.trap}

\* ... the sort, by default on created_at: stable in both directions ...
Before(l, m, order) ==
  \/ order = "asc" /\ l.day < m.day
  \/ order = "desc" /\ l.day > m.day
  \/ l.day = m.day /\ l.id < m.id

\* The index of l in the sorted list, from 0.
Index(l, ls, order) == Cardinality({m \in ls : Before(m, l, order)})

\* ... and the slice records[start:end].
Page(ls, order, p) ==
  {l \in ls : Index(l, ls, order) \in (p - 1) * PageSize .. p * PageSize - 1}

\* Slip: (total - 1) // page_size, without the + 1 that belongs to it.
SlipPages(total) == (total - 1) \div PageSize

\* _compute_pages.
Pages(total) == (total + PageSize - 1) \div PageSize

\* get_export_data compares with an instant of the last day: in memory with its
\* end, on Postgres with its start, at which (but for a coincidence) nothing is stored.
\* Slip: the start of the day in memory too.
SlipUntil(l, to) == l.day < to

Until(l, to) == IF db = "memory" THEN l.day <= to ELSE l.day < to

InPeriod(l, from, to) == l.day >= from /\ Until(l, to)

ExportData(w, t, from, to) == {l \in OfWidget(w, t) : InPeriod(l, from, to)}

\* export_csv: the leads in the file, whether some are missing, and whether there is
\* no file because a row could not be converted.
ExportCsv(w, t, from, to) ==
  LET data == ExportData(w, t, from, to)
  IN  [rows |-> {l \in data : Index(l, data, "desc") < MaxExportRows},
       truncated |-> Cardinality(data) > MaxExportRows,
       raises |-> db = "postgres" /\ data # {}]

\* The leads a key stands for.
Counted(k) ==
  IF k \in Widgets THEN OfWidget(k, Owner[k]) ELSE OfTenant(k)

Count(ls, trap) == Cardinality({l \in ls : l.trap = trap})

\* _compute_stats, reduced to total_leads and honeypot_blocked.
ComputeStats(k) ==
  [total |-> Count(Counted(k), FALSE), blocked |-> Count(Counted(k), TRUE)]

-----------------------------------------------------------------------------
(* Writers.                                                                *)

\* Whether a list should show a lead.
Matches(q, l) ==
  /\ q.tenant = Tenant(l)
  /\ q.widget \in {None, l.widget}
  /\ q.traps \/ ~l.trap

\* What is remembered of a change of the table while a client turns pages.
Noticed(l) ==
  [r \in Requests |->
     IF req[r].pc = "turn" /\ Matches(req[r].query, l)
     THEN [req[r] EXCEPT !.grew = TRUE] ELSE req[r]]

Missed(ls) ==
  [r \in Requests |->
     IF req[r].pc = "turn" /\ \E l \in ls : Matches(req[r].query, l)
     THEN [req[r] EXCEPT !.shrank = TRUE] ELSE req[r]]

NewLead(w, trap) == [id |-> stored + 1, widget |-> w, trap |-> trap, day |-> today]

Store(w, trap) ==
  /\ stored < IF watched = None THEN MaxLeads ELSE MaxCounted
  /\ stored' = stored + 1
  /\ table' = table \cup {NewLead(w, trap)}

\* The invalidation, as far as it matters here.
Invalidating(w) ==
  IF watched \in {w, Owner[w]} THEN [pc |-> "del widget", widget |-> w] ELSE Idle

\* submit_lead up to its insert; the statistics are invalidated after it.
Submit(r, w, trap) ==
  /\ db = "memory"
  /\ req[r] = Idle
  /\ Store(w, trap)
  /\ req' = [Noticed(NewLead(w, trap)) EXCEPT ![r] = Invalidating(w)]
  /\ UNCHANGED <<db, watched, today, cache, unsure, faults>>

\* The insert is committed, then its answer raises: nothing is invalidated.
SubmitRaises(w, trap) ==
  /\ db = "postgres"
  /\ Store(w, trap)
  /\ unsure' = (unsure \/ (cache # None /\ watched \in {w, Owner[w]}))
  /\ UNCHANGED <<db, watched, today, cache, req, faults>>

\* delete: all of lead, widget and tenant have to fit.  (Identifiers without a lead
\* are skipped, so that it is enough to let clients send those of leads.)
Deletable(ids, w, t) ==
  {l \in table : l.id \in ids /\ l.widget = w /\ Tenant(l) = t}

DeleteRows(r, w, ls) ==
  /\ ls # {}
  /\ req[r] = Idle
  /\ table' = table \ ls
  /\ req' = [Missed(ls) EXCEPT ![r] = Invalidating(w)]
  /\ UNCHANGED <<db, watched, today, stored, cache, unsure, faults>>

DeleteLead(r, t, w, id) == DeleteRows(r, w, Deletable({id}, w, t))

BatchDelete(r, t, w, ids) == DeleteRows(r, w, Deletable(ids, w, t))

Delete(k) ==
  /\ cache' = IF k = watched THEN None ELSE cache
  /\ unsure' = (unsure /\ k # watched)

\* _invalidate_stats_cache: two DELs, one after the other.
DelWidget(r) ==
  /\ req[r].pc = "del widget"
  /\ Delete(req[r].widget)
  /\ req' = [req EXCEPT ![r].pc = "del tenant"]
  /\ UNCHANGED <<db, storeVars, faults>>

\* Slip: only the widget's key is deleted.
SlipDelTenant(r) ==
  /\ req[r].pc = "del tenant"
  /\ req' = [req EXCEPT ![r] = Idle]
  /\ UNCHANGED <<db, storeVars, cache, unsure, faults>>

DelTenant(r) ==
  /\ req[r].pc = "del tenant"
  /\ Delete(Owner[req[r].widget])
  /\ req' = [req EXCEPT ![r] = Idle]
  /\ UNCHANGED <<db, storeVars, faults>>

\* The keys the call r has still to delete.
Pending(r) ==
  CASE req[r].pc = "del widget" -> {req[r].widget, Owner[req[r].widget]}
    [] req[r].pc = "del tenant" -> {Owner[req[r].widget]}
    [] OTHER -> {}

Fails ==
  /\ faults < MaxFaults
  /\ faults' = faults + 1

\* A DEL raises: the error is swallowed and what is left is not deleted.
InvalidationLost(r) ==
  /\ Pending(r) # {}
  /\ Fails
  /\ unsure' = (unsure \/ (cache # None /\ watched \in Pending(r)))
  /\ req' = [req EXCEPT ![r] = Idle]
  /\ UNCHANGED <<db, storeVars, cache>>
-----------------------------------------------------------------------------
(* Statistics.                                                             *)

\* GET finds nothing or raises; a hit is answered at once.
Miss(r) ==
  /\ req[r] = Idle
  /\ req' = [req EXCEPT ![r] = [pc |-> "compute"]]
  /\ UNCHANGED <<db, storeVars, cache, unsure, faults>>

\* get_widget_stats: 404 unless the widget is the tenant's.
MissWidgetStats(r, t, w) == w = watched /\ Owner[w] = t /\ Miss(r)

MissTenantStats(r, t) == t = watched /\ Miss(r)

ComputeInMemory(r) ==
  /\ db = "memory"
  /\ req[r].pc = "compute"
  /\ req' = [req EXCEPT ![r] =
       [pc |-> "fill", stats |-> ComputeStats(watched)]]
  /\ UNCHANGED <<db, storeVars, cache, unsure, faults>>

\* _stats: of its eight statements the one of total_leads ...
SelectTotal(r) ==
  /\ db = "postgres"
  /\ req[r].pc = "compute"
  /\ req' = [req EXCEPT ![r] =
       [pc |-> "count", total |-> ComputeStats(watched).total]]
  /\ UNCHANGED <<db, storeVars, cache, unsure, faults>>

\* ... and the one of honeypot_blocked.
SelectBlocked(r) ==
  /\ req[r].pc = "count"
  /\ req' = [req EXCEPT ![r] =
       [pc |-> "fill", stats |-> [total |-> @.total, blocked |-> ComputeStats(watched).blocked]]]
  /\ UNCHANGED <<db, storeVars, cache, unsure, faults>>

\* _cache_stats: SETEX of what was computed, whatever has happened since.
FillStats(r) ==
  /\ req[r].pc = "fill"
  /\ cache' = req[r].stats
  /\ unsure' = (req[r].stats # ComputeStats(watched))
  /\ req' = [req EXCEPT ![r] = Idle]
  /\ UNCHANGED <<db, storeVars, faults>>

FillLost(r) ==
  /\ req[r].pc = "fill"
  /\ Fails
  /\ req' = [req EXCEPT ![r] = Idle]
  /\ UNCHANGED <<db, storeVars, cache, unsure>>

\* Slip: SET without a time to live.
SlipNoTtl == FALSE /\ UNCHANGED vars

\* The time to live of 300 s is over.
ExpireStats ==
  /\ cache # None
  /\ cache' = None
  /\ unsure' = FALSE
  /\ UNCHANGED <<db, storeVars, req, faults>>

-----------------------------------------------------------------------------
(* A client that turns the pages of a list, and the rest of the world.     *)

\* One client at a time, for the same reason; which one it is makes no difference.
FollowsPages(r) ==
  /\ watched = None
  /\ r = CHOOSE c \in Requests : TRUE

\* Slip: pages are numbered from 0.
SlipBeginWalk(r, q) ==
  /\ req[r] = Idle
  /\ FollowsPages(r)
  /\ req' = [req EXCEPT ![r] =
       [pc |-> "turn", query |-> q, page |-> 0, shown |-> {},
        first |-> Matching(q), grew |-> FALSE, shrank |-> FALSE]]
  /\ UNCHANGED <<db, storeVars, cache, unsure, faults>>

BeginWalk(r, q) ==
  /\ req[r] = Idle
  /\ FollowsPages(r)
  /\ req' = [req EXCEPT ![r] =
       [pc |-> "turn", query |-> q, page |-> 1, shown |-> {},
        first |-> Matching(q), grew |-> FALSE, shrank |-> FALSE]]
  /\ UNCHANGED <<db, storeVars, cache, unsure, faults>>

\* list_widget_leads: 404 unless the widget is the tenant's.
WalkWidget(r, t, w, traps, order) ==
  /\ Owner[w] = t
  /\ BeginWalk(r, [tenant |-> t, widget |-> w, traps |-> traps, order |-> order])

\* list_all_leads.
WalkTenant(r, t, traps, order) ==
  BeginWalk(r, [tenant |-> t, widget |-> None, traps |-> traps, order |-> order])

Answer(r) == Matching(req[r].query)

\* The page the client asks for next.
NextPage(r) == Page(Answer(r), req[r].query.order, req[r].page)

\* The answer says how many pages there are.
LastPage(r) == req[r].page >= Pages(Cardinality(Answer(r)))

\* What the client knows once it has been shown that page.
Shown(r) == [req[r] EXCEPT !.shown = @ \cup NextPage(r), !.page = @ + 1]

TurnPage(r) ==
  /\ req[r].pc = "turn"
  /\ req' = [req EXCEPT ![r] = IF LastPage(r) THEN Idle ELSE Shown(r)]
  /\ UNCHANGED <<db, storeVars, cache, unsure, faults>>

\* (The statistics that depend on the day are left out.)
NextDay ==
  /\ watched = None
  /\ today < MaxDay
  /\ today' = today + 1
  /\ UNCHANGED <<db, watched, stored, table, cache, req, unsure, faults>>

\* Calls are cut off and the in-memory table is lost; Redis and the clients stay.
Crash ==
  /\ Fails
  /\ LET gone == IF db = "memory" THEN table ELSE {}
     IN  /\ table' = table \ gone
         /\ req' = [r \in Requests |->
              IF req[r].pc = "turn" THEN Missed(gone)[r] ELSE Idle]
         /\ unsure' = (unsure \/ (cache # None /\
              (db = "memory" \/ \E r \in Requests : watched \in Pending(r))))
  /\ UNCHANGED <<db, watched, today, stored, cache>>

-----------------------------------------------------------------------------

\* The steps a call takes by itself once it has begun.
RequestStep(r) ==
  \/ DelWidget(r)
  \/ DelTenant(r)
  \/ ComputeInMemory(r)
  \/ SelectTotal(r)
  \/ SelectBlocked(r)
  \/ FillStats(r)

Begin(r) ==
  \/ \E w \in Widgets, trap \in BOOLEAN : Submit(r, w, trap)
  \/ \E t \in Tenants, w \in Widgets :
       \/ \E id \in LeadIds : DeleteLead(r, t, w, id)
       \/ \E ids \in SUBSET {l.id : l \in table} : BatchDelete(r, t, w, ids)
       \/ MissWidgetStats(r, t, w)
       \/ \E traps \in BOOLEAN, order \in {"asc", "desc"} :
            WalkWidget(r, t, w, traps, order)
  \/ \E t \in Tenants :
       \/ MissTenantStats(r, t)
       \/ \E traps \in BOOLEAN, order \in {"asc", "desc"} :
            WalkTenant(r, t, traps, order)

Next ==
  \/ \E r \in Requests :
       \/ Begin(r)
       \/ RequestStep(r)
       \/ InvalidationLost(r)
       \/ FillLost(r)
       \/ TurnPage(r)
  \/ \E w \in Widgets, trap \in BOOLEAN : SubmitRaises(w, trap)
  \/ ExpireStats
  \/ NextDay
  \/ Crash

Spec == Init /\ [][Next]_vars

\* Calls run on and Redis expires what has a time to live; nobody has to call.
Fairness ==
  /\ \A r \in Requests : WF_vars(RequestStep(r))
  /\ WF_vars(ExpireStats)

FairSpec == Spec /\ Fairness

-----------------------------------------------------------------------------
(* Properties.                                                             *)

\* Paging through a list (list_widget_leads, list_all_leads) shows leads of the
\* tenant only; unless one was deleted meanwhile, it misses none that was there at
\* the start; and none is shown twice unless one was stored meanwhile into a list
\* with the newest first.  Leads of the same instant do not break this: the sort
\* is stable and the table keeps its order.
WalkIsComplete ==
  \A r \in Requests : req[r].pc = "turn" =>
    LET w == req[r]
        seen == w.shown \cup NextPage(r)
    IN  /\ \A l \in seen : Matches(w.query, l)
        /\ LastPage(r) => w.shrank \/ w.first \subseteq seen
        /\ w.shown \cap NextPage(r) = {} \/ (w.grew /\ w.query.order = "desc")

\* What a widget got in a period of days, the last one included.
StoredIn(w, from, to) == {l \in OfWidget(w, Owner[w]) : l.day \in from..to}

\* With the in-memory table a file of a period (export_csv) is cut off exactly when it
\* lacks a lead of these days, and then keeps the newest; and where a period is split
\* between two days, the two files share no lead and, unless one is cut off, are the
\* whole together.  Postgres does not keep this: the last day is missing there.
ExportsAddUp ==
  db = "memory" => \A w \in Widgets, from, to \in Days :
    LET file(a, b) == ExportCsv(w, Owner[w], a, b)
        missing == StoredIn(w, from, to) \ file(from, to).rows
    IN  /\ ~file(from, to).raises
        /\ file(from, to).truncated <=> missing # {}
        /\ \A l \in missing, m \in file(from, to).rows : l.day <= m.day
        /\ \A mid \in from..(to - 1) :
             /\ file(from, mid).rows \cap file(mid + 1, to).rows = {}
             /\ file(from, mid).truncated \/ file(mid + 1, to).truncated
                  \/ file(from, mid).rows \cup file(mid + 1, to).rows
                       = StoredIn(w, from, to)

\* The cached statistics are those of the table (comment "Invalidate stats cache
\* best-effort" in submit_lead), unless a DEL is still to come, a failure kept it
\* away, or they were computed before a change and cached after its DEL.
StatsAreFresh ==
  \/ cache = None
  \/ cache = ComputeStats(watched)
  \/ unsure
  \/ \E r \in Requests : watched \in Pending(r)

\* Once nobody writes any more the statistics get right: what is stale expires and
\* what is computed afterwards is not.
StatsSettle == <>[](cache = None \/ cache = ComputeStats(watched))

-----------------------------------------------------------------------------
(* Why the pages are complete.                                             *)

\* A lead is numbered and dated when it is stored, and never changes.
TableInv ==
  /\ IsFiniteSet(table) /\ Cardinality(table) <= stored
  /\ \A l \in table : l.id <= stored /\ l.day <= today

\* How many leads the pages before the next one have taken.
Taken(w) == (w.page - 1) * PageSize

\* Pages are turned in memory only.  Leads that were there at the start and have not
\* been shown are still to come, and leads that have been shown are behind, each
\* unless the table moved that way.
WalkInv ==
  /\ watched = None => db = "memory"
  /\ \A r \in Requests : req[r].pc = "turn" =>
    LET w == req[r]
        at(l) == Index(l, Answer(r), w.query.order)
    IN  /\ watched = None
        /\ \A l \in w.shown \cup w.first : Matches(w.query, l) /\ l.id <= stored
        /\ w.shrank \/ \A l \in w.first \ w.shown : l \in table /\ at(l) >= Taken(w)
        /\ \/ w.grew /\ w.query.order = "desc"
           \/ \A l \in w.shown \cap table : at(l) < Taken(w)

=============================================================================
