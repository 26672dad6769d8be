------------------------------ MODULE Widgets -------------------------------
(***************************************************************************)
(* The widgets of one tenant and the cache of their configurations:        *)
(* create, update and soft deletion (src/app/services/widget_service.py    *)
(* over one of two repositories) and the readers of the embed API          *)
(* (src/app/services/embed_service.py, src/app/routers/embed.py).          *)
(*                                                                         *)
(* The in-memory repository never suspends, so that a call is atomic up to *)
(* its first call of Redis; on Postgres every statement is a step of its   *)
(* own.  A configuration is a value per field, the number of the update    *)
(* that wrote it.  js_version is left out: it is a parameter in the address*)
(* of widget.js that the endpoint does not read.  Operators named Slip...  *)
(* are mistakes kept to show that the properties would notice them.        *)
(***************************************************************************)
EXTENDS Integers, FiniteSets

CONSTANTS
  WidgetIds,
  Domains,
  Fields,      \* fields of a configuration
  Requests,    \* API calls that may be in progress at the same time
  MaxUpdates,  \* bound of the updates that are begun
  Backends,    \* the repositories the API may run with
  None

ASSUME WidgetsAssumption ==
  /\ MaxUpdates \in Nat
  /\ Backends \subseteq {"memory", "postgres"}

VARIABLES
  db,       \* WidgetRepository or PostgresWidgetRepository
  row,      \* row[w]: the widget's row, None without one
  cache,    \* cache[w]: value of widget:config:{w}
  req,      \* req[r]: local state of call r
  updates,  \* number of updates begun
  latest,   \* history: latest[w], what the last write of each field and of the
            \* domain wrote
  crossed,  \* history: widgets written by an update that another one overtook
  unsure    \* history: widgets whose cached configuration was filled too late,
            \* or should have been deleted by a call that was lost

tableVars == <<row, latest, crossed>>
vars == <<db, row, cache, req, updates, latest, crossed, unsure>>

Config == [Fields -> 0..MaxUpdates]
Row == [domain: Domains, config: Config, active: BOOLEAN]

ASSUME NoneAssumption == None \notin Row /\ None \notin Config

\* WidgetUpdate: a field of the configuration or the domain.
Patches == [field: Fields] \cup [domain: Domains]

Idle == [pc |-> "idle"]
Request ==
  {Idle}
    \cup [pc: {"insert"}, domain: Domains]
    \cup [pc: {"check", "merge"}, widget: WidgetIds, patch: Patches,
          stamp: 1..MaxUpdates, domain: Domains, config: {None}, overtaken: BOOLEAN]
    \cup [pc: {"write"}, widget: WidgetIds, patch: Patches,
          stamp: 1..MaxUpdates, domain: Domains, config: Config, overtaken: BOOLEAN]
    \cup [pc: {"invalidate", "fetch"}, widget: WidgetIds]
    \cup [pc: {"fill"}, widget: WidgetIds, config: Config]

TypeOK ==
  /\ db \in Backends
  /\ row \in [WidgetIds -> Row \cup {None}]
  /\ cache \in [WidgetIds -> Config \cup {None}]
  /\ req \in [Requests -> Request]
  /\ updates \in 0..MaxUpdates
  /\ latest \in [WidgetIds -> [domain: Domains, config: Config] \cup {None}]
  /\ crossed \subseteq WidgetIds
  /\ unsure \subseteq WidgetIds

Init ==
  /\ db \in Backends
  /\ row = [w \in WidgetIds |-> None]
  /\ cache = [w \in WidgetIds |-> None]
  /\ req = [r \in Requests |-> Idle]
  /\ updates = 0
  /\ latest = [w \in WidgetIds |-> None]
  /\ crossed = {}
  /\ unsure = {}

-----------------------------------------------------------------------------

Rows == {w \in WidgetIds : row[w] # None}
Holding(d) == {w \in Rows : row[w].domain = d}
Alive(ws) == {w \in ws : row[w].active}

\* check_domain_exists: in memory deleted widgets count too.
Taken(d, exclude) ==
  (IF db = "memory" THEN Holding(d) ELSE Alive(Holding(d))) \ exclude # {}

\* get_by_id: on Postgres a deleted widget is not found.
Found(w) == w \in (IF db = "memory" THEN Rows ELSE Alive(Rows))

\* Slip: a call that names no configuration stores none.
SlipNewRow(d) == [domain |-> d, config |-> None, active |-> TRUE]

NewRow(d) == [domain |-> d, config |-> [f \in Fields |-> 0], active |-> TRUE]

\* Which fresh identifier the row gets makes no difference.
StoreNew(d) ==
  /\ Rows # WidgetIds
  /\ LET w == CHOOSE w \in WidgetIds \ Rows : TRUE
     IN  /\ row' = [row EXCEPT ![w] = NewRow(d)]
         /\ latest' = [latest EXCEPT ![w] = [domain |-> d, config |-> NewRow(d).config]]

CreateInMemory(d) ==
  /\ db = "memory"
  /\ ~Taken(d, {})
  /\ StoreNew(d)
  /\ UNCHANGED <<db, cache, req, updates, crossed, unsure>>

\* 409 when the domain is taken; else the insert follows as a statement of its own.
BeginCreate(r, d) ==
  /\ db = "postgres"
  /\ req[r] = Idle
  /\ ~Taken(d, {})
  /\ req' = [req EXCEPT ![r] = [pc |-> "insert", domain |-> d]]
  /\ UNCHANGED <<db, tableVars, cache, updates, unsure>>

\* Slip: the table has no unique index, the check decides alone.
SlipNoIndex(d, exclude) == FALSE

\* idx_widgets_domain covers deleted rows as well.
IndexRefuses(d, exclude) == Holding(d) \ exclude # {}

Insert(r) ==
  /\ req[r].pc = "insert"
  /\ IF IndexRefuses(req[r].domain, {}) THEN UNCHANGED <<row, latest>>
     ELSE StoreNew(req[r].domain)
  /\ req' = [req EXCEPT ![r] = Idle]
  /\ UNCHANGED <<db, cache, updates, crossed, unsure>>

-----------------------------------------------------------------------------
(* update_widget.                                                          *)

Merged(config, patch, stamp) ==
  [f \in Fields |-> IF "field" \in DOMAIN patch /\ patch.field = f
                    THEN stamp ELSE config[f]]

\* The domain to write: the new one, or the one that was read.
Wanted(domain, patch) == IF "domain" \in DOMAIN patch THEN patch.domain ELSE domain

\* What the other updates of w learn too late.
Overtake(r, w) ==
  [o \in Requests |->
     IF o # r /\ req[o].pc \in {"check", "merge", "write"} /\ req[o].widget = w
     THEN [req[o] EXCEPT !.overtaken = TRUE] ELSE req[o]]

\* UPDATE widgets SET domain, config; the cache is next.
Apply(r, w, patch, stamp, domain, config) ==
  /\ row' = [row EXCEPT ![w] = [@ EXCEPT !.domain = domain, !.config = config]]
  /\ latest' = [latest EXCEPT ![w] =
       [domain |-> Wanted(@.domain, patch), config |-> Merged(@.config, patch, stamp)]]
  /\ req' = [Overtake(r, w) EXCEPT ![r] = [pc |-> "invalidate", widget |-> w]]

\* Without an await from the lookup to the write.
UpdateInMemory(r, w, patch) ==
  /\ db = "memory"
  /\ req[r] = Idle
  /\ updates < MaxUpdates
  /\ updates' = updates + 1
  /\ Found(w)
  /\ ~Taken(Wanted(row[w].domain, patch), {w})
  /\ Apply(r, w, patch, updates + 1, Wanted(row[w].domain, patch),
           Merged(row[w].config, patch, updates + 1))
  /\ UNCHANGED <<db, cache, crossed, unsure>>

\* The first SELECT; a domain is looked up only if it differs from the present one.
BeginUpdate(r, w, patch) ==
  /\ db = "postgres"
  /\ req[r] = Idle
  /\ updates < MaxUpdates
  /\ updates' = updates + 1
  /\ Found(w)
  /\ LET domain == Wanted(row[w].domain, patch)
     IN  req' = [req EXCEPT ![r] =
           [pc |-> IF domain # row[w].domain THEN "check" ELSE "merge",
            widget |-> w, patch |-> patch, stamp |-> updates + 1,
            domain |-> domain, config |-> None, overtaken |-> FALSE]]
  /\ UNCHANGED <<db, tableVars, cache, unsure>>

CheckDomain(r) ==
  /\ req[r].pc = "check"
  /\ req' = [req EXCEPT ![r] = IF Taken(@.domain, {@.widget}) THEN Idle
                               ELSE [@ EXCEPT !.pc = "merge"]]
  /\ UNCHANGED <<db, tableVars, cache, updates, unsure>>

\* Slip: the patch is merged into an empty configuration.
SlipReplaceConfig(r) ==
  /\ req[r].pc = "merge"
  /\ req' = [req EXCEPT ![r] =
       [@ EXCEPT !.pc = "write",
                 !.config = Merged([f \in Fields |-> 0], req[r].patch, req[r].stamp)]]
  /\ UNCHANGED <<db, tableVars, cache, updates, unsure>>

\* SELECT config, deleted or not, merged in Python.
ReadConfig(r) ==
  /\ req[r].pc = "merge"
  /\ req' = [req EXCEPT ![r] =
       [@ EXCEPT !.pc = "write",
                 !.config = Merged(row[req[r].widget].config, req[r].patch, req[r].stamp)]]
  /\ UNCHANGED <<db, tableVars, cache, updates, unsure>>

Write(r) ==
  /\ req[r].pc = "write"
  /\ ~IndexRefuses(req[r].domain, {req[r].widget})
  /\ Apply(r, req[r].widget, req[r].patch, req[r].stamp, req[r].domain, req[r].config)
  /\ crossed' = IF req[r].overtaken THEN crossed \cup {req[r].widget} ELSE crossed
  /\ UNCHANGED <<db, cache, updates, unsure>>

\* UniqueViolationError: a 500.
WriteRefused(r) ==
  /\ req[r].pc = "write"
  /\ IndexRefuses(req[r].domain, {req[r].widget})
  /\ req' = [req EXCEPT ![r] = Idle]
  /\ UNCHANGED <<db, tableVars, cache, updates, unsure>>

\* Slip: another key is deleted.
SlipNoInvalidation(r) ==
  /\ req[r].pc = "invalidate"
  /\ req' = [req EXCEPT ![r] = Idle]
  /\ UNCHANGED <<db, tableVars, cache, updates, unsure>>

Invalidate(r) ==
  /\ req[r].pc = "invalidate"
  /\ cache' = [cache EXCEPT ![req[r].widget] = None]
  /\ unsure' = unsure \ {req[r].widget}
  /\ req' = [req EXCEPT ![r] = Idle]
  /\ UNCHANGED <<db, tableVars, updates>>

\* The DEL raises and is swallowed, or the API process dies before it.
InvalidationLost(r) ==
  /\ req[r].pc = "invalidate"
  /\ unsure' = unsure \cup {req[r].widget}
  /\ req' = [req EXCEPT ![r] = Idle]
  /\ UNCHANGED <<db, tableVars, cache, updates>>

\* soft_delete; nothing is invalidated.
DeleteWidget(w) ==
  /\ w \in Alive(Rows)
  /\ row' = [row EXCEPT ![w].active = FALSE]
  /\ UNCHANGED <<db, latest, crossed, cache, req, updates, unsure>>

-----------------------------------------------------------------------------
(* get_widget_config.                                                      *)

\* GET finds nothing, or raises; a hit is answered at once.  (Nobody knows the
\* identifier of a widget that does not exist yet.)
MissCache(r, w) ==
  /\ req[r] = Idle
  /\ w \in Rows
  /\ req' = [req EXCEPT ![r] = [pc |-> "fetch", widget |-> w]]
  /\ UNCHANGED <<db, tableVars, cache, updates, unsure>>

\* Slip: whether the widget is active is not looked at.
SlipServeDeleted(w) == w \in Rows

Served(w) == w \in Alive(Rows)

FetchRow(r) ==
  /\ req[r].pc = "fetch"
  /\ req' = [req EXCEPT ![r] =
       IF Served(@.widget)
       THEN [pc |-> "fill", widget |-> @.widget, config |-> row[@.widget].config]
       ELSE Idle]
  /\ UNCHANGED <<db, tableVars, cache, updates, unsure>>

\* SETEX of what was read, whatever has happened since.
FillCache(r) ==
  /\ req[r].pc = "fill"
  /\ LET w == req[r].widget
     IN  /\ cache' = [cache EXCEPT ![w] = req[r].config]
         /\ unsure' = IF req[r].config = row[w].config
                      THEN unsure \ {w} ELSE unsure \cup {w}
  /\ req' = [req EXCEPT ![r] = Idle]
  /\ UNCHANGED <<db, tableVars, updates>>

FillLost(r) ==
  /\ req[r].pc = "fill"
  /\ req' = [req EXCEPT ![r] = Idle]
  /\ UNCHANGED <<db, tableVars, cache, updates, unsure>>

\* Slip: SET in the place of SETEX.
SlipNoTtl(w) == FALSE

\* CONFIG_CACHE_TTL.
ExpireConfig(w) ==
  /\ cache[w] # None
  /\ cache' = [cache EXCEPT ![w] = None]
  /\ unsure' = unsure \ {w}
  /\ UNCHANGED <<db, tableVars, req, updates>>

-----------------------------------------------------------------------------

\* The steps a call takes by itself once it has begun.
RequestStep(r) ==
  \/ Insert(r)
  \/ CheckDomain(r)
  \/ ReadConfig(r)
  \/ Write(r)
  \/ WriteRefused(r)
  \/ Invalidate(r)
  \/ FetchRow(r)
  \/ FillCache(r)

Next ==
  \/ \E r \in Requests :
       \/ \E d \in Domains : BeginCreate(r, d)
       \/ \E w \in WidgetIds :
            \/ MissCache(r, w)
            \/ \E patch \in Patches :
                 BeginUpdate(r, w, patch) \/ UpdateInMemory(r, w, patch)
       \/ RequestStep(r)
       \/ InvalidationLost(r)
       \/ FillLost(r)
  \/ \E d \in Domains : CreateInMemory(d)
  \/ \E w \in WidgetIds : DeleteWidget(w) \/ ExpireConfig(w)

Spec == Init /\ [][Next]_vars

\* Calls run on and Redis expires what has a time to live; nobody has to call.
Fairness ==
  /\ \A r \in Requests : WF_vars(RequestStep(r))
  /\ \A w \in WidgetIds : WF_vars(ExpireConfig(w))

FairSpec == Spec /\ Fairness

-----------------------------------------------------------------------------
(* Properties.                                                             *)

\* No two widgets of a tenant that are alive share a domain: the check and the
\* write are apart on Postgres, where the index decides, and together in memory.
\* (The domain is what validate_origin lets submissions in by.)
DomainsAreDistinct ==
  \A v, w \in Alive(Rows) : row[v].domain = row[w].domain => v = w

\* An update changes what it names and nothing else, and is not undone by another
\* one, unless the two overlapped on Postgres (read, merge and write are apart).
UpdatesSurvive ==
  \A w \in Rows \ crossed :
    row[w].domain = latest[w].domain /\ row[w].config = latest[w].config

\* Plan section 14.1 ("Explicit DEL on PUT"): what the cache holds is the widget's
\* configuration, unless the DEL is still to come, was lost, or was overtaken by a
\* reader that had read the row before the write.
CacheIsFresh ==
  \A w \in WidgetIds : cache[w] # None =>
    \/ cache[w] = row[w].config
    \/ w \in unsure
    \/ \E r \in Requests : req[r].pc = "invalidate" /\ req[r].widget = w

\* The same section ("TTL caps stale window"): where the DEL was lost or overtaken
\* the cache serves the old configuration, but not for ever.
CacheSettles ==
  \A w \in WidgetIds :
    cache[w] # None /\ cache[w] # row[w].config
      ~> cache[w] = None \/ cache[w] = row[w].config

\* The same section: deletion, which is for ever, invalidates
\* nothing, yet a deleted widget's configuration is gone from the cache in the end and
\* no reader brings it back.
DeletedIsForgotten ==
  <>[](\A w \in WidgetIds : row[w] # None /\ ~row[w].active => cache[w] = None)

-----------------------------------------------------------------------------
(* The strengthening that makes typing, distinct domains and fresh caches  *)
(* inductive.                                                              *)

\* The index covers deleted widgets as well, and so does what it keeps apart.
RowsAreDistinct ==
  \A v, w \in Rows : row[v].domain = row[w].domain => v = w

\* Only widgets that exist are worked on, cached or remembered.
OnlyRows ==
  /\ \A r \in Requests : req[r].pc \notin {"idle", "insert"} => req[r].widget \in Rows
  /\ \A w \in WidgetIds : cache[w] # None => w \in Rows
  /\ \A w \in Rows : latest[w] \in [domain: Domains, config: Config]

IInv == TypeOK /\ RowsAreDistinct /\ OnlyRows /\ CacheIsFresh

-----------------------------------------------------------------------------
(* The strengthening that makes UpdatesSurvive inductive, on top of IInv.  *)

\* A call that no write overtook will write what its patch makes of the present row.
UpToDate(q) ==
  q.pc \in {"check", "merge", "write"} /\ ~q.overtaken =>
    /\ q.domain = Wanted(row[q.widget].domain, q.patch)
    /\ q.pc = "write" => q.config = Merged(row[q.widget].config, q.patch, q.stamp)

HistoryInv == (\A r \in Requests : UpToDate(req[r])) /\ UpdatesSurvive

=============================================================================
