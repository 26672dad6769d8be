--------------------------- MODULE WidgetsProofs ----------------------------
(***************************************************************************)
(* Theorems about Widgets for every set of widgets, domains, fields and    *)
(* calls, every number of updates and either repository.                   *)
(***************************************************************************)
EXTENDS Widgets, TLAPS

USE WidgetsAssumption

\* The calls that are inside update_widget, before the UPDATE statement.
Updating == [pc: {"check", "merge"}, widget: WidgetIds, patch: Patches,
             stamp: 1..MaxUpdates, domain: Domains, config: {None}, overtaken: BOOLEAN]
Writing == [pc: {"write"}, widget: WidgetIds, patch: Patches,
            stamp: 1..MaxUpdates, domain: Domains, config: Config, overtaken: BOOLEAN]

\* Where a call is decides what it remembers.
LEMMA RequestShape ==
  ASSUME NEW q \in Request
  PROVE  /\ q.pc \in {"idle", "insert", "check", "merge", "write",
                      "invalidate", "fetch", "fill"}
         /\ q.pc = "insert" => q.domain \in Domains
         /\ q.pc \in {"check", "merge"} => q \in Updating
         /\ q.pc = "write" => q \in Writing
         /\ q.pc = "fill" => q.config \in Config
         /\ q.pc \notin {"idle", "insert"} => q.widget \in WidgetIds
  BY DEF Request, Idle, Updating, Writing

LEMMA RowIsNotNone == \A x \in Row : x # None
  BY NoneAssumption

\* An overtaken update is where it was and works on the widget it worked on.
LEMMA Overtaken ==
  ASSUME req \in [Requests -> Request], NEW r \in Requests, NEW w \in WidgetIds
  PROVE  /\ Overtake(r, w) \in [Requests -> Request]
         /\ \A o \in Requests : /\ Overtake(r, w)[o].pc = req[o].pc
                                /\ req[o].pc \notin {"idle", "insert"} =>
                                     Overtake(r, w)[o].widget = req[o].widget
<1> SUFFICES ASSUME NEW o \in Requests
             PROVE  /\ Overtake(r, w)[o] \in Request
                    /\ Overtake(r, w)[o].pc = req[o].pc
                    /\ req[o].pc \notin {"idle", "insert"} =>
                         Overtake(r, w)[o].widget = req[o].widget
  BY DEF Overtake
<1> DEFINE q == req[o]
           u == [q EXCEPT !.overtaken = TRUE]
<1>1. CASE o # r /\ q.pc \in {"check", "merge", "write"} /\ q.widget = w
  <2>1. Overtake(r, w)[o] = u
    BY <1>1 DEF Overtake
  <2>2. CASE q.pc \in {"check", "merge"}
    <3>1. q \in Updating
      BY <2>2, RequestShape
    <3>2. u \in Updating /\ u.pc = q.pc /\ u.widget = q.widget
      BY <3>1 DEF Updating
    <3>3. Updating \subseteq Request
      BY DEF Updating, Request
    <3>4. QED
      BY <2>1, <3>2, <3>3
  <2>3. CASE q.pc = "write"
    <3>1. q \in Writing
      BY <2>3, RequestShape
    <3>2. u \in Writing /\ u.pc = q.pc /\ u.widget = q.widget
      BY <3>1 DEF Writing
    <3>3. Writing \subseteq Request
      BY DEF Writing, Request
    <3>4. QED
      BY <2>1, <3>2, <3>3
  <2>4. QED
    BY <1>1, <2>2, <2>3
<1>2. CASE ~(o # r /\ q.pc \in {"check", "merge", "write"} /\ q.widget = w)
  <2>1. Overtake(r, w)[o] = q
    BY <1>2 DEF Overtake
  <2>2. QED
    BY <2>1
<1>3. QED
  BY <1>1, <1>2

\* A patch turns a configuration into a configuration and a domain into a domain.
LEMMA Patched ==
  ASSUME NEW patch \in Patches, NEW d \in Domains, NEW config \in Config,
         NEW stamp \in 1..MaxUpdates
  PROVE  Wanted(d, patch) \in Domains /\ Merged(config, patch, stamp) \in Config
<1>1. Wanted(d, patch) \in Domains
  BY DEF Wanted, Patches
<1>2. Merged(config, patch, stamp) \in Config
  BY DEF Merged, Config
<1>3. QED
  BY <1>1, <1>2

-----------------------------------------------------------------------------
(* What the two writes of the table do.                                    *)

\* A new row stands for a widget that did not exist and leaves the others alone.
LEMMA Stored ==
  ASSUME TypeOK, OnlyRows, NEW d \in Domains, StoreNew(d)
  PROVE  \E w \in WidgetIds \ Rows :
           /\ row' = [row EXCEPT ![w] = NewRow(d)]
           /\ latest' = [latest EXCEPT ![w] =
                           [domain |-> d, config |-> NewRow(d).config]]
           /\ NewRow(d) \in Row
           /\ NewRow(d).domain = d
<1> DEFINE w == CHOOSE w \in WidgetIds \ Rows : TRUE
<1>1. w \in WidgetIds \ Rows
  BY DEF StoreNew, Rows
<1>2. NewRow(d) \in Row /\ NewRow(d).domain = d
  BY DEF NewRow, Row, Config
<1>3. /\ row' = [row EXCEPT ![w] = NewRow(d)]
      /\ latest' = [latest EXCEPT ![w] = [domain |-> d, config |-> NewRow(d).config]]
  BY DEF StoreNew
<1>4. QED
  BY <1>1, <1>2, <1>3

\* Storing a row whose domain no row holds keeps the table's part of IInv.
LEMMA StoreKeeps ==
  ASSUME IInv, NEW d \in Domains, Holding(d) = {}, StoreNew(d)
  PROVE  /\ row' \in [WidgetIds -> Row \cup {None}]
         /\ latest' \in [WidgetIds -> [domain: Domains, config: Config] \cup {None}]
         /\ RowsAreDistinct'
         /\ Rows \subseteq Rows'
         /\ \A w \in Rows : row'[w] = row[w]
         /\ \A w \in Rows' : latest'[w] \in [domain: Domains, config: Config]
<1> USE DEF IInv, TypeOK
<1>1. PICK w \in WidgetIds \ Rows :
        /\ row' = [row EXCEPT ![w] = NewRow(d)]
        /\ latest' = [latest EXCEPT ![w] = [domain |-> d, config |-> NewRow(d).config]]
        /\ NewRow(d) \in Row
        /\ NewRow(d).domain = d
  BY Stored
<1>2. NewRow(d).config \in Config
  BY <1>1 DEF Row
<1>3. row' \in [WidgetIds -> Row \cup {None}]
  BY <1>1
<1>4. latest' \in [WidgetIds -> [domain: Domains, config: Config] \cup {None}]
  BY <1>1, <1>2
<1>6. Rows' = Rows \cup {w} /\ row'[w] = NewRow(d) /\ \A v \in Rows : row'[v] = row[v]
  BY <1>1, RowIsNotNone DEF Rows
<1>7. RowsAreDistinct'
  BY <1>1, <1>6 DEF RowsAreDistinct, Holding
<1>8. \A v \in Rows' : latest'[v] \in [domain: Domains, config: Config]
  BY <1>1, <1>2, <1>6 DEF OnlyRows
<1>9. QED
  BY <1>3, <1>4, <1>6, <1>7, <1>8

\* So does an update to a domain that no other row holds; afterwards the cache
\* is to be invalidated.
LEMMA ApplyKeeps ==
  ASSUME IInv, NEW r \in Requests, req[r].pc # "invalidate",
         NEW w \in Rows, NEW patch \in Patches,
         NEW stamp \in 1..MaxUpdates, NEW d \in Domains, NEW config \in Config,
         Holding(d) \ {w} = {}, Apply(r, w, patch, stamp, d, config),
         UNCHANGED <<cache, unsure>>
  PROVE  /\ row' \in [WidgetIds -> Row \cup {None}]
         /\ latest' \in [WidgetIds -> [domain: Domains, config: Config] \cup {None}]
         /\ req' \in [Requests -> Request]
         /\ RowsAreDistinct' /\ OnlyRows' /\ CacheIsFresh'
<1> USE DEF IInv, TypeOK
<1> DEFINE new == [row[w] EXCEPT !.domain = d, !.config = config]
<1>1. w \in WidgetIds /\ row[w] \in Row
  BY DEF Rows
<1>2. new \in Row /\ new.domain = d
  <2>1. ASSUME NEW x \in Row
        PROVE  LET y == [x EXCEPT !.domain = d, !.config = config]
               IN  y \in Row /\ y.domain = d
    BY DEF Row
  <2>2. QED
    BY <1>1, <2>1
<1>3. row' = [row EXCEPT ![w] = new]
  BY DEF Apply
<1>4. Rows' = Rows /\ \A v \in Rows : v # w => row'[v] = row[v]
  BY <1>1, <1>2, <1>3, RowIsNotNone DEF Rows
<1>5. row' \in [WidgetIds -> Row \cup {None}]
  BY <1>1, <1>2, <1>3
<1>6. RowsAreDistinct'
  <2>1. row'[w].domain = d
    BY <1>1, <1>2, <1>3
  <2>2. \A v \in Rows : v # w => row[v].domain # d
    BY DEF Holding
  <2>3. QED
    BY <1>4, <2>1, <2>2 DEF RowsAreDistinct
<1>7. latest' = [latest EXCEPT ![w] =
         [domain |-> Wanted(latest[w].domain, patch),
          config |-> Merged(latest[w].config, patch, stamp)]]
  BY DEF Apply
<1>8. latest[w] \in [domain: Domains, config: Config]
  BY DEF OnlyRows
<1>9. [domain |-> Wanted(latest[w].domain, patch),
       config |-> Merged(latest[w].config, patch, stamp)]
        \in [domain: Domains, config: Config]
  <2>1. latest[w].domain \in Domains /\ latest[w].config \in Config
    BY <1>8
  <2>2. QED
    BY <2>1, Patched
<1>10. /\ latest' \in [WidgetIds -> [domain: Domains, config: Config] \cup {None}]
       /\ \A v \in Rows' : latest'[v] \in [domain: Domains, config: Config]
  <2>1. latest'[w] = [domain |-> Wanted(latest[w].domain, patch),
                      config |-> Merged(latest[w].config, patch, stamp)]
    BY <1>1, <1>7
  <2>2. \A v \in WidgetIds : v # w => latest'[v] = latest[v]
    BY <1>7
  <2>3. latest' \in [WidgetIds -> [domain: Domains, config: Config] \cup {None}]
    BY <1>7, <1>9
  <2>4. ASSUME NEW v \in Rows' PROVE latest'[v] \in [domain: Domains, config: Config]
    BY <1>4, <1>9, <2>1, <2>2 DEF OnlyRows, Rows
  <2>5. QED
    BY <2>3, <2>4
<1>12. req' = [Overtake(r, w) EXCEPT ![r] = [pc |-> "invalidate", widget |-> w]]
  BY DEF Apply
<1>13. [pc |-> "invalidate", widget |-> w] \in Request
  BY <1>1 DEF Request
<1>14. req' \in [Requests -> Request]
  BY <1>1, <1>12, <1>13, Overtaken
<1>15. /\ req'[r].pc = "invalidate" /\ req'[r].widget = w
       /\ \A o \in Requests : o # r =>
            /\ req'[o].pc = req[o].pc
            /\ req[o].pc \notin {"idle", "insert"} => req'[o].widget = req[o].widget
  BY <1>1, <1>12, Overtaken
<1>16. OnlyRows'
  <2>1. \A o \in Requests :
          req'[o].pc \notin {"idle", "insert"} => req'[o].widget \in Rows'
    BY <1>4, <1>15 DEF OnlyRows
  <2>2. QED
    BY <1>4, <1>10, <2>1 DEF OnlyRows
<1>17. CacheIsFresh'
  <2> SUFFICES ASSUME NEW v \in WidgetIds, cache[v] # None
               PROVE  \/ cache[v] = row'[v].config
                      \/ v \in unsure
                      \/ \E o \in Requests :
                           req'[o].pc = "invalidate" /\ req'[o].widget = v
    BY DEF CacheIsFresh
  <2>1. CASE v = w
    BY <1>15, <2>1
  <2>2. CASE v # w
    <3>1. row'[v] = row[v]
      BY <1>3, <2>2
    <3>2. ASSUME NEW o \in Requests, req[o].pc = "invalidate", req[o].widget = v
          PROVE  req'[o].pc = "invalidate" /\ req'[o].widget = v
      BY <1>15, <2>2, <3>2
    <3>3. QED
      BY <3>1, <3>2 DEF CacheIsFresh
  <2>3. QED
    BY <2>1, <2>2
<1>18. QED
  BY <1>5, <1>6, <1>10, <1>14, <1>16, <1>17

-----------------------------------------------------------------------------
(* Steps that leave the table alone.                                       *)

\* What depends on the table alone is kept with it.
LEMMA TableKept ==
  ASSUME IInv, UNCHANGED <<db, tableVars>>
  PROVE  /\ db' \in Backends
         /\ row' \in [WidgetIds -> Row \cup {None}]
         /\ latest' \in [WidgetIds -> [domain: Domains, config: Config] \cup {None}]
         /\ crossed' \subseteq WidgetIds
         /\ RowsAreDistinct'
         /\ Rows' = Rows
         /\ \A w \in Rows' : latest'[w] \in [domain: Domains, config: Config]
  BY DEF IInv, TypeOK, tableVars, RowsAreDistinct, Rows, OnlyRows

\* A call that goes on to q, when the cache stays as it is and no invalidation is
\* dropped without a note.
LEMMA CallMoves ==
  ASSUME IInv, NEW r \in Requests, NEW q \in Request,
         req' = [req EXCEPT ![r] = q],
         q.pc \notin {"idle", "insert"} => q.widget \in Rows,
         UNCHANGED <<db, tableVars, cache>>, updates' \in 0..MaxUpdates,
         unsure \subseteq unsure', unsure' \subseteq WidgetIds,
         req[r].pc = "invalidate" => req[r].widget \in unsure'
  PROVE  IInv'
<1>1. TypeOK'
  BY TableKept DEF IInv, TypeOK
<1>2. OnlyRows'
  <2>1. \A o \in Requests :
          req'[o].pc \notin {"idle", "insert"} => req'[o].widget \in Rows'
    BY TableKept DEF IInv, TypeOK, OnlyRows
  <2>2. QED
    BY <2>1, TableKept DEF IInv, OnlyRows
<1>3. CacheIsFresh'
  <2> SUFFICES ASSUME NEW w \in WidgetIds, cache[w] # None
               PROVE  \/ cache[w] = row[w].config
                      \/ w \in unsure'
                      \/ \E o \in Requests :
                           req'[o].pc = "invalidate" /\ req'[o].widget = w
    BY DEF CacheIsFresh, tableVars
  <2>1. CASE cache[w] = row[w].config \/ w \in unsure
    BY <2>1
  <2>2. ASSUME NEW o \in Requests, req[o].pc = "invalidate", req[o].widget = w
        PROVE  w \in unsure' \/ (req'[o].pc = "invalidate" /\ req'[o].widget = w)
    BY <2>2 DEF IInv, TypeOK
  <2>3. QED
    BY <2>1, <2>2 DEF IInv, CacheIsFresh
<1>4. QED
  BY <1>1, <1>2, <1>3, TableKept DEF IInv

\* A new cached value for w is its configuration or noted as unsure.
LEMMA CacheMoves ==
  ASSUME IInv, NEW w \in Rows, NEW v \in Config \cup {None},
         cache' = [cache EXCEPT ![w] = v],
         \/ unsure' = unsure \ {w} /\ v \in {None, row[w].config}
         \/ unsure' = unsure \cup {w},
         req' \in [Requests -> Request],
         \A o \in Requests :
           \/ req'[o] = req[o]
           \/ req'[o] = Idle /\ (req[o].pc = "invalidate" => req[o].widget = w /\ v = None),
         UNCHANGED <<db, tableVars, updates>>
  PROVE  IInv'
<1>1. w \in WidgetIds
  BY DEF Rows
<1>2. TypeOK'
  <2>1. cache' \in [WidgetIds -> Config \cup {None}] /\ unsure' \subseteq WidgetIds
    BY <1>1 DEF IInv, TypeOK
  <2>2. QED
    BY <2>1, TableKept DEF IInv, TypeOK
<1>3. OnlyRows'
  <2>1. \A o \in Requests :
          req'[o].pc \notin {"idle", "insert"} => req'[o].widget \in Rows'
    BY TableKept DEF IInv, OnlyRows, Idle
  <2>2. \A x \in WidgetIds : cache'[x] # None => x \in Rows'
    BY TableKept DEF IInv, TypeOK, OnlyRows
  <2>3. QED
    BY <2>1, <2>2, TableKept DEF OnlyRows
<1>4. CacheIsFresh'
  <2> SUFFICES ASSUME NEW x \in WidgetIds, cache'[x] # None
               PROVE  \/ cache'[x] = row[x].config
                      \/ x \in unsure'
                      \/ \E o \in Requests :
                           req'[o].pc = "invalidate" /\ req'[o].widget = x
    BY DEF CacheIsFresh, tableVars
  <2>1. CASE x = w
    BY <2>1 DEF IInv, TypeOK
  <2>2. CASE x # w
    <3>1. cache[x] = cache'[x]
      BY <2>2 DEF IInv, TypeOK
    <3>2. CASE cache[x] = row[x].config \/ x \in unsure
      BY <2>2, <3>1, <3>2
    <3>3. ASSUME NEW o \in Requests, req[o].pc = "invalidate", req[o].widget = x
          PROVE  req'[o].pc = "invalidate" /\ req'[o].widget = x
      BY <2>2, <3>3
    <3>4. QED
      BY <3>1, <3>2, <3>3 DEF IInv, CacheIsFresh
  <2>3. QED
    BY <2>1, <2>2
<1>5. QED
  BY <1>2, <1>3, <1>4, TableKept DEF IInv

-----------------------------------------------------------------------------
(* Every step keeps the invariant.                                         *)

\* A call that is idle afterwards and whose invalidation, if it had one, is noted.
LEMMA CallEnds ==
  ASSUME IInv, NEW r \in Requests, req' = [req EXCEPT ![r] = Idle],
         UNCHANGED <<db, tableVars, cache, updates>>,
         unsure \subseteq unsure', unsure' \subseteq WidgetIds,
         req[r].pc = "invalidate" => req[r].widget \in unsure'
  PROVE  IInv'
<1>1. Idle \in Request /\ Idle.pc = "idle"
  BY DEF Idle, Request
<1>2. updates' \in 0..MaxUpdates
  BY DEF IInv, TypeOK
<1>3. QED
  BY <1>1, <1>2, CallMoves

\* A row for a domain that no row holds, stored by whichever call.
LEMMA RowIsAdded ==
  ASSUME IInv, NEW d \in Domains, Holding(d) = {}, StoreNew(d),
         UNCHANGED <<db, cache, updates, crossed, unsure>>,
         req' \in [Requests -> Request],
         \A o \in Requests :
           req'[o] = req[o] \/ (req'[o] = Idle /\ req[o].pc # "invalidate")
  PROVE  IInv'
<1>1. TypeOK'
  BY StoreKeeps DEF IInv, TypeOK
<1>2. OnlyRows'
  <2>1. \A o \in Requests :
          req'[o].pc \notin {"idle", "insert"} => req'[o].widget \in Rows'
    BY StoreKeeps DEF IInv, OnlyRows, Idle
  <2>2. \A w \in WidgetIds : cache'[w] # None => w \in Rows'
    BY StoreKeeps DEF IInv, OnlyRows
  <2>3. QED
    BY <2>1, <2>2, StoreKeeps DEF OnlyRows
<1>3. CacheIsFresh'
  <2> SUFFICES ASSUME NEW w \in WidgetIds, cache[w] # None
               PROVE  \/ cache[w] = row'[w].config
                      \/ w \in unsure
                      \/ \E o \in Requests :
                           req'[o].pc = "invalidate" /\ req'[o].widget = w
    BY DEF CacheIsFresh
  <2>1. row'[w] = row[w]
    BY StoreKeeps DEF IInv, OnlyRows
  <2>2. ASSUME NEW o \in Requests, req[o].pc = "invalidate", req[o].widget = w
        PROVE  req'[o].pc = "invalidate" /\ req'[o].widget = w
    BY <2>2
  <2>3. QED
    BY <2>1, <2>2 DEF IInv, CacheIsFresh
<1>4. QED
  BY <1>1, <1>2, <1>3, StoreKeeps DEF IInv

\* An update that is written, in memory at once or on Postgres at the end.
LEMMA RowIsUpdated ==
  ASSUME IInv, NEW r \in Requests, req[r].pc # "invalidate",
         NEW w \in Rows, NEW patch \in Patches,
         NEW stamp \in 1..MaxUpdates, NEW d \in Domains, NEW config \in Config,
         Holding(d) \ {w} = {}, Apply(r, w, patch, stamp, d, config),
         UNCHANGED <<db, cache, unsure>>,
         updates' \in 0..MaxUpdates, crossed' \subseteq WidgetIds
  PROVE  IInv'
<1>1. TypeOK'
  BY ApplyKeeps DEF IInv, TypeOK
<1>2. RowsAreDistinct' /\ OnlyRows' /\ CacheIsFresh'
  BY ApplyKeeps
<1>3. QED
  BY <1>1, <1>2 DEF IInv

LEMMA IInvStep == IInv /\ [Next]_vars => IInv'
<1> SUFFICES ASSUME IInv, [Next]_vars PROVE IInv'
  OBVIOUS
<1> USE DEF IInv, TypeOK
<1>1. ASSUME NEW r \in Requests, NEW d \in Domains, BeginCreate(r, d)
      PROVE  IInv'
  <2> DEFINE q == [pc |-> "insert", domain |-> d]
  <2>1. q \in Request /\ q.pc = "insert"
    BY DEF Request
  <2>2. req[r].pc # "invalidate"
    BY <1>1 DEF BeginCreate, Idle
  <2>3. /\ req' = [req EXCEPT ![r] = q]
        /\ UNCHANGED <<db, tableVars, cache, updates, unsure>>
    BY <1>1 DEF BeginCreate
  <2> HIDE DEF q
  <2>4. QED
    BY <2>1, <2>2, <2>3, CallMoves
<1>2. ASSUME NEW d \in Domains, CreateInMemory(d) PROVE IInv'
  <2>1. Holding(d) = {}
    BY <1>2 DEF CreateInMemory, Taken
  <2>2. QED
    BY <1>2, <2>1, RowIsAdded DEF CreateInMemory
<1>3. ASSUME NEW r \in Requests, Insert(r) PROVE IInv'
  <2>1. req[r].domain \in Domains /\ req[r].pc = "insert"
    BY <1>3, RequestShape DEF Insert
  <2>2. Idle \in Request
    BY DEF Idle, Request
  <2>3. CASE IndexRefuses(req[r].domain, {})
    BY <1>3, <2>1, <2>3, CallEnds DEF Insert, tableVars
  <2>4. CASE ~IndexRefuses(req[r].domain, {})
    <3>1. Holding(req[r].domain) = {} /\ StoreNew(req[r].domain)
      BY <1>3, <2>4 DEF Insert, IndexRefuses
    <3>2. QED
      BY <1>3, <2>1, <2>2, <3>1, RowIsAdded DEF Insert
  <2>5. QED
    BY <2>3, <2>4
<1>4. ASSUME NEW r \in Requests, NEW w \in WidgetIds, NEW patch \in Patches,
             UpdateInMemory(r, w, patch)
      PROVE  IInv'
  <2>1. w \in Rows /\ row[w] \in Row /\ req[r].pc # "invalidate"
    BY <1>4 DEF UpdateInMemory, Found, Rows, Idle, Alive
  <2>2. updates + 1 \in 1..MaxUpdates /\ updates' \in 0..MaxUpdates
    BY <1>4 DEF UpdateInMemory
  <2>3. row[w].domain \in Domains /\ row[w].config \in Config
    BY <2>1 DEF Row
  <2>4. /\ Wanted(row[w].domain, patch) \in Domains
        /\ Merged(row[w].config, patch, updates + 1) \in Config
    BY <2>2, <2>3, Patched
  <2>5. Holding(Wanted(row[w].domain, patch)) \ {w} = {}
    BY <1>4 DEF UpdateInMemory, Taken
  <2>6. Apply(r, w, patch, updates + 1, Wanted(row[w].domain, patch),
              Merged(row[w].config, patch, updates + 1))
    BY <1>4 DEF UpdateInMemory
  <2>7. UNCHANGED <<db, cache, unsure>> /\ crossed' \subseteq WidgetIds
    BY <1>4 DEF UpdateInMemory
  <2>8. QED
    BY <2>1, <2>2, <2>4, <2>5, <2>6, <2>7, RowIsUpdated
<1>5. ASSUME NEW r \in Requests, NEW w \in WidgetIds, NEW patch \in Patches,
             BeginUpdate(r, w, patch)
      PROVE  IInv'
  <2>1. w \in Rows /\ row[w] \in Row
    BY <1>5 DEF BeginUpdate, Found, Rows, Alive
  <2>2. updates + 1 \in 1..MaxUpdates /\ updates' \in 0..MaxUpdates
    BY <1>5 DEF BeginUpdate
  <2>3. Wanted(row[w].domain, patch) \in Domains
    BY <2>1 DEF Row, Wanted, Patches
  <2> DEFINE q == [pc |-> IF Wanted(row[w].domain, patch) # row[w].domain
                          THEN "check" ELSE "merge",
                   widget |-> w, patch |-> patch, stamp |-> updates + 1,
                   domain |-> Wanted(row[w].domain, patch), config |-> None,
                   overtaken |-> FALSE]
  <2>4. q \in Request /\ q.widget = w
    BY <2>2, <2>3 DEF Request
  <2>5. req' = [req EXCEPT ![r] = q]
    BY <1>5 DEF BeginUpdate
  <2>6. UNCHANGED <<db, tableVars, cache, unsure>> /\ req[r].pc # "invalidate"
    BY <1>5 DEF BeginUpdate, Idle
  <2>7. QED
    BY <2>1, <2>2, <2>4, <2>5, <2>6, CallMoves
<1>6. ASSUME NEW r \in Requests, CheckDomain(r) PROVE IInv'
  <2>1. req[r] \in Updating /\ req[r].pc = "check" /\ req[r].widget \in Rows
    BY <1>6, RequestShape DEF CheckDomain, OnlyRows
  <2>2. CASE Taken(req[r].domain, {req[r].widget})
    BY <1>6, <2>1, <2>2, CallEnds DEF CheckDomain
  <2>3. CASE ~Taken(req[r].domain, {req[r].widget})
    <3> DEFINE q == [req[r] EXCEPT !.pc = "merge"]
    <3>1. q \in Updating /\ q.widget = req[r].widget
      BY <2>1 DEF Updating
    <3>2. q \in Request
      BY <3>1 DEF Updating, Request
    <3>3. req' = [req EXCEPT ![r] = q]
      BY <1>6, <2>3 DEF CheckDomain
    <3>4. QED
      BY <1>6, <2>1, <3>1, <3>2, <3>3, CallMoves DEF CheckDomain
  <2>4. QED
    BY <2>2, <2>3
<1>7. ASSUME NEW r \in Requests, ReadConfig(r) PROVE IInv'
  <2>1. req[r] \in Updating /\ req[r].pc = "merge" /\ req[r].widget \in Rows
    BY <1>7, RequestShape DEF ReadConfig, OnlyRows
  <2> DEFINE c == Merged(row[req[r].widget].config, req[r].patch, req[r].stamp)
             q == [req[r] EXCEPT !.pc = "write", !.config = c]
  <2>2. c \in Config
    <3>1. row[req[r].widget] \in Row
      BY <2>1 DEF Rows
    <3>2. row[req[r].widget].config \in Config
      BY <3>1 DEF Row
    <3>3. req[r].patch \in Patches /\ req[r].stamp \in 1..MaxUpdates
          /\ req[r].domain \in Domains
      BY <2>1 DEF Updating
    <3>4. QED
      BY <3>2, <3>3, Patched
  <2>3. q \in Writing /\ q.widget = req[r].widget
    <3> HIDE DEF c
    <3>1. QED
      BY <2>1, <2>2 DEF Updating, Writing
  <2>4. q \in Request
    BY <2>3 DEF Writing, Request
  <2>5. req' = [req EXCEPT ![r] = q]
    BY <1>7 DEF ReadConfig
  <2>6. UNCHANGED <<db, tableVars, cache, unsure, updates>>
    BY <1>7 DEF ReadConfig
  <2> HIDE DEF q
  <2>7. QED
    BY <2>1, <2>3, <2>4, <2>5, <2>6, CallMoves
<1>8. ASSUME NEW r \in Requests, Write(r) PROVE IInv'
  <2>1. req[r] \in Writing /\ req[r].pc = "write" /\ req[r].widget \in Rows
    BY <1>8, RequestShape DEF Write, OnlyRows
  <2>2. /\ req[r].patch \in Patches /\ req[r].stamp \in 1..MaxUpdates
        /\ req[r].domain \in Domains /\ req[r].config \in Config
    BY <2>1 DEF Writing
  <2>3. Holding(req[r].domain) \ {req[r].widget} = {}
    BY <1>8 DEF Write, IndexRefuses
  <2>4. crossed' \subseteq WidgetIds
    BY <1>8, <2>1 DEF Write, Rows
  <2>5. /\ Apply(r, req[r].widget, req[r].patch, req[r].stamp, req[r].domain,
                 req[r].config)
        /\ UNCHANGED <<db, cache, unsure, updates>>
    BY <1>8 DEF Write
  <2>6. QED
    BY <2>1, <2>2, <2>3, <2>4, <2>5, RowIsUpdated
<1>9. ASSUME NEW r \in Requests, WriteRefused(r) \/ FillLost(r) PROVE IInv'
  BY <1>9, CallEnds DEF WriteRefused, FillLost
<1>10. ASSUME NEW r \in Requests, InvalidationLost(r) PROVE IInv'
  <2>1. req[r].widget \in WidgetIds
    BY <1>10, RequestShape DEF InvalidationLost
  <2>2. QED
    BY <1>10, <2>1, CallEnds DEF InvalidationLost
<1>11. ASSUME NEW r \in Requests, NEW w \in WidgetIds, MissCache(r, w) PROVE IInv'
  <2> DEFINE q == [pc |-> "fetch", widget |-> w]
  <2>1. q \in Request /\ q.widget = w
    BY DEF Request
  <2>2. w \in Rows /\ req[r].pc # "invalidate"
    BY <1>11 DEF MissCache, Idle
  <2>3. /\ req' = [req EXCEPT ![r] = q]
        /\ UNCHANGED <<db, tableVars, cache, updates, unsure>>
    BY <1>11 DEF MissCache
  <2> HIDE DEF q
  <2>4. QED
    BY <2>1, <2>2, <2>3, CallMoves
<1>12. ASSUME NEW r \in Requests, FetchRow(r) PROVE IInv'
  <2>1. req[r].pc = "fetch" /\ req[r].widget \in Rows
    BY <1>12 DEF FetchRow, OnlyRows
  <2>2. CASE ~Served(req[r].widget)
    BY <1>12, <2>1, <2>2, CallEnds DEF FetchRow
  <2>3. CASE Served(req[r].widget)
    <3> DEFINE q == [pc |-> "fill", widget |-> req[r].widget,
                     config |-> row[req[r].widget].config]
    <3>1. row[req[r].widget] \in Row
      BY <2>1 DEF Rows
    <3>2. q \in Request /\ q.widget = req[r].widget
      BY <2>1, <3>1 DEF Request, Row, Rows
    <3>3. req' = [req EXCEPT ![r] = q]
      BY <1>12, <2>3 DEF FetchRow
    <3>4. QED
      BY <1>12, <2>1, <3>2, <3>3, CallMoves DEF FetchRow
  <2>4. QED
    BY <2>2, <2>3
<1>13. ASSUME NEW r \in Requests, Invalidate(r) PROVE IInv'
  <2>1. req[r].widget \in Rows
    BY <1>13 DEF Invalidate, OnlyRows
  <2>2. req' \in [Requests -> Request]
    BY <1>13 DEF Invalidate, Request
  <2>3. \A o \in Requests :
          \/ req'[o] = req[o]
          \/ req'[o] = Idle /\ req[o].widget = req[r].widget
    BY <1>13 DEF Invalidate
  <2>4. QED
    BY <1>13, <2>1, <2>2, <2>3, CacheMoves DEF Invalidate
<1>14. ASSUME NEW r \in Requests, FillCache(r) PROVE IInv'
  <2>1. req[r].pc = "fill" /\ req[r].widget \in Rows /\ req[r].config \in Config
    BY <1>14, RequestShape DEF FillCache, OnlyRows
  <2>2. req' \in [Requests -> Request]
    BY <1>14 DEF FillCache, Request
  <2>3. \A o \in Requests :
          req'[o] = req[o] \/ (req'[o] = Idle /\ req[o].pc # "invalidate")
    BY <1>14, <2>1 DEF FillCache
  <2>4. /\ cache' = [cache EXCEPT ![req[r].widget] = req[r].config]
        /\ \/ /\ unsure' = unsure \ {req[r].widget}
              /\ req[r].config = row[req[r].widget].config
           \/ unsure' = unsure \cup {req[r].widget}
        /\ UNCHANGED <<db, tableVars, updates>>
    BY <1>14 DEF FillCache
  <2>5. QED
    BY <2>1, <2>2, <2>3, <2>4, CacheMoves
<1>15. ASSUME NEW w \in WidgetIds, ExpireConfig(w) PROVE IInv'
  <2>1. w \in Rows
    BY <1>15 DEF ExpireConfig, OnlyRows
  <2>2. QED
    BY <1>15, <2>1, CacheMoves DEF ExpireConfig
<1>16. ASSUME NEW w \in WidgetIds, DeleteWidget(w) PROVE IInv'
  <2>1. w \in Rows /\ row[w] \in Row
    BY <1>16 DEF DeleteWidget, Alive, Rows
  <2> DEFINE x == [row[w] EXCEPT !.active = FALSE]
  <2>2. x \in Row /\ x.domain = row[w].domain /\ x.config = row[w].config
    BY <2>1 DEF Row
  <2>3. row' = [row EXCEPT ![w] = x]
    BY <1>16 DEF DeleteWidget
  <2> HIDE DEF x
  <2>4. /\ row' \in [WidgetIds -> Row \cup {None}]
        /\ Rows' = Rows
        /\ \A v \in Rows : row'[v].domain = row[v].domain /\ row'[v].config = row[v].config
    BY <2>1, <2>2, <2>3, RowIsNotNone DEF Rows
  <2>5. UNCHANGED <<db, latest, crossed, cache, req, updates, unsure>>
    BY <1>16 DEF DeleteWidget
  <2>6. RowsAreDistinct' /\ OnlyRows'
    BY <2>4, <2>5 DEF RowsAreDistinct, OnlyRows
  <2>7. CacheIsFresh'
    BY <2>4, <2>5 DEF CacheIsFresh, OnlyRows
  <2>8. QED
    BY <2>4, <2>5, <2>6, <2>7
<1>17. CASE UNCHANGED vars
  BY <1>17 DEF vars, RowsAreDistinct, OnlyRows, CacheIsFresh, Rows
<1>18. QED
  BY <1>1, <1>2, <1>3, <1>4, <1>5, <1>6, <1>7, <1>8, <1>9, <1>10, <1>11, <1>12,
     <1>13, <1>14, <1>15, <1>16, <1>17 DEF Next, RequestStep

-----------------------------------------------------------------------------
(* An update keeps what it stands for.                                     *)

\* Steps that leave every domain and configuration alone.
LEMMA HistoryKept ==
  ASSUME IInv, IInv', HistoryInv, Rows' = Rows,
         \A w \in Rows : row'[w].domain = row[w].domain /\ row'[w].config = row[w].config,
         UNCHANGED <<latest, crossed>>,
         \A o \in Requests : req'[o] = req[o] \/ UpToDate(req'[o])
  PROVE  HistoryInv'
<1>1. UpdatesSurvive'
  BY DEF HistoryInv, UpdatesSurvive
<1>2. ASSUME NEW o \in Requests PROVE UpToDate(req[o])'
  <2>1. UpToDate(req'[o])
    BY DEF HistoryInv
  <2>2. req'[o].pc \in {"check", "merge", "write"} => req'[o].widget \in Rows
    BY DEF IInv, OnlyRows
  <2>3. QED
    BY <2>1, <2>2 DEF UpToDate
<1>3. QED
  BY <1>1, <1>2 DEF HistoryInv

\* A new widget is what its creation made it.
LEMMA HistoryStored ==
  ASSUME IInv, IInv', HistoryInv, NEW d \in Domains, StoreNew(d), UNCHANGED crossed,
         \A o \in Requests : req'[o] = req[o] \/ req'[o] = Idle
  PROVE  HistoryInv'
<1> USE DEF IInv, TypeOK
<1>1. PICK w \in WidgetIds \ Rows :
        /\ row' = [row EXCEPT ![w] = NewRow(d)]
        /\ latest' = [latest EXCEPT ![w] = [domain |-> d, config |-> NewRow(d).config]]
        /\ NewRow(d) \in Row
        /\ NewRow(d).domain = d
  BY Stored
<1> DEFINE n == NewRow(d)
<1> HIDE DEF n
<1>2. /\ Rows' = Rows \cup {w} /\ w \notin Rows
      /\ row'[w] = n
      /\ \A v \in Rows : row'[v] = row[v] /\ latest'[v] = latest[v]
  BY <1>1, RowIsNotNone DEF Rows, n
<1>7. ASSUME NEW o \in Requests PROVE UpToDate(req[o])'
  <2>1. CASE req'[o] = Idle
    BY <2>1 DEF UpToDate, Idle
  <2>2. CASE req'[o] = req[o]
    <3>1. req[o].pc \in {"check", "merge", "write"} => req[o].widget \in Rows
      BY DEF OnlyRows
    <3>2. UpToDate(req[o])
      BY DEF HistoryInv
    <3>3. QED
      BY <1>2, <2>2, <3>1, <3>2 DEF UpToDate
  <2>3. QED
    BY <2>1, <2>2
<1>8. UpdatesSurvive'
  <2>1. row'[w].domain = latest'[w].domain /\ row'[w].config = latest'[w].config
    BY <1>1, <1>2 DEF n
  <2>2. QED
    BY <1>2, <2>1 DEF HistoryInv, UpdatesSurvive
<1>9. QED
  BY <1>7, <1>8 DEF HistoryInv

\* What is left of the other calls when an update of w is written: those of w are
\* overtaken, those of another widget are as they were.
LEMMA OthersAfterwards ==
  ASSUME req \in [Requests -> Request], NEW r \in Requests, NEW w \in WidgetIds,
         NEW o \in Requests, o # r, req[o].pc \in {"check", "merge", "write"}
  PROVE  \/ Overtake(r, w)[o].overtaken
         \/ Overtake(r, w)[o] = req[o] /\ req[o].widget # w
<1> DEFINE q == req[o]
           u == [q EXCEPT !.overtaken = TRUE]
<1>1. CASE q.widget = w
  <2>1. Overtake(r, w)[o] = u
    BY <1>1 DEF Overtake
  <2>2. q \in Updating \/ q \in Writing
    BY RequestShape
  <2>3. u.overtaken
    BY <2>2 DEF Updating, Writing
  <2>4. QED
    BY <2>1, <2>3
<1>2. CASE q.widget # w
  BY <1>2 DEF Overtake
<1>3. QED
  BY <1>1, <1>2

\* An update makes the others of its widget late and, unless it is late itself, adds
\* to the row just what it names.
LEMMA HistoryApplied ==
  ASSUME IInv, IInv', HistoryInv, NEW r \in Requests, NEW w \in Rows,
         NEW patch \in Patches, NEW stamp \in 1..MaxUpdates, NEW d \in Domains,
         NEW config \in Config, Apply(r, w, patch, stamp, d, config),
         crossed \subseteq crossed',
         \/ w \in crossed'
         \/ d = Wanted(row[w].domain, patch) /\ config = Merged(row[w].config, patch, stamp)
  PROVE  HistoryInv'
<1> USE DEF IInv, TypeOK
<1>1. w \in WidgetIds /\ row[w] \in Row
  BY DEF Rows
<1>2. /\ row' = [row EXCEPT ![w] = [row[w] EXCEPT !.domain = d, !.config = config]]
      /\ latest' = [latest EXCEPT ![w] =
           [domain |-> Wanted(latest[w].domain, patch),
            config |-> Merged(latest[w].config, patch, stamp)]]
      /\ req' = [Overtake(r, w) EXCEPT ![r] = [pc |-> "invalidate", widget |-> w]]
  BY DEF Apply
<1>3. row'[w].domain = d /\ row'[w].config = config /\ row'[w] \in Row
  <2>1. PICK x \in Row : row[w] = x
    BY <1>1
  <2>2. row'[w] = [x EXCEPT !.domain = d, !.config = config]
    BY <1>1, <1>2, <2>1
  <2>3. PICK y : y = [x EXCEPT !.domain = d, !.config = config]
    OBVIOUS
  <2>4. y.domain = d /\ y.config = config /\ y \in Row
    BY <2>1, <2>3 DEF Row
  <2>5. row'[w] = y
    BY <2>2, <2>3
  <2>6. QED
    BY <2>4, <2>5
<1>4. \A v \in Rows : v # w => row'[v] = row[v] /\ latest'[v] = latest[v]
  BY <1>2 DEF Rows
<1>5. Rows' = Rows
  <2>1. row'[w] # None /\ row[w] # None
    BY <1>1, <1>3, RowIsNotNone
  <2>2. \A v \in WidgetIds : v # w => row'[v] = row[v]
    BY <1>2
  <2>3. QED
    BY <2>1, <2>2 DEF Rows
<1>8. ASSUME NEW o \in Requests PROVE UpToDate(req[o])'
  <2>1. CASE o = r
    <3>1. req'[o].pc = "invalidate"
      BY <1>1, <1>2, <2>1, Overtaken
    <3>2. QED
      BY <3>1 DEF UpToDate
  <2>2. CASE o # r /\ req[o].pc \notin {"check", "merge", "write"}
    <3>1. req'[o].pc = req[o].pc
      BY <1>1, <1>2, <2>2, Overtaken
    <3>2. QED
      BY <2>2, <3>1 DEF UpToDate
  <2>3. CASE o # r /\ req[o].pc \in {"check", "merge", "write"}
    <3>1. req'[o] = Overtake(r, w)[o]
      BY <1>1, <1>2, <2>3, Overtaken
    <3>2. CASE Overtake(r, w)[o].overtaken
      BY <3>1, <3>2 DEF UpToDate
    <3>3. CASE Overtake(r, w)[o] = req[o] /\ req[o].widget # w
      <4>1. req[o].widget \in Rows /\ UpToDate(req[o])
        BY <2>3 DEF OnlyRows, HistoryInv
      <4>2. row'[req[o].widget] = row[req[o].widget]
        BY <1>4, <3>3, <4>1
      <4>3. QED
        BY <3>1, <3>3, <4>1, <4>2 DEF UpToDate
    <3>4. QED
      BY <1>1, <2>3, <3>2, <3>3, OthersAfterwards
  <2>4. QED
    BY <2>1, <2>2, <2>3
<1>9. UpdatesSurvive'
  <2> SUFFICES ASSUME NEW v \in Rows', v \notin crossed'
               PROVE  row'[v].domain = latest'[v].domain
                      /\ row'[v].config = latest'[v].config
    BY DEF UpdatesSurvive
  <2>1. row[v].domain = latest[v].domain /\ row[v].config = latest[v].config
    BY <1>5 DEF HistoryInv, UpdatesSurvive
  <2>2. CASE v # w
    BY <1>4, <1>5, <2>1, <2>2
  <2>3. CASE v = w
    <3>1. latest'[w] = [domain |-> Wanted(latest[w].domain, patch),
                        config |-> Merged(latest[w].config, patch, stamp)]
      BY <1>1, <1>2
    <3>2. QED
      BY <1>3, <2>1, <2>3, <3>1
  <2>4. QED
    BY <2>2, <2>3
<1>10. QED
  BY <1>8, <1>9 DEF HistoryInv

LEMMA HistoryStep == IInv /\ IInv' /\ HistoryInv /\ [Next]_vars => HistoryInv'
<1> SUFFICES ASSUME IInv, IInv', HistoryInv, [Next]_vars PROVE HistoryInv'
  OBVIOUS
<1> USE DEF IInv, TypeOK
<1>1. ASSUME UNCHANGED tableVars,
             \A o \in Requests : req'[o] = req[o] \/ UpToDate(req'[o])
      PROVE  HistoryInv'
  <2>1. Rows' = Rows
    BY <1>1 DEF tableVars, Rows
  <2>2. QED
    BY <1>1, <2>1, HistoryKept DEF tableVars
<1>2. ASSUME NEW o \in Requests, req'[o].pc \notin {"check", "merge", "write"}
      PROVE  UpToDate(req'[o])
  BY <1>2 DEF UpToDate
<1>3. ASSUME NEW r \in Requests, NEW d \in Domains, BeginCreate(r, d)
      PROVE  HistoryInv'
  <2>1. /\ req'[r].pc = "insert" /\ \A o \in Requests : o # r => req'[o] = req[o]
        /\ UNCHANGED tableVars
    BY <1>3 DEF BeginCreate
  <2>2. QED
    BY <1>1, <1>2, <2>1
<1>4. ASSUME NEW d \in Domains, CreateInMemory(d) PROVE HistoryInv'
  BY <1>4, HistoryStored DEF CreateInMemory
<1>5. ASSUME NEW r \in Requests, Insert(r) PROVE HistoryInv'
  <2>1. req[r].domain \in Domains
    BY <1>5, RequestShape DEF Insert
  <2>2. \A o \in Requests : req'[o] = req[o] \/ req'[o] = Idle
    BY <1>5 DEF Insert
  <2>3. CASE IndexRefuses(req[r].domain, {})
    <3>1. UNCHANGED tableVars
      BY <1>5, <2>3 DEF Insert, tableVars
    <3>2. QED
      BY <1>1, <1>2, <2>2, <3>1 DEF Idle
  <2>4. CASE ~IndexRefuses(req[r].domain, {})
    BY <1>5, <2>1, <2>2, <2>4, HistoryStored DEF Insert
  <2>5. QED
    BY <2>3, <2>4
<1>6. ASSUME NEW r \in Requests, NEW w \in WidgetIds, NEW patch \in Patches,
             UpdateInMemory(r, w, patch)
      PROVE  HistoryInv'
  <2>1. w \in Rows /\ row[w] \in Row
    BY <1>6 DEF UpdateInMemory, Found, Rows, Alive
  <2>2. updates + 1 \in 1..MaxUpdates
    BY <1>6 DEF UpdateInMemory
  <2>3. row[w].domain \in Domains /\ row[w].config \in Config
    BY <2>1 DEF Row
  <2>4. /\ Wanted(row[w].domain, patch) \in Domains
        /\ Merged(row[w].config, patch, updates + 1) \in Config
    BY <2>2, <2>3, Patched
  <2>5. /\ Apply(r, w, patch, updates + 1, Wanted(row[w].domain, patch),
                 Merged(row[w].config, patch, updates + 1))
        /\ UNCHANGED crossed
    BY <1>6 DEF UpdateInMemory
  <2>6. QED
    BY <2>1, <2>2, <2>4, <2>5, HistoryApplied
<1>7. ASSUME NEW r \in Requests, NEW w \in WidgetIds, NEW patch \in Patches,
             BeginUpdate(r, w, patch)
      PROVE  HistoryInv'
  <2>1. /\ req'[r].pc \in {"check", "merge"} /\ req'[r].widget = w
        /\ req'[r].patch = patch
        /\ req'[r].domain = Wanted(row[w].domain, patch)
        /\ \A o \in Requests : o # r => req'[o] = req[o]
        /\ UNCHANGED tableVars
    BY <1>7 DEF BeginUpdate
  <2>2. UpToDate(req'[r])
    BY <2>1 DEF UpToDate
  <2>3. QED
    BY <1>1, <2>1, <2>2
<1>8. ASSUME NEW r \in Requests, CheckDomain(r) PROVE HistoryInv'
  <2>1. req[r] \in Updating /\ UpToDate(req[r]) /\ req[r].pc = "check"
    BY <1>8, RequestShape DEF CheckDomain, HistoryInv
  <2>2. UNCHANGED tableVars /\ \A o \in Requests : o # r => req'[o] = req[o]
    BY <1>8 DEF CheckDomain
  <2>3. UpToDate(req'[r])
    <3>1. CASE req'[r] = Idle
      BY <3>1 DEF UpToDate, Idle
    <3>2. CASE req'[r] = [req[r] EXCEPT !.pc = "merge"]
      <4>1. ASSUME NEW q \in Updating, q.pc = "check", UpToDate(q)
            PROVE  UpToDate([q EXCEPT !.pc = "merge"])
        BY <4>1 DEF Updating, UpToDate
      <4>2. QED
        BY <2>1, <3>2, <4>1
    <3>3. QED
      BY <1>8, <3>1, <3>2 DEF CheckDomain
  <2>4. QED
    BY <1>1, <2>2, <2>3
<1>9. ASSUME NEW r \in Requests, ReadConfig(r) PROVE HistoryInv'
  <2>1. req[r] \in Updating /\ UpToDate(req[r]) /\ req[r].pc = "merge"
    BY <1>9, RequestShape DEF ReadConfig, HistoryInv
  <2>2. /\ UNCHANGED tableVars /\ \A o \in Requests : o # r => req'[o] = req[o]
        /\ req'[r] = [req[r] EXCEPT !.pc = "write", !.config =
             Merged(row[req[r].widget].config, req[r].patch, req[r].stamp)]
    BY <1>9 DEF ReadConfig
  <2>3. UpToDate(req'[r])
    <3>1. ASSUME NEW q \in Updating, NEW c
          PROVE  LET x == [q EXCEPT !.pc = "write", !.config = c]
                 IN  /\ x.widget = q.widget /\ x.patch = q.patch /\ x.stamp = q.stamp
                     /\ x.domain = q.domain /\ x.overtaken = q.overtaken /\ x.config = c
      BY DEF Updating
    <3>2. /\ req'[r].widget = req[r].widget /\ req'[r].patch = req[r].patch
          /\ req'[r].stamp = req[r].stamp /\ req'[r].domain = req[r].domain
          /\ req'[r].overtaken = req[r].overtaken
          /\ req'[r].config = Merged(row[req[r].widget].config, req[r].patch, req[r].stamp)
      BY <2>1, <2>2, <3>1
    <3>3. QED
      BY <2>1, <3>2 DEF UpToDate
  <2>4. QED
    BY <1>1, <2>2, <2>3
<1>10. ASSUME NEW r \in Requests, Write(r) PROVE HistoryInv'
  <2>1. req[r] \in Writing /\ req[r].pc = "write" /\ req[r].widget \in Rows
    BY <1>10, RequestShape DEF Write, OnlyRows
  <2>2. /\ req[r].patch \in Patches /\ req[r].stamp \in 1..MaxUpdates
        /\ req[r].domain \in Domains /\ req[r].config \in Config
    BY <2>1 DEF Writing
  <2>3. UpToDate(req[r])
    BY DEF HistoryInv
  <2>4. /\ Apply(r, req[r].widget, req[r].patch, req[r].stamp, req[r].domain,
                 req[r].config)
        /\ crossed \subseteq crossed'
        /\ req[r].overtaken => req[r].widget \in crossed'
    BY <1>10 DEF Write
  <2>5. QED
    BY <2>1, <2>2, <2>3, <2>4, HistoryApplied DEF UpToDate
<1>11. ASSUME NEW r \in Requests,
              \/ WriteRefused(r) \/ FillLost(r) \/ InvalidationLost(r)
              \/ Invalidate(r) \/ FillCache(r)
       PROVE  HistoryInv'
  <2>1. req' = [req EXCEPT ![r] = Idle] /\ UNCHANGED tableVars
    BY <1>11 DEF WriteRefused, FillLost, InvalidationLost, Invalidate, FillCache
  <2>2. QED
    BY <1>1, <1>2, <2>1 DEF Idle
<1>12. ASSUME NEW r \in Requests, NEW w \in WidgetIds, MissCache(r, w)
       PROVE  HistoryInv'
  <2>1. /\ req'[r].pc = "fetch" /\ \A o \in Requests : o # r => req'[o] = req[o]
        /\ UNCHANGED tableVars
    BY <1>12 DEF MissCache
  <2>2. QED
    BY <1>1, <1>2, <2>1
<1>13. ASSUME NEW r \in Requests, FetchRow(r) PROVE HistoryInv'
  <2>1. /\ req'[r].pc \in {"fill", "idle"}
        /\ \A o \in Requests : o # r => req'[o] = req[o]
        /\ UNCHANGED tableVars
    BY <1>13 DEF FetchRow, Idle
  <2>2. QED
    BY <1>1, <1>2, <2>1
<1>14. ASSUME NEW w \in WidgetIds, ExpireConfig(w) PROVE HistoryInv'
  BY <1>1, <1>14 DEF ExpireConfig
<1>15. ASSUME NEW w \in WidgetIds, DeleteWidget(w) PROVE HistoryInv'
  <2>1. w \in Rows /\ row[w] \in Row
    BY <1>15 DEF DeleteWidget, Alive, Rows
  <2> DEFINE x == [row[w] EXCEPT !.active = FALSE]
  <2>2. /\ x \in Row /\ x.domain = row[w].domain /\ x.config = row[w].config
    BY <2>1 DEF Row
  <2>3. row' = [row EXCEPT ![w] = x] /\ UNCHANGED <<latest, crossed, req>>
    BY <1>15 DEF DeleteWidget
  <2> HIDE DEF x
  <2>4. Rows' = Rows
    BY <2>1, <2>2, <2>3, RowIsNotNone DEF Rows
  <2>5. \A v \in Rows : /\ row'[v].domain = row[v].domain
                        /\ row'[v].config = row[v].config
    BY <2>1, <2>2, <2>3 DEF Rows
  <2>6. QED
    BY <2>3, <2>4, <2>5, HistoryKept
<1>16. CASE UNCHANGED vars
  BY <1>1, <1>16 DEF vars, tableVars
<1>17. QED
  BY <1>3, <1>4, <1>5, <1>6, <1>7, <1>8, <1>9, <1>10, <1>11, <1>12, <1>13, <1>14,
     <1>15, <1>16 DEF Next, RequestStep

-----------------------------------------------------------------------------
(* The theorems.                                                           *)

\* The inductive invariant: types, distinct domains (deleted widgets included),
\* calls and cached values that belong to widgets that exist, fresh caches.
THEOREM WidgetSafety == Spec => []IInv
<1>1. Init => IInv
  BY NoneAssumption DEF Init, IInv, TypeOK, RowsAreDistinct, OnlyRows, CacheIsFresh,
     Rows, Idle, Request
<1>2. QED
  BY <1>1, IInvStep, PTL DEF Spec

\* Every variable keeps its type (Widgets.TypeOK).
THEOREM WidgetTyping == Spec => []TypeOK
<1>1. IInv => TypeOK
  BY DEF IInv
<1>2. QED
  BY <1>1, WidgetSafety, PTL

\* Whatever creations and updates overlap, no two widgets that are alive share a
\* domain: on Postgres the index refuses what the check let through, in memory
\* the check is enough (Widgets.DomainsAreDistinct).
THEOREM DomainsStayDistinct == Spec => []DomainsAreDistinct
<1>1. IInv => DomainsAreDistinct
  BY DEF IInv, RowsAreDistinct, DomainsAreDistinct, Alive
<1>2. QED
  BY <1>1, WidgetSafety, PTL

\* For any number of overlapping updates and readers: a cached configuration is the
\* widget's own, about to be invalidated, or one of the two exceptions that are
\* noted, a lost DEL and a fill that was overtaken (Widgets.CacheIsFresh).
THEOREM CacheStaysFresh == Spec => []CacheIsFresh
<1>1. IInv => CacheIsFresh
  BY DEF IInv
<1>2. QED
  BY <1>1, WidgetSafety, PTL

\* On top of it: what updates that are under way will write, and did write.
THEOREM WidgetHistory == Spec => []HistoryInv
<1>1. Init => HistoryInv
  BY DEF Init, HistoryInv, UpToDate, UpdatesSurvive, Rows, Idle
<1>2. QED
  BY <1>1, HistoryStep, WidgetSafety, PTL DEF Spec

\* For any number of calls and fields: an update that none overtook is in the row,
\* field by field, until another one names the same field
\* (Widgets.UpdatesSurvive).
THEOREM UpdatesAreKept == Spec => []UpdatesSurvive
<1>1. HistoryInv => UpdatesSurvive
  BY DEF HistoryInv
<1>2. QED
  BY <1>1, WidgetHistory, PTL

=============================================================================
