-------------------------- MODULE DashboardProofs --------------------------
(***************************************************************************)
(* Theorems about Dashboard for every number of leads, widgets, tenants,   *)
(* calls, days and faults, every page size and every cap on an export.     *)
(***************************************************************************)
EXTENDS Dashboard, FiniteSetTheorems, TLAPS

Orders == {"asc", "desc"}

-----------------------------------------------------------------------------
(* Indices in a sorted list.                                               *)

\* Numbers name leads.
Numbered(ls) ==
  /\ ls \in SUBSET Lead /\ IsFiniteSet(ls)
  /\ \A l, m \in ls : l.id = m.id => l = m

LEMMA NumberedPart ==
  ASSUME NEW ls, Numbered(ls), NEW ms \in SUBSET ls
  PROVE  Numbered(ms) /\ Cardinality(ms) \in Nat /\ Cardinality(ms) <= Cardinality(ls)
                      /\ Cardinality(ls) \in Nat
<1>1. IsFiniteSet(ms) /\ Cardinality(ms) <= Cardinality(ls)
  BY FS_Subset DEF Numbered
<1>2. QED
  BY <1>1, FS_CardinalityType DEF Numbered

LEMMA FieldsOfLead ==
  ASSUME NEW l \in Lead
  PROVE  l.id \in Nat /\ l.day \in Nat /\ l.id \in LeadIds /\ l.day \in Days
         /\ l.widget \in Widgets /\ l.trap \in BOOLEAN /\ Tenant(l) \in Tenants
  BY DashboardAssumption DEF Lead, LeadIds, Days, Tenant

\* The stable sort is a strict total order.
LEMMA BeforeIsStrict ==
  ASSUME NEW order \in Orders, NEW l \in Lead, NEW m \in Lead, NEW n \in Lead
  PROVE  /\ ~Before(l, l, order)
         /\ Before(l, m, order) /\ Before(m, n, order) => Before(l, n, order)
         /\ l.id # m.id => Before(l, m, order) \/ Before(m, l, order)
  BY FieldsOfLead DEF Before, Orders

LEMMA IndexIsBelow ==
  ASSUME NEW ls, Numbered(ls), NEW order \in Orders, NEW l \in ls
  PROVE  /\ Index(l, ls, order) \in Nat
         /\ Index(l, ls, order) < Cardinality(ls)
<1> DEFINE front == {m \in ls : Before(m, l, order)}
<1>1. l \in Lead /\ l \notin front
  BY BeforeIsStrict DEF Numbered
<1>2. /\ IsFiniteSet(ls \ {l}) /\ Cardinality(ls \ {l}) = Cardinality(ls) - 1
      /\ Cardinality(ls) \in Nat
  BY FS_RemoveElement, FS_CardinalityType DEF Numbered
<1>3. front \in SUBSET (ls \ {l})
  BY <1>1
<1>4. Cardinality(front) <= Cardinality(ls \ {l}) /\ Cardinality(front) \in Nat
  <2> HIDE DEF front
  <2>1. IsFiniteSet(front) /\ Cardinality(front) <= Cardinality(ls \ {l})
    BY <1>2, <1>3, FS_Subset
  <2>2. QED
    BY <2>1, FS_CardinalityType
<1>5. QED
  BY <1>2, <1>4 DEF Index

\* More leads push no lead forwards, and leads behind it push it nowhere.
LEMMA IndexGrows ==
  ASSUME NEW ms, Numbered(ms), NEW ls \in SUBSET ms, NEW order \in Orders, NEW l \in ls
  PROVE  /\ Index(l, ls, order) <= Index(l, ms, order)
         /\ (\A m \in ms \ ls : ~Before(m, l, order))
              => Index(l, ms, order) = Index(l, ls, order)
<1> DEFINE fewer == {m \in ls : Before(m, l, order)}
           more == {m \in ms : Before(m, l, order)}
<1>1. more \in SUBSET ms /\ fewer \in SUBSET more
  OBVIOUS
<1>2. Cardinality(fewer) <= Cardinality(more)
  <2> HIDE DEF fewer, more
  <2>1. Numbered(more)
    BY <1>1, NumberedPart
  <2>2. QED
    BY <1>1, <2>1, NumberedPart
<1>3. (\A m \in ms \ ls : ~Before(m, l, order)) => more = fewer
  OBVIOUS
<1>4. QED
  BY <1>2, <1>3 DEF Index

\* An earlier lead has a smaller index.
LEMMA IndexIsMonotone ==
  ASSUME NEW ls, Numbered(ls), NEW order \in Orders, NEW l \in ls, NEW m \in ls,
         Before(l, m, order)
  PROVE  Index(l, ls, order) < Index(m, ls, order)
<1> DEFINE front == {x \in ls : Before(x, l, order)}
           further == {x \in ls : Before(x, m, order)}
<1>1. l \in further
  OBVIOUS
<1>2. l \notin front /\ front \in SUBSET further /\ further \in SUBSET ls
  BY BeforeIsStrict DEF Numbered
<1>3. Cardinality(front) < Cardinality(further)
  <2> HIDE DEF front, further
  <2>1. IsFiniteSet(further) /\ IsFiniteSet(front)
    BY <1>2, NumberedPart DEF Numbered
  <2>2. /\ IsFiniteSet(further \ {l}) /\ Cardinality(further) \in Nat
        /\ Cardinality(further \ {l}) = Cardinality(further) - 1
    BY <1>1, <2>1, FS_RemoveElement, FS_CardinalityType
  <2>3. front \in SUBSET (further \ {l})
    BY <1>2
  <2>4. Cardinality(front) <= Cardinality(further \ {l}) /\ Cardinality(front) \in Nat
    BY <2>1, <2>2, <2>3, FS_Subset, FS_CardinalityType
  <2>5. QED
    BY <2>2, <2>4
<1>4. QED
  BY <1>3 DEF Index

\* No two leads have one index, so that the first k indices are those of k leads at most.
LEMMA IndicesFit ==
  ASSUME NEW ls, Numbered(ls), NEW order \in Orders, NEW k \in Nat,
         \A l \in ls : Index(l, ls, order) < k
  PROVE  Cardinality(ls) <= k
<1>1. PICK f : f = [l \in ls |-> Index(l, ls, order) + 1]
  OBVIOUS
<1>2. f \in [ls -> 1..k]
  BY <1>1, IndexIsBelow
<1>3. ASSUME NEW l \in ls, NEW m \in ls, f[l] = f[m] PROVE l = m
  <2>1. Index(l, ls, order) = Index(m, ls, order)
    BY <1>1, <1>3, IndexIsBelow
  <2>2. Index(l, ls, order) \in Nat /\ l \in Lead /\ m \in Lead
    BY IndexIsBelow DEF Numbered
  <2>3. ~Before(l, m, order) /\ ~Before(m, l, order)
    BY <2>1, <2>2, IndexIsMonotone
  <2>4. QED
    BY <2>2, <2>3, BeforeIsStrict DEF Numbered
<1>4. f \in Injection(ls, 1..k)
  BY <1>2, <1>3 DEF Injection, IsInjective
<1>5. IsFiniteSet(1..k) /\ Cardinality(1..k) <= k
  BY FS_Interval
<1>6. QED
  BY <1>4, <1>5, FS_Injection, FS_CardinalityType DEF Numbered

-----------------------------------------------------------------------------
(* Exports.                                                                *)

\* A file is cut off when it should hold more leads than the cap, and not otherwise.
LEMMA RowsOfExport ==
  ASSUME NEW data, Numbered(data),
         NEW rows, rows = {l \in data : Index(l, data, "desc") < MaxExportRows}
  PROVE  /\ Cardinality(data) > MaxExportRows <=> data # rows
         /\ \A l \in data \ rows, m \in rows : l.day <= m.day
<1> USE DashboardAssumption DEF Orders
<1>1. Cardinality(data) \in Nat
  BY FS_CardinalityType DEF Numbered
<1>2. ASSUME Cardinality(data) <= MaxExportRows PROVE data = rows
  <2>1. \A l \in data : Index(l, data, "desc") < MaxExportRows
    BY <1>1, <1>2, IndexIsBelow
  <2>2. QED
    BY <2>1
<1>3. ASSUME data = rows PROVE Cardinality(data) <= MaxExportRows
  BY <1>3, IndicesFit
<1>4. ASSUME NEW l \in data \ rows, NEW m \in rows PROVE l.day <= m.day
  <2>1. /\ Index(l, data, "desc") \in Nat /\ Index(m, data, "desc") \in Nat
        /\ Index(m, data, "desc") < MaxExportRows
        /\ ~(Index(l, data, "desc") < MaxExportRows)
    BY IndexIsBelow
  <2>2. ~Before(l, m, "desc")
    BY <2>1, IndexIsMonotone
  <2>3. l.day \in Nat /\ m.day \in Nat
    BY FieldsOfLead DEF Numbered
  <2>4. QED
    BY <2>2, <2>3 DEF Before
<1>5. QED
  BY <1>1, <1>2, <1>3, <1>4

LEMMA ExportsOfTable ==
  ASSUME Numbered(table)
  PROVE  ExportsAddUp
<1> SUFFICES ASSUME db = "memory", NEW w \in Widgets, NEW from \in Days, NEW to \in Days
             PROVE  LET file(a, b) == ExportCsv(w, Owner[w], a, b)
                        missing == StoredIn(w, from, to) \ file(from, to).rows
                    IN  /\ ~file(from, to).raises
                        /\ file(from, to).truncated <=> missing # {}
                        /\ \A l \in missing, m \in file(from, to).rows : l.day <= m.day
                        /\ \A mid \in from..(to - 1) :
                             /\ file(from, mid).rows \cap file(mid + 1, to).rows = {}
                             /\ file(from, mid).truncated \/ file(mid + 1, to).truncated
                                  \/ file(from, mid).rows \cup file(mid + 1, to).rows
                                       = StoredIn(w, from, to)
  BY DEF ExportsAddUp
<1> DEFINE file(a, b) == ExportCsv(w, Owner[w], a, b)
           kept(a, b) == StoredIn(w, a, b)
<1>1. ASSUME NEW a \in Nat, NEW b \in Nat
      PROVE  ExportData(w, Owner[w], a, b) = kept(a, b) /\ Numbered(kept(a, b))
  <2>1. OfWidget(w, Owner[w]) \in SUBSET table
    BY DEF OfWidget
  <2>2. \A l \in OfWidget(w, Owner[w]) : l.day \in Nat
    BY <2>1, FieldsOfLead DEF Numbered
  <2>3. \A l \in OfWidget(w, Owner[w]) : InPeriod(l, a, b) <=> l.day \in a..b
    BY <2>2 DEF InPeriod, Until
  <2>4. kept(a, b) \in SUBSET table
    BY <2>1 DEF StoredIn
  <2>5. QED
    BY <2>3, <2>4, NumberedPart DEF ExportData, StoredIn
<1>2. ASSUME NEW a \in Nat, NEW b \in Nat
      PROVE  /\ file(a, b).rows \in SUBSET kept(a, b)
             /\ ~file(a, b).raises
             /\ file(a, b).truncated <=> kept(a, b) # file(a, b).rows
             /\ \A l \in kept(a, b) \ file(a, b).rows, m \in file(a, b).rows : l.day <= m.day
  <2>1. /\ file(a, b).rows = {l \in kept(a, b) : Index(l, kept(a, b), "desc") < MaxExportRows}
        /\ file(a, b).truncated <=> Cardinality(kept(a, b)) > MaxExportRows
        /\ ~file(a, b).raises
    BY <1>1 DEF ExportCsv
  <2> HIDE DEF file, kept
  <2>2. QED
    BY <1>1, <2>1, RowsOfExport
<1>3. from \in Nat /\ to \in Nat
  BY DEF Days
<1>4. ASSUME NEW mid \in from..(to - 1)
      PROVE  /\ file(from, mid).rows \cap file(mid + 1, to).rows = {}
             /\ file(from, mid).truncated \/ file(mid + 1, to).truncated
                  \/ file(from, mid).rows \cup file(mid + 1, to).rows = kept(from, to)
  <2>1. mid \in Nat /\ mid + 1 \in Nat
    BY <1>3
  <2>2. \A l \in OfWidget(w, Owner[w]) : l.day \in Nat
    BY FieldsOfLead DEF Numbered, OfWidget
  <2>3. /\ kept(from, mid) \cap kept(mid + 1, to) = {}
        /\ kept(from, mid) \cup kept(mid + 1, to) = kept(from, to)
    BY <1>3, <2>1, <2>2 DEF StoredIn
  <2>4. /\ file(from, mid).rows \in SUBSET kept(from, mid)
        /\ file(from, mid).truncated <=> kept(from, mid) # file(from, mid).rows
    BY <1>2, <1>3, <2>1
  <2>5. /\ file(mid + 1, to).rows \in SUBSET kept(mid + 1, to)
        /\ file(mid + 1, to).truncated <=> kept(mid + 1, to) # file(mid + 1, to).rows
    BY <1>2, <1>3, <2>1
  <2> HIDE DEF file, kept
  <2>6. QED
    BY <2>3, <2>4, <2>5
<1>5. /\ ~file(from, to).raises
      /\ file(from, to).truncated <=> kept(from, to) \ file(from, to).rows # {}
      /\ \A l \in kept(from, to) \ file(from, to).rows, m \in file(from, to).rows :
           l.day <= m.day
  <2>1. /\ file(from, to).rows \in SUBSET kept(from, to)
        /\ ~file(from, to).raises
        /\ file(from, to).truncated <=> kept(from, to) # file(from, to).rows
        /\ \A l \in kept(from, to) \ file(from, to).rows, m \in file(from, to).rows :
             l.day <= m.day
    BY <1>2, <1>3
  <2> HIDE DEF file, kept
  <2>2. QED
    BY <2>1
<1>6. QED
  BY <1>4, <1>5

-----------------------------------------------------------------------------
(* Types.                                                                  *)

LEMMA FieldsOfRequest ==
  ASSUME NEW x \in Request
  PROVE  /\ x.pc = "turn" => x \in Walk
         /\ x.pc = "count" => x.total \in 0..MaxLeads
         /\ x.pc = "fill" => x.stats \in Stats
         /\ x.pc \in {"del widget", "del tenant"} => x.widget \in Widgets
         /\ x # Idle => x.pc # "idle"
<1>1. CASE x = Idle
  BY <1>1 DEF Idle
<1>2. CASE x \in Walk
  BY <1>2 DEF Walk, Idle
<1>3. CASE x \in [pc: {"compute"}]
  BY <1>3 DEF Idle
<1>4. CASE x \in [pc: {"count"}, total: 0..MaxLeads]
  BY <1>4 DEF Idle
<1>5. CASE x \in [pc: {"fill"}, stats: Stats]
  BY <1>5 DEF Idle
<1>6. CASE x \in [pc: {"del widget", "del tenant"}, widget: Widgets]
  BY <1>6 DEF Idle
<1>7. QED
  BY <1>1, <1>2, <1>3, <1>4, <1>5, <1>6 DEF Request

LEMMA DelRequest ==
  ASSUME NEW x \in Request, x.pc = "del widget"
  PROVE  x \in [pc: {"del widget", "del tenant"}, widget: Widgets]
<1>1. Idle.pc = "idle"
  BY DEF Idle
<1>2. x # Idle
  BY <1>1
<1>3. x \notin Walk
  BY DEF Walk
<1>4. x \notin [pc: {"compute"}] /\ x \notin [pc: {"count"}, total: 0..MaxLeads]
  OBVIOUS
<1>5. x \notin [pc: {"fill"}, stats: Stats]
  OBVIOUS
<1>6. QED
  BY <1>2, <1>3, <1>4, <1>5 DEF Request

LEMMA RequestsOf ==
  /\ Idle \in Request /\ [pc |-> "compute"] \in Request
  /\ \A n \in 0..MaxLeads : [pc |-> "count", total |-> n] \in Request
  /\ \A s \in Stats : [pc |-> "fill", stats |-> s] \in Request
  /\ \A w \in Widgets : /\ [pc |-> "del widget", widget |-> w] \in Request
                        /\ Invalidating(w) \in Request
  /\ \A x \in Request : x.pc = "del widget" => [x EXCEPT !.pc = "del tenant"] \in Request
<1>1. Idle \in Request /\ [pc |-> "compute"] \in Request
  BY DEF Request
<1>2. \A n \in 0..MaxLeads : [pc |-> "count", total |-> n] \in Request
  BY DEF Request
<1>3. \A s \in Stats : [pc |-> "fill", stats |-> s] \in Request
  BY DEF Request
<1>4. \A w \in Widgets : [pc |-> "del widget", widget |-> w] \in Request
  BY DEF Request
<1>5. \A w \in Widgets : Invalidating(w) \in Request
  BY <1>1, <1>4 DEF Invalidating
<1>6. ASSUME NEW x \in Request, x.pc = "del widget"
      PROVE  [x EXCEPT !.pc = "del tenant"] \in Request
  <2>1. x \in [pc: {"del widget", "del tenant"}, widget: Widgets]
    BY <1>6, DelRequest
  <2>2. [x EXCEPT !.pc = "del tenant"] \in [pc: {"del widget", "del tenant"}, widget: Widgets]
    BY <2>1
  <2>3. QED
    BY <2>2 DEF Request
<1>7. QED
  BY <1>1, <1>2, <1>3, <1>4, <1>5, <1>6

LEMMA Walks ==
  /\ Walk \subseteq Request
  /\ \A w \in Walk : [w EXCEPT !.grew = TRUE] \in Walk /\ [w EXCEPT !.shrank = TRUE] \in Walk
  /\ \A w \in Walk, shown \in SUBSET Lead, page \in 1..(MaxLeads + 1) :
       [w EXCEPT !.shown = shown, !.page = page] \in Walk
  /\ \A q \in Query, first \in SUBSET Lead :
       [pc |-> "turn", query |-> q, page |-> 1, shown |-> {}, first |-> first,
        grew |-> FALSE, shrank |-> FALSE] \in Walk
<1>1. Walk \subseteq Request
  BY DEF Request
<1>2. ASSUME NEW w \in Walk
      PROVE  [w EXCEPT !.grew = TRUE] \in Walk /\ [w EXCEPT !.shrank = TRUE] \in Walk
  BY DEF Walk
<1>3. ASSUME NEW w \in Walk, NEW shown \in SUBSET Lead, NEW page \in 1..(MaxLeads + 1)
      PROVE  [w EXCEPT !.shown = shown, !.page = page] \in Walk
  BY DEF Walk
<1>4. 1 \in 1..(MaxLeads + 1)
  BY DashboardAssumption
<1>5. ASSUME NEW q \in Query, NEW first \in SUBSET Lead
      PROVE  [pc |-> "turn", query |-> q, page |-> 1, shown |-> {}, first |-> first,
              grew |-> FALSE, shrank |-> FALSE] \in Walk
  BY <1>4 DEF Walk
<1>6. QED
  BY <1>1, <1>2, <1>3, <1>5

LEMMA NoticedAndMissed ==
  ASSUME TypeOK
  PROVE  /\ \A l : Noticed(l) \in [Requests -> Request]
         /\ \A ls : Missed(ls) \in [Requests -> Request]
         /\ \A r \in Requests : Missed({})[r] = req[r]
  BY FieldsOfRequest, Walks DEF TypeOK, Noticed, Missed

LEMMA TableIsNumbered ==
  ASSUME TypeOK, TableInv
  PROVE  Numbered(table) /\ stored \in 0..MaxLeads /\ Cardinality(table) \in 0..MaxLeads
<1>1. Numbered(table) /\ Cardinality(table) \in Nat
  BY FS_CardinalityType DEF TypeOK, TableInv, Numbered
<1>2. QED
  BY <1>1, DashboardAssumption DEF TypeOK, TableInv

LEMMA StatsOfTable ==
  ASSUME TypeOK, TableInv, NEW k
  PROVE  /\ ComputeStats(k) \in Stats
         /\ ComputeStats(k).total \in 0..MaxLeads /\ ComputeStats(k).blocked \in 0..MaxLeads
<1>1. \A trap : {l \in Counted(k) : l.trap = trap} \in SUBSET table
  BY DEF Counted, OfWidget, OfTenant
<1>2. \A trap : Count(Counted(k), trap) \in 0..MaxLeads
  <2> SUFFICES ASSUME NEW trap PROVE Count(Counted(k), trap) \in 0..MaxLeads
    OBVIOUS
  <2>1. PICK ls : ls = {l \in Counted(k) : l.trap = trap}
    OBVIOUS
  <2>2. ls \in SUBSET table
    BY <1>1, <2>1
  <2>3. Cardinality(ls) \in Nat /\ Cardinality(ls) <= Cardinality(table)
    BY <2>2, TableIsNumbered, NumberedPart
  <2>4. QED
    BY <2>1, <2>3, TableIsNumbered, DashboardAssumption DEF Count
<1>3. QED
  BY <1>2 DEF ComputeStats, Stats

\* The actions, with what they are about.
NextCases ==
  \/ \E r \in Requests :
       \/ \E w \in Widgets, trap \in BOOLEAN : Submit(r, w, trap)
       \/ \E w \in Widgets, ls \in SUBSET table :
            (\A l \in ls : l.widget = w) /\ DeleteRows(r, w, ls)
       \/ \E q \in Query : BeginWalk(r, q)
       \/ Miss(r) \/ RequestStep(r) \/ InvalidationLost(r) \/ FillLost(r) \/ TurnPage(r)
  \/ \E w \in Widgets, trap \in BOOLEAN : SubmitRaises(w, trap)
  \/ ExpireStats \/ NextDay \/ Crash
  \/ UNCHANGED vars

LEMMA CasesOfNext == [Next]_vars => NextCases
<1>1. ASSUME NEW r \in Requests, Begin(r) PROVE NextCases
  <2>1. CASE \E w \in Widgets, trap \in BOOLEAN : Submit(r, w, trap)
    BY <2>1 DEF NextCases
  <2>2. ASSUME NEW t \in Tenants, NEW w \in Widgets,
               \/ \E id \in LeadIds : DeleteLead(r, t, w, id)
               \/ \E ids \in SUBSET {l.id : l \in table} : BatchDelete(r, t, w, ids)
        PROVE  NextCases
    <3>1. \A ids : /\ Deletable(ids, w, t) \in SUBSET table
                   /\ \A l \in Deletable(ids, w, t) : l.widget = w
      BY DEF Deletable
    <3>2. \E ids : DeleteRows(r, w, Deletable(ids, w, t))
      BY <2>2 DEF DeleteLead, BatchDelete
    <3>3. QED
      BY <3>1, <3>2 DEF NextCases
  <2>3. CASE Miss(r)
    BY <2>3 DEF NextCases
  <2>4. ASSUME NEW q \in Query, BeginWalk(r, q) PROVE NextCases
    BY <2>4 DEF NextCases
  <2>5. ASSUME NEW t \in Tenants, NEW w \in Widgets \cup {None}, NEW traps \in BOOLEAN,
               NEW order \in {"asc", "desc"}
        PROVE  [tenant |-> t, widget |-> w, traps |-> traps, order |-> order] \in Query
    BY DEF Query
  <2>6. ASSUME NEW t \in Tenants, NEW w \in Widgets, NEW traps \in BOOLEAN,
               NEW order \in {"asc", "desc"}, WalkWidget(r, t, w, traps, order)
        PROVE  NextCases
    BY <2>4, <2>5, <2>6 DEF WalkWidget
  <2>7. ASSUME NEW t \in Tenants, NEW traps \in BOOLEAN,
               NEW order \in {"asc", "desc"}, WalkTenant(r, t, traps, order)
        PROVE  NextCases
    BY <2>4, <2>5, <2>7 DEF WalkTenant
  <2>8. QED
    BY <1>1, <2>1, <2>2, <2>3, <2>6, <2>7 DEF Begin, MissWidgetStats, MissTenantStats
<1>2. QED
  BY <1>1 DEF Next, NextCases

-----------------------------------------------------------------------------
(* Every step keeps the types and the numbering.                           *)

LEMMA PagesInRange ==
  ASSUME NEW n \in 0..MaxLeads, NEW page \in 1..(MaxLeads + 1)
  PROVE  /\ page >= Pages(n) => page * PageSize >= n
         /\ page < Pages(n) => page + 1 <= MaxLeads + 1
<1> USE DashboardAssumption
<1>1. PICK a \in Nat : a = n + PageSize - 1
  OBVIOUS
<1>2. PICK q \in Nat : q = a \div PageSize
  OBVIOUS
<1>3. Pages(n) = q /\ n \in Nat /\ page \in Nat
  BY <1>1, <1>2 DEF Pages
<1>4. PICK k \in 0..(PageSize - 1) : a = PageSize * q + k
  BY <1>2
<1>5. ASSUME page >= q PROVE page * PageSize >= n
  <2>1. PageSize * q + PageSize > a
    BY <1>4
  <2>2. PageSize * q >= n
    BY <1>1, <2>1
  <2>3. PageSize * page >= PageSize * q
    BY <1>3, <1>5
  <2>4. QED
    BY <1>3, <2>2, <2>3
<1>6. q <= n
  <2>1. CASE n = 0
    <3>1. PageSize * q < PageSize
      BY <1>1, <1>4, <2>1
    <3>2. QED
      BY <2>1, <3>1
  <2>2. CASE n > 0
    <3>1. PageSize * q <= n + PageSize - 1
      BY <1>1, <1>4
    <3>2. PageSize * (q - 1) <= n - 1
      BY <1>3, <3>1
    <3>3. CASE q = 0
      BY <1>3, <3>3
    <3>4. CASE q > 0
      <4>1. q - 1 <= PageSize * (q - 1)
        BY <3>4
      <4>2. QED
        BY <1>3, <3>2, <4>1
    <3>5. QED
      BY <3>3, <3>4
  <2>3. QED
    BY <1>3, <2>1, <2>2
<1>7. QED
  BY <1>3, <1>5, <1>6

LEMMA NextPageInRange ==
  ASSUME TypeOK, TableInv, NEW r \in Requests, req[r] \in Walk
  PROVE  /\ LastPage(r) => req[r].page * PageSize >= Cardinality(Answer(r))
         /\ ~LastPage(r) => req[r].page + 1 \in 1..(MaxLeads + 1)
         /\ Answer(r) \in SUBSET table /\ NextPage(r) \in SUBSET Answer(r)
         /\ Cardinality(Answer(r)) \in Nat /\ req[r].page \in Nat \ {0}
<1>1. Answer(r) \in SUBSET table /\ NextPage(r) \in SUBSET Answer(r)
  BY DEF Answer, Matching, OfWidget, OfTenant, NextPage, Page
<1>2. Cardinality(Answer(r)) \in 0..MaxLeads
  <2>1. Cardinality(Answer(r)) \in Nat /\ Cardinality(Answer(r)) <= Cardinality(table)
    BY <1>1, TableIsNumbered, NumberedPart
  <2>2. QED
    BY <2>1, TableIsNumbered, DashboardAssumption
<1>3. req[r].page \in 1..(MaxLeads + 1)
  BY DEF Walk
<1>4. Pages(Cardinality(Answer(r))) \in Int
  BY <1>2, DashboardAssumption DEF Pages
<1>5. QED
  BY <1>1, <1>2, <1>3, <1>4, PagesInRange, DashboardAssumption DEF LastPage

LEMMA OneRequest ==
  ASSUME TypeOK, NEW r \in Requests, NEW x \in Request
  PROVE  [req EXCEPT ![r] = x] \in [Requests -> Request]
  BY DEF TypeOK

\* The leads there are, and how many there ever were.
LEMMA TableStep ==
  ASSUME TypeOK, TableInv, NextCases
  PROVE  /\ TableInv' /\ stored' \in 0..MaxLeads /\ today' \in Days
         /\ table' \in SUBSET Lead /\ \A l, m \in table' : l.id = m.id => l = m
<1> USE DashboardAssumption
<1> DEFINE Goal == /\ TableInv' /\ stored' \in 0..MaxLeads /\ today' \in Days
                   /\ table' \in SUBSET Lead /\ \A l, m \in table' : l.id = m.id => l = m
<1>1. ASSUME NEW w \in Widgets, NEW trap \in BOOLEAN, Store(w, trap), today' = today
      PROVE  Goal
  <2>1. PICK n : n = NewLead(w, trap)
    OBVIOUS
  <2>2. stored \in Nat /\ stored < MaxLeads /\ stored' = stored + 1
    BY <1>1 DEF Store, TypeOK
  <2>3. n \in Lead /\ n.id = stored + 1 /\ n.day = today
    BY <2>1, <2>2 DEF NewLead, Lead, LeadIds, TypeOK
  <2>4. table' = table \cup {n}
    BY <1>1, <2>1 DEF Store
  <2>5. IsFiniteSet(table') /\ Cardinality(table') <= stored'
    <3>1. Cardinality(table) \in Nat /\ IsFiniteSet(table)
      BY TableIsNumbered DEF Numbered
    <3>2. IsFiniteSet(table') /\ Cardinality(table') <= Cardinality(table) + 1
      <4>1. PICK c \in Nat : c = Cardinality(table)
        BY <3>1
      <4>2. /\ IsFiniteSet(table \cup {n})
            /\ Cardinality(table \cup {n}) = IF n \in table THEN c ELSE c + 1
        BY <3>1, <4>1, FS_AddElement
      <4>3. QED
        BY <2>4, <4>1, <4>2
    <3>3. Cardinality(table') \in Nat
      BY <3>2, FS_CardinalityType
    <3>4. QED
      BY <2>2, <3>1, <3>2, <3>3 DEF TableInv
  <2>6. \A l \in table : l.id <= stored /\ l.day <= today /\ l.id \in Nat /\ l.day \in Nat
    BY FieldsOfLead DEF TableInv, TypeOK
  <2>7. \A l \in table' : l.id <= stored' /\ l.day <= today'
    BY <1>1, <2>2, <2>3, <2>4, <2>6 DEF TypeOK, Days
  <2>8. \A l, m \in table' : l.id = m.id => l = m
    BY <2>2, <2>3, <2>4, <2>6 DEF TypeOK
  <2>9. QED
    BY <1>1, <2>2, <2>3, <2>4, <2>5, <2>7, <2>8 DEF TableInv, TypeOK
<1>2. ASSUME NEW ls, table' = table \ ls, UNCHANGED <<stored, today>> PROVE Goal
  <2>1. table' \in SUBSET table
    BY <1>2
  <2>2. IsFiniteSet(table') /\ Cardinality(table') <= Cardinality(table)
        /\ Cardinality(table') \in Nat /\ Cardinality(table) \in Nat
    BY <2>1, TableIsNumbered, NumberedPart DEF Numbered
  <2>3. QED
    BY <1>2, <2>1, <2>2 DEF TableInv, TypeOK
<1>3. ASSUME UNCHANGED <<table, stored>>, today' = today \/ NextDay PROVE Goal
  <2>1. today' \in Days /\ today' >= today
    BY <1>3 DEF NextDay, TypeOK, Days
  <2>2. \A l \in table : l.day <= today' /\ l.id <= stored
    BY <2>1, FieldsOfLead DEF TableInv, TypeOK, Days
  <2>3. QED
    BY <1>3, <2>1, <2>2 DEF TableInv, TypeOK
<1> HIDE DEF Goal
<1>4. ASSUME NEW r \in Requests, NEW w \in Widgets, NEW trap \in BOOLEAN, Submit(r, w, trap)
      PROVE  Goal
  BY <1>1, <1>4 DEF Submit
<1>5. ASSUME NEW w \in Widgets, NEW trap \in BOOLEAN, SubmitRaises(w, trap) PROVE Goal
  BY <1>1, <1>5 DEF SubmitRaises
<1>6. ASSUME NEW r \in Requests, NEW w, NEW ls, DeleteRows(r, w, ls) PROVE Goal
  <2>1. table' = table \ ls /\ UNCHANGED <<stored, today>>
    BY <1>6 DEF DeleteRows
  <2>2. QED
    BY <1>2, <2>1
<1>7. ASSUME Crash PROVE Goal
  <2>1. PICK gone : table' = table \ gone
    BY <1>7 DEF Crash
  <2>2. UNCHANGED <<stored, today>>
    BY <1>7 DEF Crash
  <2>3. QED
    BY <1>2, <2>1, <2>2
<1>8. ASSUME NextDay PROVE Goal
  BY <1>3, <1>8 DEF NextDay
<1>9. ASSUME NEW r \in Requests,
             \/ \E q \in Query : BeginWalk(r, q)
             \/ Miss(r) \/ RequestStep(r) \/ InvalidationLost(r) \/ FillLost(r) \/ TurnPage(r)
      PROVE  Goal
  <2>1. UNCHANGED <<table, stored, today>>
    BY <1>9 DEF BeginWalk, Miss, RequestStep, InvalidationLost, FillLost, TurnPage,
       DelWidget, DelTenant, ComputeInMemory, SelectTotal, SelectBlocked, FillStats, storeVars
  <2>2. QED
    BY <1>3, <2>1
<1>10. ASSUME ExpireStats \/ UNCHANGED vars PROVE Goal
  <2>1. UNCHANGED <<table, stored, today>>
    BY <1>10 DEF ExpireStats, vars, storeVars
  <2>2. QED
    BY <1>3, <2>1
<1>11. Goal
  BY <1>4, <1>5, <1>6, <1>7, <1>8, <1>9, <1>10 DEF NextCases
<1>12. QED
  BY <1>11 DEF Goal

-----------------------------------------------------------------------------
(* What the calls, the cache and the clients know.                         *)

LEMMA RequestTypes ==
  ASSUME TypeOK, TableInv, NextCases
  PROVE  req' \in [Requests -> Request]
<1> USE RequestsOf, FieldsOfRequest, OneRequest
<1> DEFINE Goal == req' \in [Requests -> Request]
<1>1. \A r \in Requests : req[r] \in Request
  BY DEF TypeOK
<1>2. ASSUME NEW r \in Requests, NEW f \in [Requests -> Request], NEW x \in Request,
             req' = [f EXCEPT ![r] = x]
      PROVE  Goal
  BY <1>2
<1> HIDE DEF Goal
<1>3. ASSUME NEW r \in Requests, NEW w \in Widgets, NEW trap \in BOOLEAN, Submit(r, w, trap)
      PROVE  Goal
  <2>1. req' = [Noticed(NewLead(w, trap)) EXCEPT ![r] = Invalidating(w)]
    BY <1>3 DEF Submit
  <2>2. QED
    BY <1>2, <2>1, NoticedAndMissed
<1>4. ASSUME NEW r \in Requests, NEW w \in Widgets, NEW ls, DeleteRows(r, w, ls) PROVE Goal
  <2>1. req' = [Missed(ls) EXCEPT ![r] = Invalidating(w)]
    BY <1>4 DEF DeleteRows
  <2>2. QED
    BY <1>2, <2>1, NoticedAndMissed
<1>5. ASSUME NEW r \in Requests, NEW q \in Query, BeginWalk(r, q) PROVE Goal
  <2>1. PICK x : x = [pc |-> "turn", query |-> q, page |-> 1, shown |-> {},
                      first |-> Matching(q), grew |-> FALSE, shrank |-> FALSE]
    OBVIOUS
  <2>2. Matching(q) \in SUBSET Lead
    BY DEF Matching, OfWidget, OfTenant, TypeOK
  <2>3. x \in Request
    BY <2>1, <2>2, Walks
  <2>4. req' = [req EXCEPT ![r] = x]
    BY <1>5, <2>1 DEF BeginWalk
  <2>5. QED
    BY <1>2, <2>3, <2>4 DEF TypeOK
<1>6. ASSUME NEW r \in Requests, NEW x \in Request, req' = [req EXCEPT ![r] = x] PROVE Goal
  BY <1>2, <1>6 DEF TypeOK
<1>7. ASSUME NEW r \in Requests, Miss(r) \/ InvalidationLost(r) \/ FillLost(r) \/ DelTenant(r)
                                 \/ FillStats(r)
      PROVE  Goal
  <2>1. req' = [req EXCEPT ![r] = Idle] \/ req' = [req EXCEPT ![r] = [pc |-> "compute"]]
    BY <1>7 DEF Miss, InvalidationLost, FillLost, DelTenant, FillStats
  <2>2. QED
    BY <1>6, <2>1
<1>8. ASSUME NEW r \in Requests, DelWidget(r) PROVE Goal
  <2>1. PICK x : x = [req[r] EXCEPT !.pc = "del tenant"]
    OBVIOUS
  <2>2. x \in Request
    BY <1>1, <1>8, <2>1 DEF DelWidget
  <2>3. req' = [req EXCEPT ![r] = x]
    BY <1>8, <2>1 DEF DelWidget
  <2>4. QED
    BY <1>6, <2>2, <2>3
<1>9. ASSUME NEW r \in Requests, ComputeInMemory(r) \/ SelectTotal(r) PROVE Goal
  <2>1. PICK s \in Stats : s = ComputeStats(watched) /\ s.total \in 0..MaxLeads
    BY StatsOfTable
  <2>2. PICK x, y : x = [pc |-> "fill", stats |-> s] /\ y = [pc |-> "count", total |-> s.total]
    OBVIOUS
  <2>3. x \in Request /\ y \in Request
    BY <2>1, <2>2
  <2>4. req' = [req EXCEPT ![r] = x] \/ req' = [req EXCEPT ![r] = y]
    BY <1>9, <2>1, <2>2 DEF ComputeInMemory, SelectTotal
  <2>5. QED
    BY <1>6, <2>3, <2>4
<1>10. ASSUME NEW r \in Requests, SelectBlocked(r) PROVE Goal
  <2>1. PICK n \in 0..MaxLeads : n = ComputeStats(watched).blocked
    BY StatsOfTable
  <2>2. req[r].total \in 0..MaxLeads
    BY <1>1, <1>10 DEF SelectBlocked
  <2>3. PICK s : s = [total |-> req[r].total, blocked |-> n]
    OBVIOUS
  <2>4. s \in Stats
    BY <2>1, <2>2, <2>3 DEF Stats
  <2>5. PICK x : x = [pc |-> "fill", stats |-> s]
    OBVIOUS
  <2>6. x \in Request
    BY <2>4, <2>5
  <2>7. req' = [req EXCEPT ![r] = x]
    BY <1>10, <2>1, <2>3, <2>5 DEF SelectBlocked, TypeOK
  <2>8. QED
    BY <1>6, <2>6, <2>7
<1>11. ASSUME NEW r \in Requests, TurnPage(r) PROVE Goal
  <2>1. req[r] \in Walk
    BY <1>1, <1>11 DEF TurnPage
  <2>2. CASE LastPage(r)
    <3>1. req' = [req EXCEPT ![r] = Idle]
      BY <1>11, <2>2 DEF TurnPage
    <3>2. QED
      BY <1>6, <3>1
  <2>3. CASE ~LastPage(r)
    <3>1. PICK shown : shown = req[r].shown \cup NextPage(r)
      OBVIOUS
    <3>2. PICK page : page = req[r].page + 1
      OBVIOUS
    <3>3. shown \in SUBSET Lead /\ page \in 1..(MaxLeads + 1)
      BY <2>1, <2>3, <3>1, <3>2, NextPageInRange DEF Walk, TypeOK
    <3>4. PICK x : x = [req[r] EXCEPT !.shown = shown, !.page = page]
      OBVIOUS
    <3>5. x \in Request
      BY <2>1, <3>3, <3>4, Walks
    <3>6. req' = [req EXCEPT ![r] = x]
      BY <1>11, <2>3, <3>1, <3>2, <3>4 DEF TurnPage, Shown
    <3>7. QED
      BY <1>6, <3>5, <3>6
  <2>4. QED
    BY <2>2, <2>3
<1>12. ASSUME Crash PROVE Goal
  <2>1. PICK ls : req' = [r \in Requests |->
                            IF req[r].pc = "turn" THEN Missed(ls)[r] ELSE Idle]
    BY <1>12 DEF Crash
  <2>2. Missed(ls) \in [Requests -> Request]
    BY NoticedAndMissed
  <2>3. QED
    BY <2>1, <2>2 DEF Goal
<1>13. ASSUME req' = req PROVE Goal
  BY <1>13 DEF TypeOK, Goal
<1>14. ASSUME ExpireStats \/ NextDay \/ UNCHANGED vars
              \/ \E w \in Widgets, trap \in BOOLEAN : SubmitRaises(w, trap)
       PROVE  Goal
  <2>1. req' = req
    BY <1>14 DEF ExpireStats, NextDay, vars, SubmitRaises
  <2>2. QED
    BY <1>13, <2>1
<1> HIDE RequestsOf, FieldsOfRequest, OneRequest
<1>15. Goal
  <2>1. ASSUME NEW r \in Requests, RequestStep(r) PROVE Goal
    BY <1>7, <1>8, <1>9, <1>10, <2>1 DEF RequestStep
  <2>2. ASSUME NEW r \in Requests,
               Miss(r) \/ RequestStep(r) \/ InvalidationLost(r) \/ FillLost(r) \/ TurnPage(r)
        PROVE  Goal
    BY <1>7, <1>11, <2>1, <2>2
  <2>3. QED
    BY <1>3, <1>4, <1>5, <1>12, <1>14, <2>2 DEF NextCases
<1>16. QED
  BY <1>15 DEF Goal

LEMMA SameSetting ==
  ASSUME NextCases
  PROVE  db' = db /\ watched' = watched
  BY DEF NextCases, Submit, SubmitRaises, DeleteRows, BeginWalk, Miss, RequestStep,
     DelWidget, DelTenant, ComputeInMemory, SelectTotal, SelectBlocked, FillStats,
     InvalidationLost, FillLost, TurnPage, ExpireStats, NextDay, Crash, storeVars, vars

LEMMA TypeStep ==
  ASSUME TypeOK, TableInv, NextCases
  PROVE  TypeOK'
<1>1. db' = db /\ watched' = watched
  BY SameSetting
<1>2. cache' \in Stats \cup {None}
  <2>1. ASSUME NEW r \in Requests, FillStats(r) PROVE cache' \in Stats
    BY <2>1, FieldsOfRequest DEF FillStats, TypeOK
  <2>2. ASSUME cache' = cache \/ cache' = None PROVE cache' \in Stats \cup {None}
    BY <2>2 DEF TypeOK
  <2>3. ASSUME ~\E r \in Requests : FillStats(r) PROVE cache' = cache \/ cache' = None
    BY <2>3 DEF NextCases, Submit, SubmitRaises, DeleteRows, BeginWalk, Miss, RequestStep,
       DelWidget, DelTenant, Delete, ComputeInMemory, SelectTotal, SelectBlocked,
       InvalidationLost, FillLost, TurnPage, ExpireStats, NextDay, Crash, storeVars, vars
  <2>4. QED
    BY <2>1, <2>2, <2>3
<1>3. faults' \in 0..MaxFaults
  <2>1. faults' = faults \/ Fails
    BY DEF NextCases, Submit, SubmitRaises, DeleteRows, BeginWalk, Miss, RequestStep,
       DelWidget, DelTenant, ComputeInMemory, SelectTotal, SelectBlocked, FillStats,
       InvalidationLost, FillLost, TurnPage, ExpireStats, NextDay, Crash, storeVars, vars
  <2>2. QED
    BY <2>1, DashboardAssumption DEF Fails, TypeOK
<1>4. unsure' \in BOOLEAN
  <2>1. unsure \in BOOLEAN
    BY DEF TypeOK
  <2>2. CASE \E r \in Requests :
               \/ \E w \in Widgets, trap \in BOOLEAN : Submit(r, w, trap)
               \/ \E w \in Widgets, ls \in SUBSET table : DeleteRows(r, w, ls)
               \/ \E q \in Query : BeginWalk(r, q)
               \/ Miss(r) \/ FillLost(r) \/ TurnPage(r)
               \/ ComputeInMemory(r) \/ SelectTotal(r) \/ SelectBlocked(r)
    BY <2>1, <2>2 DEF Submit, DeleteRows, BeginWalk, Miss, FillLost, TurnPage,
       ComputeInMemory, SelectTotal, SelectBlocked
  <2>3. CASE \E r \in Requests : InvalidationLost(r)
    BY <2>3 DEF InvalidationLost
  <2>4. CASE \E r \in Requests : DelWidget(r) \/ DelTenant(r)
    BY <2>4 DEF DelWidget, DelTenant, Delete
  <2>5. CASE \E r \in Requests : FillStats(r)
    BY <2>5 DEF FillStats
  <2>6. CASE \E w \in Widgets, trap \in BOOLEAN : SubmitRaises(w, trap)
    BY <2>6 DEF SubmitRaises
  <2>7. CASE ExpireStats \/ NextDay \/ UNCHANGED vars
    BY <2>1, <2>7 DEF ExpireStats, NextDay, vars
  <2>8. CASE Crash
    BY <2>8 DEF Crash
  <2>9. QED
    BY <2>2, <2>3, <2>4, <2>5, <2>6, <2>7, <2>8 DEF NextCases, RequestStep
<1>5. QED
  BY <1>1, <1>2, <1>3, <1>4, TableStep, RequestTypes DEF TypeOK

-----------------------------------------------------------------------------
(* Statistics.                                                             *)

DelayedDel == \E r \in Requests : watched \in Pending(r)

\* Leads of a widget that is not counted come and go unnoticed.
LEMMA SameStats ==
  ASSUME TypeOK, TypeOK', watched' = watched, NEW w \in Widgets,
         watched \notin {w, Owner[w]},
         \A l \in table \ table' : l.widget = w, \A l \in table' \ table : l.widget = w
  PROVE  ComputeStats(watched)' = ComputeStats(watched)
<1>1. \A l \in Lead : l.widget = w => Tenant(l) # watched /\ l.widget # watched
  BY DEF Tenant
<1>2. table \in SUBSET Lead /\ table' \in SUBSET Lead
  BY DEF TypeOK
<1>3. Counted(watched)' = Counted(watched)
  <2>1. \A k, t : k # w =>
          OfWidget(k, t)' = OfWidget(k, t)
    BY <1>2 DEF OfWidget, Tenant
  <2>2. OfTenant(watched)' = OfTenant(watched)
    BY <1>1, <1>2 DEF OfTenant, Tenant
  <2>3. QED
    BY <2>1, <2>2 DEF Counted
<1>4. QED
  BY <1>3 DEF ComputeStats, Count

LEMMA SameTable ==
  ASSUME UNCHANGED <<table, watched>>
  PROVE  ComputeStats(watched)' = ComputeStats(watched)
  BY DEF ComputeStats, Count, Counted, OfWidget, OfTenant, Tenant

LEMMA PendingOnly ==
  ASSUME NEW r, watched \in Pending(r)
  PROVE  req[r].pc = "del widget" \/ req[r].pc = "del tenant"
  BY DEF Pending

LEMMA PendingStays ==
  ASSUME UNCHANGED watched, NEW r \in Requests,
         \A o \in Requests \ {r} : req[o].pc # "turn" => req'[o] = req[o]
  PROVE  (\E o \in Requests \ {r} : watched \in Pending(o)) => DelayedDel'
<1> SUFFICES ASSUME NEW o \in Requests \ {r}, watched \in Pending(o)
             PROVE  DelayedDel'
  OBVIOUS
<1>1. req'[o] = req[o]
  BY PendingOnly
<1>2. QED
  BY <1>1 DEF DelayedDel, Pending

\* A writer that has changed the leads of w.
LEMMA WriterStep ==
  ASSUME TypeOK, TypeOK', StatsAreFresh, NEW w \in Widgets, NEW r \in Requests,
         req[r] = Idle, req'[r] = Invalidating(w),
         \A o \in Requests \ {r} : req[o].pc # "turn" => req'[o] = req[o],
         UNCHANGED <<watched, cache, unsure>>,
         \A l \in table \ table' : l.widget = w, \A l \in table' \ table : l.widget = w
  PROVE  StatsAreFresh'
<1>1. CASE watched \in {w, Owner[w]}
  <2>1. PICK x : x = [pc |-> "del widget", widget |-> w]
    OBVIOUS
  <2>2. req'[r] = x /\ x.pc = "del widget" /\ x.widget = w
    BY <1>1, <2>1 DEF Invalidating
  <2>3. watched' \in Pending(r)'
    BY <1>1, <2>2 DEF Pending
  <2>4. QED
    BY <2>3 DEF StatsAreFresh
<1>2. CASE watched \notin {w, Owner[w]}
  <2>1. ComputeStats(watched)' = ComputeStats(watched)
    BY <1>2, SameStats
  <2>2. watched \notin Pending(r)
    <3>1. req[r].pc = "idle"
      BY DEF Idle
    <3>2. QED
      BY <3>1 DEF Pending
  <2>3. DelayedDel => DelayedDel'
    BY <2>2, PendingStays DEF DelayedDel
  <2>4. QED
    BY <2>1, <2>3 DEF StatsAreFresh, DelayedDel
<1>3. QED
  BY <1>1, <1>2

\* A call that changes neither the table nor the cache.
LEMMA ReaderStep ==
  ASSUME StatsAreFresh, UNCHANGED <<watched, cache, unsure, table>>, NEW r \in Requests,
         watched \notin Pending(r),
         \A o \in Requests \ {r} : req[o].pc # "turn" => req'[o] = req[o]
  PROVE  StatsAreFresh'
<1>1. ComputeStats(watched)' = ComputeStats(watched)
  BY SameTable
<1>2. DelayedDel => DelayedDel'
  BY PendingStays DEF DelayedDel
<1>3. QED
  BY <1>1, <1>2 DEF StatsAreFresh, DelayedDel

LEMMA StatsStep ==
  ASSUME TypeOK, TypeOK', StatsAreFresh, NextCases
  PROVE  StatsAreFresh'
<1>1. ASSUME NEW r \in Requests, NEW w \in Widgets, NEW trap \in BOOLEAN, Submit(r, w, trap)
      PROVE  StatsAreFresh'
  <2>0. PICK n : n = NewLead(w, trap)
    OBVIOUS
  <2>1. n = NewLead(w, trap) /\ n.widget = w
    BY <2>0 DEF NewLead
  <2>2. /\ req[r] = Idle /\ table' = table \cup {n} /\ UNCHANGED <<watched, cache, unsure>>
        /\ req' = [Noticed(n) EXCEPT ![r] = Invalidating(w)]
    BY <1>1, <2>1 DEF Submit, Store
  <2>3. /\ req'[r] = Invalidating(w)
        /\ \A o \in Requests \ {r} : req[o].pc # "turn" => req'[o] = req[o]
    BY <2>2 DEF Noticed
  <2>4. QED
    BY <2>1, <2>2, <2>3, WriterStep
<1>2. ASSUME NEW r \in Requests, NEW w \in Widgets, NEW ls \in SUBSET table,
             \A l \in ls : l.widget = w, DeleteRows(r, w, ls)
      PROVE  StatsAreFresh'
  <2>1. /\ req[r] = Idle /\ table' = table \ ls /\ UNCHANGED <<watched, cache, unsure>>
        /\ req' = [Missed(ls) EXCEPT ![r] = Invalidating(w)]
    BY <1>2 DEF DeleteRows
  <2>2. /\ req'[r] = Invalidating(w)
        /\ \A o \in Requests \ {r} : req[o].pc # "turn" => req'[o] = req[o]
    BY <2>1 DEF Missed
  <2>3. QED
    BY <1>2, <2>1, <2>2, WriterStep
<1>3. ASSUME NEW w \in Widgets, NEW trap \in BOOLEAN, SubmitRaises(w, trap)
      PROVE  StatsAreFresh'
  <2>0. PICK n : n = NewLead(w, trap)
    OBVIOUS
  <2>1. n = NewLead(w, trap) /\ n.widget = w
    BY <2>0 DEF NewLead
  <2>2. table' = table \cup {n} /\ UNCHANGED <<watched, cache, req>>
        /\ unsure' = (unsure \/ (cache # None /\ watched \in {w, Owner[w]}))
    BY <1>3, <2>1 DEF SubmitRaises, Store
  <2>3. DelayedDel' <=> DelayedDel
    BY <2>2 DEF DelayedDel, Pending
  <2>4. watched \notin {w, Owner[w]} => ComputeStats(watched)' = ComputeStats(watched)
    BY <2>1, <2>2, SameStats
  <2>5. QED
    BY <2>2, <2>3, <2>4 DEF StatsAreFresh, DelayedDel
<1>4. ASSUME NEW r \in Requests,
             \/ \E q \in Query : BeginWalk(r, q)
             \/ Miss(r) \/ ComputeInMemory(r) \/ SelectTotal(r) \/ SelectBlocked(r)
             \/ FillLost(r) \/ TurnPage(r)
      PROVE  StatsAreFresh'
  <2>1. /\ UNCHANGED <<watched, cache, unsure, table>>
        /\ \A o \in Requests \ {r} : req'[o] = req[o]
    BY <1>4 DEF BeginWalk, Miss, ComputeInMemory, SelectTotal, SelectBlocked, FillLost,
       TurnPage, storeVars, TypeOK
  <2>0. Idle.pc = "idle"
    BY DEF Idle
  <2>2. req[r].pc \notin {"del widget", "del tenant"}
    BY <1>4, <2>0 DEF BeginWalk, Miss, ComputeInMemory, SelectTotal, SelectBlocked, FillLost,
       TurnPage
  <2>3. watched \notin Pending(r)
    BY <2>2, PendingOnly
  <2>4. QED
    BY <2>1, <2>3, ReaderStep
<1>5. ASSUME NEW r \in Requests, DelWidget(r) \/ DelTenant(r)
      PROVE  StatsAreFresh'
  <2>1. PICK k : /\ k = (IF req[r].pc = "del widget" THEN req[r].widget
                                                     ELSE Owner[req[r].widget])
                 /\ Delete(k)
    BY <1>5 DEF DelWidget, DelTenant
  <2>2. UNCHANGED <<watched, table>> /\ \A o \in Requests \ {r} : req'[o] = req[o]
    BY <1>5 DEF DelWidget, DelTenant, storeVars, TypeOK
  <2>3. CASE k = watched
    BY <2>1, <2>3 DEF Delete, StatsAreFresh
  <2>4. CASE k # watched
    <3>1. UNCHANGED <<cache, unsure>>
      BY <2>1, <2>4 DEF Delete, TypeOK
    <3>2. ComputeStats(watched)' = ComputeStats(watched)
      BY <2>2, SameTable
    <3>3. CASE watched \in Pending(r)
      <4>1. req[r].pc = "del widget" /\ DelWidget(r) /\ watched = Owner[req[r].widget]
        BY <1>5, <2>1, <2>4, <3>3 DEF Pending, DelWidget, DelTenant
      <4>2. PICK x : x = [req[r] EXCEPT !.pc = "del tenant"]
        OBVIOUS
      <4>3. req[r] \in Request
        BY DEF TypeOK
      <4>4. x.pc = "del tenant" /\ x.widget = req[r].widget
        <5>1. req[r] \in [pc: {"del widget", "del tenant"}, widget: Widgets]
          BY <4>1, <4>3, DelRequest
        <5>2. QED
          BY <4>2, <5>1
      <4>5. req'[r] = x
        BY <4>1, <4>2 DEF DelWidget, TypeOK
      <4>6. watched' \in Pending(r)'
        BY <2>2, <4>1, <4>4, <4>5 DEF Pending
      <4>7. QED
        BY <4>6 DEF StatsAreFresh
    <3>4. CASE watched \notin Pending(r)
      BY <2>2, <3>1, <3>4, ReaderStep
    <3>5. QED
      BY <3>3, <3>4
  <2>5. QED
    BY <2>3, <2>4
<1>6. ASSUME NEW r \in Requests, InvalidationLost(r)
      PROVE  StatsAreFresh'
  <2>1. /\ UNCHANGED <<watched, cache, table>>
        /\ \A o \in Requests \ {r} : req'[o] = req[o]
        /\ unsure' <=> (unsure \/ (cache # None /\ watched \in Pending(r)))
    BY <1>6 DEF InvalidationLost, storeVars, TypeOK
  <2>2. ComputeStats(watched)' = ComputeStats(watched)
    BY <2>1, SameTable
  <2>3. DelayedDel => DelayedDel' \/ watched \in Pending(r)
    BY <2>1, PendingStays DEF DelayedDel
  <2>4. CASE cache # None /\ watched \in Pending(r)
    BY <2>1, <2>4 DEF StatsAreFresh
  <2>5. CASE cache = None
    BY <2>1, <2>5 DEF StatsAreFresh
  <2>6. CASE watched \notin Pending(r)
    BY <2>1, <2>2, <2>3, <2>6 DEF StatsAreFresh, DelayedDel
  <2>7. QED
    BY <2>4, <2>5, <2>6
<1>7. ASSUME NEW r \in Requests, FillStats(r)
      PROVE  StatsAreFresh'
  <2>1. UNCHANGED <<watched, table>> /\ cache' = req[r].stats
        /\ unsure' = (req[r].stats # ComputeStats(watched))
    BY <1>7 DEF FillStats, storeVars
  <2>2. ComputeStats(watched)' = ComputeStats(watched)
    BY <2>1, SameTable
  <2>3. QED
    BY <2>1, <2>2 DEF StatsAreFresh
<1>8. CASE ExpireStats
  BY <1>8 DEF ExpireStats, StatsAreFresh
<1>9. CASE NextDay \/ UNCHANGED vars
  <2>1. UNCHANGED <<watched, cache, unsure, table, req>>
    BY <1>9 DEF NextDay, vars
  <2>2. ComputeStats(watched)' = ComputeStats(watched) /\ (DelayedDel' <=> DelayedDel)
    BY <2>1, SameTable DEF DelayedDel, Pending
  <2>3. QED
    BY <2>1, <2>2 DEF StatsAreFresh, DelayedDel
<1>10. CASE Crash
  <2>1. /\ UNCHANGED <<watched, cache>>
        /\ unsure' = (unsure \/ (cache # None /\ (db = "memory" \/ DelayedDel)))
        /\ db # "memory" => table' = table
    BY <1>10 DEF Crash, DelayedDel
  <2>2. db # "memory" => ComputeStats(watched)' = ComputeStats(watched)
    BY <2>1, SameTable
  <2>3. QED
    BY <2>1, <2>2 DEF StatsAreFresh, DelayedDel
<1>11. QED
  BY <1>1, <1>2, <1>3, <1>4, <1>5, <1>6, <1>7, <1>8, <1>9, <1>10 DEF NextCases, RequestStep

-----------------------------------------------------------------------------
(* Pages.                                                                  *)

Listed(q, ls) == {l \in ls : Matches(q, l)}

\* WalkInv of one client, the leads there are and how many there ever were.
OnCourse(w, ls, n) ==
  LET at(l) == Index(l, Listed(w.query, ls), w.query.order)
  IN  /\ \A l \in w.shown \cup w.first : Matches(w.query, l) /\ l.id <= n
      /\ w.shrank \/ \A l \in w.first \ w.shown : l \in ls /\ at(l) >= Taken(w)
      /\ \/ w.grew /\ w.query.order = "desc"
         \/ \A l \in w.shown \cap ls : at(l) < Taken(w)

LEMMA QueryOfWalk ==
  ASSUME NEW w \in Walk
  PROVE  /\ w.query \in Query /\ w.query.order \in Orders
         /\ w.shown \in SUBSET Lead /\ w.first \in SUBSET Lead
         /\ Taken(w) \in Nat /\ w.page * PageSize = Taken(w) + PageSize
         /\ w.page \in Nat /\ w.pc = "turn" /\ w.grew \in BOOLEAN /\ w.shrank \in BOOLEAN
<1>1. /\ w.query \in Query /\ w.shown \in SUBSET Lead /\ w.first \in SUBSET Lead
      /\ w.pc = "turn" /\ w.grew \in BOOLEAN /\ w.shrank \in BOOLEAN
      /\ w.page \in 1..(MaxLeads + 1)
  BY DEF Walk
<1>2. w.query.order \in Orders
  BY <1>1 DEF Query, Orders
<1>3. PICK p \in Nat : p = w.page - 1
  BY <1>1, DashboardAssumption
<1>4. p * PageSize \in Nat /\ (p + 1) * PageSize = p * PageSize + PageSize
  BY DashboardAssumption
<1>5. QED
  BY <1>1, <1>2, <1>3, <1>4, DashboardAssumption DEF Taken

LEMMA MatchingIsListed ==
  ASSUME TypeOK, NEW q \in Query
  PROVE  Matching(q) = Listed(q, table)
<1>1. \A l \in table : l.widget \in Widgets /\ Tenant(l) \in Tenants
  BY FieldsOfLead DEF TypeOK
<1>2. q.widget \in Widgets \cup {None}
  BY DEF Query
<1>3. \A l \in table : l \in Matching(q) <=> Matches(q, l)
  BY <1>1, <1>2, DashboardAssumption DEF Matching, OfTenant, OfWidget, Matches
<1>4. Matching(q) \in SUBSET table
  BY DEF Matching, OfTenant, OfWidget
<1>5. QED
  BY <1>3, <1>4 DEF Listed

LEMMA MatchingIsListedNext ==
  ASSUME TypeOK', NEW q \in Query
  PROVE  Matching(q)' = Listed(q, table')
<1>1. \A l \in table' : l.widget \in Widgets /\ Tenant(l) \in Tenants
  BY FieldsOfLead DEF TypeOK
<1>2. q.widget \in Widgets \cup {None}
  BY DEF Query
<1>3. \A l \in table' : l \in Matching(q)' <=> Matches(q, l)
  BY <1>1, <1>2, DashboardAssumption DEF Matching, OfTenant, OfWidget, Matches, Tenant
<1>4. Matching(q)' \in SUBSET table'
  BY DEF Matching, OfTenant, OfWidget
<1>5. QED
  BY <1>3, <1>4 DEF Listed

LEMMA GrowthKeepsCourse ==
  ASSUME NEW w \in Walk, NEW ls, Numbered(ls), NEW n \in Nat, NEW l \in Lead, l.id = n + 1,
         \A m \in ls : m.id <= n /\ m.day <= l.day, OnCourse(w, ls, n),
         NEW v \in Walk, v = IF Matches(w.query, l) THEN [w EXCEPT !.grew = TRUE] ELSE w
  PROVE  OnCourse(v, ls \cup {l}, n + 1)
<1> DEFINE q == w.query
           old == Listed(q, ls)
           new == Listed(q, ls \cup {l})
<1>1. /\ v.query = q /\ v.shown = w.shown /\ v.first = w.first /\ v.page = w.page
      /\ v.shrank = w.shrank /\ (w.grew \/ Matches(q, l) => v.grew)
  BY DEF Walk
<1>2. Taken(v) = Taken(w)
  BY <1>1 DEF Taken
<1>3. \A m \in w.shown \cup w.first \cup ls : m \in Lead /\ m.id \in Nat /\ m.day \in Nat
  BY QueryOfWalk, FieldsOfLead DEF Numbered
<1>4. \A m \in w.shown \cup w.first : Matches(q, m) /\ m.id <= n
  BY DEF OnCourse
<1>5. Numbered(ls \cup {l}) /\ old \in SUBSET new /\ new \in SUBSET (ls \cup {l})
  <2>1. IsFiniteSet(ls \cup {l})
    BY FS_AddElement DEF Numbered
  <2>2. \A m \in ls : m.id # l.id
    BY <1>3
  <2>3. QED
    BY <2>1, <2>2 DEF Numbered, Listed
<1>6. Numbered(new)
  BY <1>5, NumberedPart
<1>7. \A m \in old : Index(m, old, q.order) <= Index(m, new, q.order)
                     /\ Index(m, old, q.order) \in Nat /\ Index(m, new, q.order) \in Nat
  <2>1. Numbered(old) /\ q.order \in Orders
    BY <1>5, <1>6, NumberedPart, QueryOfWalk
  <2>2. QED
    BY <1>5, <1>6, <2>1, IndexGrows, IndexIsBelow
<1>8. ASSUME ~(v.grew /\ q.order = "desc"), NEW m \in old
      PROVE  Index(m, new, q.order) = Index(m, old, q.order)
  <2>1. CASE Matches(q, l)
    <3>1. q.order = "asc"
      BY <1>1, <1>8, <2>1, QueryOfWalk DEF Orders
    <3>2. m \in ls /\ m.id <= n /\ m.day <= l.day /\ m.id \in Nat /\ m.day \in Nat
      BY <1>3 DEF Listed
    <3>3. ~Before(l, m, q.order)
      BY <3>1, <3>2, FieldsOfLead DEF Before
    <3>4. \A k \in new \ old : k = l
      BY DEF Listed
    <3>5. \A k \in new \ old : ~Before(k, m, q.order)
      BY <3>3, <3>4
    <3>6. q.order \in Orders
      BY QueryOfWalk
    <3> HIDE DEF old, new, q
    <3>7. QED
      BY <1>5, <1>6, <3>5, <3>6, IndexGrows
  <2>2. CASE ~Matches(q, l)
    <3>1. new = old
      BY <2>2 DEF Listed
    <3>2. QED
      BY <3>1
  <2>3. QED
    BY <2>1, <2>2
<1>9. \A m \in w.shown \cup w.first : m # l /\ (m \in ls => m \in old)
  BY <1>3, <1>4 DEF Listed
<1>10. Taken(w) \in Nat
  BY QueryOfWalk
<1>11. ASSUME ~w.shrank, NEW m \in w.first \ w.shown
       PROVE  m \in ls \cup {l} /\ Index(m, new, q.order) >= Taken(w)
  <2>1. m \in ls /\ Index(m, old, q.order) >= Taken(w)
    BY <1>11 DEF OnCourse
  <2>2. m \in old
    BY <1>9, <2>1
  <2> HIDE DEF old, new
  <2>3. QED
    BY <1>7, <1>10, <2>1, <2>2
<1>12. ASSUME ~(v.grew /\ q.order = "desc"), NEW m \in w.shown \cap (ls \cup {l})
       PROVE  Index(m, new, q.order) < Taken(w)
  <2>1. m \in old /\ m \in w.shown \cap ls
    BY <1>9
  <2>2. ~(w.grew /\ q.order = "desc")
    BY <1>1, <1>12
  <2>3. Index(m, old, q.order) < Taken(w)
    BY <2>1, <2>2 DEF OnCourse
  <2>4. QED
    BY <1>8, <1>12, <2>1, <2>3
<1>13. \A m \in v.shown \cup v.first : Matches(v.query, m) /\ m.id <= n + 1
  BY <1>1, <1>3, <1>4
<1> HIDE DEF q, old, new
<1>14. new = Listed(v.query, ls \cup {l}) /\ q = v.query
  BY <1>1 DEF q, new
<1>15. QED
  BY <1>1, <1>2, <1>11, <1>12, <1>13, <1>14 DEF OnCourse

LEMMA ShrinkingKeepsCourse ==
  ASSUME NEW w \in Walk, NEW ls, Numbered(ls), NEW n \in Nat, NEW gone, OnCourse(w, ls, n),
         NEW v \in Walk,
         v = IF \E l \in gone : Matches(w.query, l) THEN [w EXCEPT !.shrank = TRUE] ELSE w
  PROVE  OnCourse(v, ls \ gone, n)
<1> DEFINE q == w.query
           old == Listed(q, ls)
           new == Listed(q, ls \ gone)
<1>1. /\ v.query = q /\ v.shown = w.shown /\ v.first = w.first /\ v.page = w.page
      /\ v.grew = w.grew /\ (w.shrank \/ (\E l \in gone : Matches(q, l)) => v.shrank)
  BY DEF Walk
<1>2. Taken(v) = Taken(w) /\ Taken(w) \in Nat
  BY <1>1, QueryOfWalk DEF Taken
<1>3. \A m \in w.shown \cup w.first : Matches(q, m) /\ m.id <= n
  BY DEF OnCourse
<1>4. old \in SUBSET ls /\ new \in SUBSET old
  BY DEF Listed
<1>5. Numbered(old) /\ Numbered(new) /\ q.order \in Orders
  BY <1>4, NumberedPart, QueryOfWalk
<1>6. \A m \in new : Index(m, new, q.order) <= Index(m, old, q.order)
                     /\ Index(m, old, q.order) \in Nat /\ Index(m, new, q.order) \in Nat
  BY <1>4, <1>5, IndexGrows, IndexIsBelow
<1>7. ASSUME ~v.shrank, NEW m \in w.first \ w.shown
      PROVE  m \in ls \ gone /\ Index(m, new, q.order) >= Taken(w)
  <2>1. ~w.shrank /\ \A l \in gone : ~Matches(q, l)
    BY <1>1, <1>7
  <2>2. m \in ls /\ Index(m, old, q.order) >= Taken(w)
    BY <2>1 DEF OnCourse
  <2>3. new = old
    BY <2>1 DEF Listed
  <2>4. m \notin gone
    BY <1>3, <2>1
  <2>5. QED
    BY <2>2, <2>3, <2>4
<1>8. ASSUME ~(v.grew /\ q.order = "desc"), NEW m \in w.shown \cap (ls \ gone)
      PROVE  Index(m, new, q.order) < Taken(w)
  <2>1. Index(m, old, q.order) < Taken(w)
    BY <1>1, <1>8 DEF OnCourse
  <2>2. m \in new
    BY <1>3 DEF Listed
  <2> HIDE DEF old, new
  <2>3. QED
    BY <1>2, <1>6, <2>1, <2>2
<1> HIDE DEF q, old, new
<1>9. new = Listed(v.query, ls \ gone) /\ q = v.query
  BY <1>1 DEF q, new
<1>10. QED
  BY <1>1, <1>2, <1>3, <1>7, <1>8, <1>9 DEF OnCourse

LEMMA TurningKeepsCourse ==
  ASSUME NEW w \in Walk, NEW ls, Numbered(ls), NEW n \in Nat, \A l \in ls : l.id <= n,
         OnCourse(w, ls, n), NEW page,
         page = Page(Listed(w.query, ls), w.query.order, w.page), NEW v \in Walk,
         v = [w EXCEPT !.shown = w.shown \cup page, !.page = w.page + 1]
  PROVE  OnCourse(v, ls, n)
<1> DEFINE q == w.query
           here == Listed(q, ls)
           at(l) == Index(l, here, q.order)
<1>1. /\ v.query = q /\ v.shown = w.shown \cup page /\ v.first = w.first
      /\ v.page = w.page + 1 /\ v.shrank = w.shrank /\ v.grew = w.grew
  BY DEF Walk
<1>2. /\ Taken(w) \in Nat /\ w.page * PageSize = Taken(w) + PageSize
      /\ PageSize \in Nat \ {0} /\ w.page \in Nat
  BY QueryOfWalk, DashboardAssumption
<1>3. Taken(v) = Taken(w) + PageSize
  <2>1. v.page - 1 = w.page
    BY <1>1, <1>2
  <2>2. QED
    BY <1>2, <2>1 DEF Taken
<1>4. here \in SUBSET ls /\ page \in SUBSET here
  BY DEF Listed, Page
<1>5. \A l \in here : at(l) \in Nat
  BY <1>4, NumberedPart, IndexIsBelow, QueryOfWalk
<1>6. \A l \in here : l \in page <=> at(l) >= Taken(w) /\ at(l) < Taken(w) + PageSize
  <2>1. \A l \in here : l \in page <=> at(l) \in Taken(w) .. Taken(w) + PageSize - 1
    BY <1>2 DEF Page, Taken
  <2> HIDE DEF at, here
  <2>2. QED
    BY <1>2, <1>5, <2>1
<1>7. \A l \in w.shown \cup w.first : Matches(q, l) /\ l.id <= n /\ (l \in ls => l \in here)
  BY DEF OnCourse, Listed
<1>8. \A l \in v.shown \cup v.first : Matches(q, l) /\ l.id <= n
  BY <1>1, <1>4, <1>7 DEF Listed
<1>9. ASSUME ~w.shrank, NEW l \in v.first \ v.shown
      PROVE  l \in ls /\ at(l) >= Taken(v)
  <2>1. l \in ls /\ at(l) >= Taken(w) /\ l \notin page
    BY <1>1, <1>9 DEF OnCourse
  <2>2. l \in here
    BY <1>1, <1>7, <1>9, <2>1
  <2> HIDE DEF at, here
  <2>3. QED
    BY <1>2, <1>3, <1>5, <1>6, <2>1, <2>2
<1>10. ASSUME ~(w.grew /\ q.order = "desc"), NEW l \in v.shown \cap ls
       PROVE  at(l) < Taken(v)
  <2>1. l \in w.shown => at(l) < Taken(w)
    BY <1>10 DEF OnCourse
  <2>2. l \in here
    BY <1>1, <1>4, <1>7, <1>10
  <2> HIDE DEF at, here
  <2>3. QED
    BY <1>1, <1>2, <1>3, <1>5, <1>6, <1>10, <2>1, <2>2
<1>11. \A l : at(l) = Index(l, Listed(v.query, ls), v.query.order)
  BY <1>1
<1> HIDE DEF q, here, at
<1>12. v.query = q
  BY <1>1
<1>13. QED
  BY <1>1, <1>8, <1>9, <1>10, <1>11, <1>12 DEF OnCourse

LEMMA BeginningIsOnCourse ==
  ASSUME NEW v \in Walk, NEW ls, Numbered(ls), NEW n \in Nat, \A l \in ls : l.id <= n,
         v.page = 1, v.shown = {}, v.first = Listed(v.query, ls)
  PROVE  OnCourse(v, ls, n)
<1>1. Taken(v) = 0
  BY DashboardAssumption DEF Taken
<1>2. Listed(v.query, ls) \in SUBSET ls
  BY DEF Listed
<1>3. \A l \in v.first : Index(l, Listed(v.query, ls), v.query.order) \in Nat
  BY <1>2, NumberedPart, IndexIsBelow, QueryOfWalk
<1>4. \A l \in v.first : Matches(v.query, l) /\ l \in ls
  BY DEF Listed
<1>5. \A l \in v.first : Index(l, Listed(v.query, ls), v.query.order) >= 0
  BY <1>3
<1>6. QED
  BY <1>1, <1>4, <1>5 DEF OnCourse

\* What being on course gives the client.
LEMMA CourseIsComplete ==
  ASSUME NEW w \in Walk, NEW ls, Numbered(ls), NEW n \in Nat, OnCourse(w, ls, n),
         NEW here, here = Listed(w.query, ls), NEW page, page = Page(here, w.query.order, w.page)
  PROVE  /\ \A l \in w.shown \cup page : Matches(w.query, l)
         /\ w.page * PageSize >= Cardinality(here)
              => w.shrank \/ w.first \subseteq w.shown \cup page
         /\ w.shown \cap page = {} \/ (w.grew /\ w.query.order = "desc")
<1> DEFINE at(l) == Index(l, here, w.query.order)
<1>1. here \in SUBSET ls /\ page \in SUBSET here
  BY DEF Listed, Page
<1>2. \A l \in here : at(l) \in Nat /\ at(l) < Cardinality(here)
  BY <1>1, NumberedPart, IndexIsBelow, QueryOfWalk
<1>3. Cardinality(here) \in Nat
  BY <1>1, NumberedPart
<1>4. /\ Taken(w) \in Nat /\ w.page * PageSize = Taken(w) + PageSize
      /\ PageSize \in Nat \ {0}
  BY QueryOfWalk, DashboardAssumption
<1>5. \A l \in here : l \in page <=> at(l) >= Taken(w) /\ at(l) < Taken(w) + PageSize
  <2>1. \A l \in here : l \in page <=> at(l) \in Taken(w) .. Taken(w) + PageSize - 1
    BY <1>4 DEF Page, Taken
  <2> HIDE DEF at
  <2>2. QED
    BY <1>2, <1>4, <2>1
<1>6. \A l \in w.shown \cup page : Matches(w.query, l)
  BY <1>1 DEF OnCourse, Listed
<1>7. ASSUME Taken(w) + PageSize >= Cardinality(here), ~w.shrank, NEW l \in w.first \ w.shown
      PROVE  l \in page
  <2>1. l \in ls /\ at(l) >= Taken(w) /\ Matches(w.query, l)
    BY <1>7 DEF OnCourse
  <2>2. l \in here
    BY <2>1 DEF Listed
  <2> HIDE DEF at
  <2>3. QED
    BY <1>2, <1>3, <1>4, <1>5, <1>7, <2>1, <2>2
<1>8. ASSUME ~(w.grew /\ w.query.order = "desc"), NEW l \in w.shown \cap page PROVE FALSE
  <2>1. at(l) < Taken(w)
    BY <1>1, <1>8 DEF OnCourse
  <2> HIDE DEF at
  <2>2. QED
    BY <1>1, <1>2, <1>4, <1>5, <1>8, <2>1
<1>9. QED
  BY <1>4, <1>6, <1>7, <1>8

-----------------------------------------------------------------------------
(* Every step keeps every client on course.                                *)

AllOnCourse ==
  /\ watched = None => db = "memory"
  /\ \A r \in Requests : req[r].pc = "turn" => watched = None
                                              /\ OnCourse(req[r], table, stored)

LEMMA WalksAreOnCourse ==
  ASSUME TypeOK
  PROVE  WalkInv <=> AllOnCourse
<1>1. ASSUME NEW r \in Requests, req[r].pc = "turn"
      PROVE  /\ req[r].query \in Query
             /\ Answer(r) = Listed(req[r].query, table)
  BY <1>1, FieldsOfRequest, QueryOfWalk, MatchingIsListed DEF TypeOK, Answer
<1>2. QED
  BY <1>1 DEF WalkInv, AllOnCourse, OnCourse

LEMMA WalksAreOnCourseNext ==
  ASSUME TypeOK'
  PROVE  AllOnCourse' => WalkInv'
<1>1. ASSUME NEW r \in Requests, req'[r].pc = "turn"
      PROVE  /\ req'[r].query \in Query
             /\ Answer(r)' = Listed(req'[r].query, table')
  <2>1. PICK q \in Query : q = req'[r].query
    BY <1>1, FieldsOfRequest, QueryOfWalk DEF TypeOK
  <2>2. Answer(r)' = Matching(q)'
    BY <2>1 DEF Answer, Matching, OfWidget, OfTenant
  <2>3. QED
    BY <2>1, <2>2, MatchingIsListedNext
<1>2. QED
  BY <1>1 DEF WalkInv, AllOnCourse, OnCourse, Taken, Index, Before, Matches, Tenant, Listed

LEMMA WalkStep ==
  ASSUME TypeOK, TableInv, TypeOK', AllOnCourse, NextCases
  PROVE  AllOnCourse'
<1>1. Numbered(table) /\ stored \in Nat
  BY TableIsNumbered, DashboardAssumption
<1>2. \A r \in Requests : /\ req[r] \in Request
                          /\ req[r].pc = "turn" => req[r] \in Walk
                          /\ req'[r].pc = "turn" => req'[r] \in Walk
  BY FieldsOfRequest DEF TypeOK
<1>3. Idle.pc # "turn"
  BY DEF Idle
<1>4. \A l \in table : l.id <= stored /\ l.day <= today
  BY DEF TableInv
<1>5. SUFFICES ASSUME NEW r \in Requests, req'[r].pc = "turn"
               PROVE  watched = None /\ OnCourse(req'[r], table', stored')
  BY SameSetting DEF AllOnCourse
<1> DEFINE OnAgain == watched = None /\ OnCourse(req'[r], table', stored')
<1>6. ASSUME UNCHANGED <<table, stored>>, req'[r] = req[r] PROVE OnAgain
  BY <1>5, <1>6 DEF AllOnCourse
<1>7. ASSUME NEW c \in Requests, NEW w \in Widgets, NEW trap \in BOOLEAN, Submit(c, w, trap)
      PROVE  OnAgain
  <2>1. PICK n : n = NewLead(w, trap)
    OBVIOUS
  <2>2. /\ stored' = stored + 1 /\ table' = table \cup {n}
        /\ req' = [Noticed(n) EXCEPT ![c] = Invalidating(w)] /\ req[c] = Idle
        /\ stored < MaxLeads
    BY <1>7, <2>1, DashboardAssumption DEF Submit, Store, TypeOK
  <2>3. n \in Lead /\ n.id = stored + 1 /\ n.day = today
    <3>1. stored + 1 \in LeadIds
      BY <1>1, <2>2, DashboardAssumption DEF LeadIds
    <3>2. QED
      BY <2>1, <3>1 DEF NewLead, Lead, TypeOK
  <2>4. Invalidating(w).pc # "turn"
    BY <1>3 DEF Invalidating
  <2>5. r # c
    BY <1>5, <2>2, <2>4, NoticedAndMissed
  <2>6. req'[r] = Noticed(n)[r]
    BY <2>2, <2>5, NoticedAndMissed
  <2>7. req[r] \in Walk /\ req[r].pc = "turn"
    BY <1>2, <1>5, <2>6 DEF Noticed
  <2>8. req'[r] = IF Matches(req[r].query, n) THEN [req[r] EXCEPT !.grew = TRUE] ELSE req[r]
    BY <2>6, <2>7 DEF Noticed
  <2>9. OnCourse(req[r], table, stored) /\ req'[r] \in Walk
    BY <1>2, <1>5, <2>7 DEF AllOnCourse
  <2>10. OnCourse(req'[r], table \cup {n}, stored + 1)
    BY <1>1, <1>4, <2>3, <2>7, <2>8, <2>9, GrowthKeepsCourse
  <2>11. watched = None
    BY <2>7 DEF AllOnCourse
  <2>12. QED
    BY <2>2, <2>10, <2>11
<1>8. ASSUME NEW gone, table' = table \ gone, stored' = stored, req'[r] = Missed(gone)[r]
      PROVE  OnAgain
  <2>1. req[r] \in Walk /\ req[r].pc = "turn"
    BY <1>2, <1>5, <1>8 DEF Missed
  <2>2. req'[r] = IF \E l \in gone : Matches(req[r].query, l)
                  THEN [req[r] EXCEPT !.shrank = TRUE] ELSE req[r]
    BY <1>8, <2>1 DEF Missed
  <2>3. OnCourse(req[r], table, stored) /\ req'[r] \in Walk
    BY <1>2, <1>5, <2>1 DEF AllOnCourse
  <2>4. OnCourse(req'[r], table \ gone, stored)
    BY <1>1, <2>1, <2>2, <2>3, ShrinkingKeepsCourse
  <2>5. watched = None
    BY <2>1 DEF AllOnCourse
  <2>6. QED
    BY <1>8, <2>4, <2>5
<1>9. ASSUME NEW c \in Requests, NEW w \in Widgets, NEW ls, DeleteRows(c, w, ls) PROVE OnAgain
  <2>1. /\ stored' = stored /\ table' = table \ ls
        /\ req' = [Missed(ls) EXCEPT ![c] = Invalidating(w)]
    BY <1>9 DEF DeleteRows
  <2>2. Invalidating(w).pc # "turn"
    BY <1>3 DEF Invalidating
  <2>3. req'[r] = Missed(ls)[r]
    BY <1>5, <2>1, <2>2, NoticedAndMissed
  <2>4. QED
    BY <1>8, <2>1, <2>3
<1>10. ASSUME Crash PROVE OnAgain
  <2>1. PICK gone : gone = IF db = "memory" THEN table ELSE {}
    OBVIOUS
  <2>2. /\ stored' = stored /\ table' = table \ gone
        /\ req' = [o \in Requests |-> IF req[o].pc = "turn" THEN Missed(gone)[o] ELSE Idle]
    BY <1>10, <2>1 DEF Crash
  <2>3. req'[r] = Missed(gone)[r]
    BY <1>3, <1>5, <2>2
  <2>4. QED
    BY <1>8, <2>2, <2>3
<1>11. ASSUME NEW w \in Widgets, NEW trap \in BOOLEAN, SubmitRaises(w, trap) PROVE OnAgain
  <2>1. req[r].pc = "turn" /\ db = "postgres"
    BY <1>5, <1>11 DEF SubmitRaises
  <2>2. QED
    BY <2>1 DEF AllOnCourse
<1>12. ASSUME NEW c \in Requests, NEW q \in Query, BeginWalk(c, q) PROVE OnAgain
  <2>1. PICK x : x = [pc |-> "turn", query |-> q, page |-> 1, shown |-> {},
                      first |-> Matching(q), grew |-> FALSE, shrank |-> FALSE]
    OBVIOUS
  <2>2. req' = [req EXCEPT ![c] = x] /\ UNCHANGED <<table, stored>>
    BY <1>12, <2>1 DEF BeginWalk, storeVars
  <2>3. CASE r = c
    <3>1. req'[r] = x /\ x \in Walk
      BY <1>2, <1>5, <2>2, <2>3 DEF TypeOK
    <3>2. x.page = 1 /\ x.shown = {} /\ x.query = q /\ x.first = Listed(q, table)
      BY <2>1, MatchingIsListed
    <3>3. OnCourse(x, table, stored)
      BY <1>1, <1>4, <3>1, <3>2, BeginningIsOnCourse
    <3>4. watched = None
      BY <1>12 DEF BeginWalk, FollowsPages
    <3>5. QED
      BY <2>2, <3>1, <3>3, <3>4
  <2>4. CASE r # c
    BY <1>6, <2>2, <2>4 DEF TypeOK
  <2>5. QED
    BY <2>3, <2>4
<1>13. ASSUME NEW c \in Requests, TurnPage(c) PROVE OnAgain
  <2>1. /\ req[c].pc = "turn" /\ UNCHANGED <<table, stored>>
        /\ req' = [req EXCEPT ![c] = IF LastPage(c) THEN Idle ELSE Shown(c)]
    BY <1>13 DEF TurnPage, storeVars
  <2>2. CASE r = c
    <3>1. req'[r] = Shown(r) /\ req[r] \in Walk /\ req'[r] \in Walk
      BY <1>2, <1>3, <1>5, <2>1, <2>2 DEF TypeOK
    <3>2. req[r].query \in Query
      BY <3>1, QueryOfWalk
    <3>3. NextPage(r) = Page(Listed(req[r].query, table), req[r].query.order, req[r].page)
      BY <3>2, MatchingIsListed DEF NextPage, Answer
    <3>4. OnCourse(req[r], table, stored)
      BY <2>1, <2>2 DEF AllOnCourse
    <3>5. req'[r] = [req[r] EXCEPT !.shown = req[r].shown \cup NextPage(r),
                                   !.page = req[r].page + 1]
      BY <3>1 DEF Shown
    <3>6. OnCourse(req'[r], table, stored)
      BY <1>1, <1>4, <3>1, <3>3, <3>4, <3>5, TurningKeepsCourse
    <3>7. watched = None
      BY <2>1 DEF AllOnCourse
    <3>8. QED
      BY <2>1, <3>6, <3>7
  <2>3. CASE r # c
    BY <1>6, <2>1, <2>3 DEF TypeOK
  <2>4. QED
    BY <2>2, <2>3
<1>14. ASSUME NEW c \in Requests, Miss(c) \/ RequestStep(c) \/ InvalidationLost(c) \/ FillLost(c)
       PROVE  OnAgain
  <2>1. UNCHANGED <<table, stored>>
    BY <1>14 DEF Miss, RequestStep, InvalidationLost, FillLost, DelWidget, DelTenant,
       ComputeInMemory, SelectTotal, SelectBlocked, FillStats, storeVars
  <2>2. /\ req'[c].pc # "turn"
        /\ \A o \in Requests \ {c} : req'[o] = req[o]
    <3>1. CASE DelWidget(c)
      <4>1. req[c] \in [pc: {"del widget", "del tenant"}, widget: Widgets]
        BY <1>2, <3>1, DelRequest DEF DelWidget
      <4>2. req' = [req EXCEPT ![c].pc = "del tenant"]
        BY <3>1 DEF DelWidget
      <4>3. QED
        BY <4>1, <4>2 DEF TypeOK
    <3>2. CASE SelectBlocked(c) \/ SelectTotal(c) \/ ComputeInMemory(c)
      BY <3>2 DEF SelectBlocked, SelectTotal, ComputeInMemory, TypeOK
    <3>3. CASE Miss(c) \/ InvalidationLost(c) \/ FillLost(c) \/ DelTenant(c) \/ FillStats(c)
      <4>1. \/ req' = [req EXCEPT ![c] = Idle]
            \/ req' = [req EXCEPT ![c] = [pc |-> "compute"]]
        BY <3>3 DEF Miss, InvalidationLost, FillLost, DelTenant, FillStats
      <4>2. PICK x : req' = [req EXCEPT ![c] = x] /\ x \in {Idle, [pc |-> "compute"]}
        BY <4>1
      <4>3. x.pc # "turn"
        BY <1>3, <4>2
      <4>4. QED
        BY <4>2, <4>3 DEF TypeOK
    <3>4. QED
      BY <1>14, <3>1, <3>2, <3>3 DEF RequestStep
  <2>3. QED
    BY <1>5, <1>6, <2>1, <2>2
<1>15. ASSUME ExpireStats \/ NextDay \/ UNCHANGED vars PROVE OnAgain
  <2>1. UNCHANGED <<table, stored, req>>
    BY <1>15 DEF ExpireStats, NextDay, vars, storeVars
  <2>2. QED
    BY <1>6, <2>1
<1> HIDE DEF OnAgain
<1>16. OnAgain
  BY <1>7, <1>9, <1>10, <1>11, <1>12, <1>13, <1>14, <1>15 DEF NextCases
<1>17. QED
  BY <1>16 DEF OnAgain

-----------------------------------------------------------------------------
(* Theorems.                                                               *)

\* Types, numbering and clients on course (Dashboard.TypeOK, TableInv, WalkInv) are
\* inductive together.
THEOREM DashboardSafety == Spec => [](TypeOK /\ TableInv /\ WalkInv)
<1>1. Init => TypeOK /\ TableInv /\ WalkInv
  <2> SUFFICES ASSUME Init PROVE TypeOK /\ TableInv /\ WalkInv
    OBVIOUS
  <2>1. IsFiniteSet({}) /\ Cardinality({}) = 0
    BY FS_EmptySet
  <2>2. \A r \in Requests : req[r].pc = "idle"
    BY DEF Init, Idle
  <2>3. watched \in Keys \cup {None} /\ (watched = None => db = "memory")
    BY DashboardAssumption DEF Init, Keys
  <2>4. TypeOK
    <3>1. req \in [Requests -> Request]
      BY RequestsOf DEF Init
    <3>2. 0 \in 0..MaxLeads /\ 0 \in 0..MaxFaults /\ 1 \in Days
      BY DashboardAssumption DEF Days
    <3>3. db \in Backends /\ today \in Days /\ stored \in 0..MaxLeads /\ faults \in 0..MaxFaults
      BY <3>2 DEF Init
    <3>4. table = {} /\ cache = None /\ unsure = FALSE
      BY DEF Init
    <3>5. QED
      BY <2>3, <3>1, <3>3, <3>4 DEF TypeOK
  <2>5. QED
    BY <2>1, <2>2, <2>3, <2>4 DEF Init, TableInv, WalkInv
<1>2. TypeOK /\ TableInv /\ WalkInv /\ [Next]_vars => (TypeOK /\ TableInv /\ WalkInv)'
  <2> SUFFICES ASSUME TypeOK, TableInv, WalkInv, [Next]_vars
               PROVE  (TypeOK /\ TableInv /\ WalkInv)'
    OBVIOUS
  <2>1. NextCases
    BY CasesOfNext
  <2>2. TypeOK' /\ TableInv'
    BY <2>1, TypeStep, TableStep
  <2>3. AllOnCourse
    BY WalksAreOnCourse
  <2>4. AllOnCourse'
    BY <2>1, <2>2, <2>3, WalkStep
  <2>5. QED
    BY <2>2, <2>4, WalksAreOnCourseNext
<1>3. QED
  BY <1>1, <1>2, PTL DEF Spec

\* Leads, pages, statistics and calls have their shapes, numbers name leads, and no
\* client asks for a page that cannot exist (Dashboard.TypeOK).
THEOREM DashboardTyping == Spec => []TypeOK
<1>1. TypeOK /\ TableInv /\ WalkInv => TypeOK
  OBVIOUS
<1>2. QED
  BY <1>1, DashboardSafety, PTL

\* However many leads are stored and deleted between two pages, and however a page is
\* cut: who turns them all sees every lead that was there and stayed, and none twice
\* unless the newest come first and one came in (Dashboard.WalkIsComplete).
THEOREM WalksAreComplete == Spec => []WalkIsComplete
<1>1. TypeOK /\ TableInv /\ WalkInv => WalkIsComplete
  <2> SUFFICES ASSUME TypeOK, TableInv, WalkInv, NEW r \in Requests, req[r].pc = "turn"
               PROVE  LET w == req[r]
                          seen == w.shown \cup NextPage(r)
                      IN  /\ \A l \in seen : Matches(w.query, l)
                          /\ LastPage(r) => w.shrank \/ w.first \subseteq seen
                          /\ \/ w.shown \cap NextPage(r) = {}
                             \/ w.grew /\ w.query.order = "desc"
    BY DEF WalkIsComplete
  <2>1. req[r] \in Walk /\ OnCourse(req[r], table, stored)
    BY FieldsOfRequest, WalksAreOnCourse DEF TypeOK, AllOnCourse
  <2>2. Answer(r) = Listed(req[r].query, table)
    BY <2>1, QueryOfWalk, MatchingIsListed DEF Answer
  <2>3. Numbered(table) /\ stored \in Nat
    BY TableIsNumbered, DashboardAssumption
  <2>4. NextPage(r) = Page(Answer(r), req[r].query.order, req[r].page)
    BY DEF NextPage
  <2>5. LastPage(r) => req[r].page * PageSize >= Cardinality(Answer(r))
    BY <2>1, NextPageInRange
  <2>6. /\ \A l \in req[r].shown \cup NextPage(r) : Matches(req[r].query, l)
        /\ req[r].page * PageSize >= Cardinality(Answer(r))
             => req[r].shrank \/ req[r].first \subseteq req[r].shown \cup NextPage(r)
        /\ \/ req[r].shown \cap NextPage(r) = {}
           \/ req[r].grew /\ req[r].query.order = "desc"
    BY <2>1, <2>2, <2>3, <2>4, CourseIsComplete
  <2>7. QED
    BY <2>5, <2>6
<1>2. QED
  BY <1>1, DashboardSafety, PTL

\* With the in-memory table a file lacks leads of its days only if it says so, and then
\* the oldest; files of neighbouring periods share none and are the whole together
\* (Dashboard.ExportsAddUp).
THEOREM ExportsAreWhole == Spec => []ExportsAddUp
<1>1. TypeOK /\ TableInv /\ WalkInv => ExportsAddUp
  BY TableIsNumbered, ExportsOfTable
<1>2. QED
  BY <1>1, DashboardSafety, PTL

\* Cached statistics are those of the table unless a DEL is under way, was lost, or was
\* overtaken (Dashboard.StatsAreFresh).
THEOREM CachedStatsAreFresh == Spec => []StatsAreFresh
<1>1. Init => StatsAreFresh
  BY DEF Init, StatsAreFresh
<1>2. TypeOK /\ TypeOK' /\ StatsAreFresh /\ [Next]_vars => StatsAreFresh'
  BY CasesOfNext, StatsStep
<1>3. QED
  BY <1>1, <1>2, DashboardTyping, PTL DEF Spec

=============================================================================
