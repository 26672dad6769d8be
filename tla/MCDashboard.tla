---------------------------- MODULE MCDashboard ----------------------------
(* TLC instances of Dashboard.                                             *)
EXTENDS Dashboard, SequencesExt

CONSTANTS t1, t2

\* One tenant has every widget, another one has none.
OneOwner == [w \in Widgets |-> t1]

-----------------------------------------------------------------------------
(* Dashboard speaks of a sorted list through the index of each lead.  Here *)
(* it is compared with the list itself: a stable sort of the leads in the  *)
(* order of insertion, and a slice.                                        *)

InDirection(order) ==
  LET up == [d \in Days |-> d] IN IF order = "asc" THEN up ELSE Reverse(up)

StableSort(ls, order) ==
  FoldLeft(LAMBDA sorted, d : sorted \o SelectSeq(ls, LAMBDA l : l.day = d),
           <<>>, InDirection(order))

Slice(ls, p) == SubSeq(ls, (p - 1) * PageSize + 1, Min({p * PageSize, Len(ls)}))

\* A lead for each number, if any, in the order of insertion.
Inserted ==
  LET some == [trap: BOOLEAN, widget: Widgets, day: Days]
      rows == UNION {[ids -> some] : ids \in SUBSET LeadIds}
      InOrder(f) == SetToSortSeq(DOMAIN f, <)
  IN  {[i \in DOMAIN InOrder(f) |->
          [id |-> InOrder(f)[i], widget |-> f[InOrder(f)[i]].widget,
           trap |-> f[InOrder(f)[i]].trap, day |-> f[InOrder(f)[i]].day]] : f \in rows}

\* A page is a slice of the sorted list (LeadRepository._apply_filters_and_paginate).
ASSUME PagesAreSlices ==
  \A ls \in Inserted, order \in {"asc", "desc"}, p \in 1..(MaxLeads + 1) :
    ToSet(Slice(StableSort(ls, order), p)) = Page(ToSet(ls), order, p)

=============================================================================
