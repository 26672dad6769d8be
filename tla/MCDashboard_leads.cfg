\* Both repositories, two overlapping calls, one failure.
SPECIFICATION FairSpec
CONSTANTS
  t1 = t1
  t2 = t2
  Widgets = {w1, w2}
  Tenants = {t1, t2}
  Owner <- OneOwner
  Requests = {r1, r2}
  MaxLeads = 3
  MaxCounted = 2
  PageSize = 1
  MaxExportRows = 1
  MaxDay = 2
  MaxFaults = 1
  Backends = {"memory", "postgres"}
  None = None
INVARIANTS
  TypeOK
  WalkIsComplete
  ExportsAddUp
  StatsAreFresh
PROPERTIES
  StatsSettle
CHECK_DEADLOCK FALSE
