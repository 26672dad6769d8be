\* Both repositories, two overlapping calls, lost invalidations and fills.
SPECIFICATION FairSpec
CONSTANTS
  WidgetIds = {w1, w2}
  Domains = {d1, d2}
  Fields = {f1}
  Requests = {r1, r2}
  MaxUpdates = 2
  Backends = {"memory", "postgres"}
  None = None
INVARIANTS
  TypeOK
  DomainsAreDistinct
  UpdatesSurvive
  CacheIsFresh
PROPERTIES
  CacheSettles
  DeletedIsForgotten
CHECK_DEADLOCK FALSE
