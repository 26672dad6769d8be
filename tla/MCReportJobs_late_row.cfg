\* No fault: the row is inserted after the job was enqueued.
SPECIFICATION FairSpec
CONSTANTS
  Jobs = {j1}
  Requests = {r1}
  Backends = {"sqlite"}
  MaxRetries = 1
  NumWorkers = 1
  WithScheduler = TRUE
  Faults = {}
PROPERTIES
  RowReachesVerdict
CHECK_DEADLOCK FALSE
