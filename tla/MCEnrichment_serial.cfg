\* One API call at a time; work horses may die while retries are left.
SPECIFICATION FairSpec
CONSTANTS
  Jobs = {j1, j2, j3}
  Requests = {r1}
  Leads = {l1}
  NoLead = NoLead
  NoJob = NoJob
  MaxRetries = 1
  NumWorkers = 2
  WithScheduler = TRUE
  Faults = {"kill", "ttlHash"}
  Backends = {"shared"}
INVARIANTS
  OneWorkingJobPerLead
PROPERTIES
  ImplementsContract
CHECK_DEADLOCK FALSE
