\* Two concurrent re-enrich calls and no fault at all.
SPECIFICATION Spec
CONSTANTS
  Jobs = {j1, j2, j3}
  Requests = {r1, r2}
  Leads = {l1}
  NoLead = NoLead
  NoJob = NoJob
  MaxRetries = 1
  NumWorkers = 2
  WithScheduler = TRUE
  Faults = {}
  Backends = {"shared"}
INVARIANTS
  OneWorkingJobPerLead
CHECK_DEADLOCK FALSE
