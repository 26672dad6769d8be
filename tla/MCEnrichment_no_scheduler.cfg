\* The worker as core/worker.py starts it: nobody runs the RQ scheduler.
SPECIFICATION FairSpec
CONSTANTS
  Jobs = {j1}
  Requests = {r1}
  Leads = {l1}
  NoLead = NoLead
  NoJob = NoJob
  MaxRetries = 1
  NumWorkers = 1
  WithScheduler = FALSE
  Faults = {}
  Backends = {"shared"}
PROPERTIES
  JobReachesVerdict
CHECK_DEADLOCK FALSE
