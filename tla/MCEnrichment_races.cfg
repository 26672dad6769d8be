\* Two concurrent API calls, keys that expire, attempts that raise anywhere or die with retries left.
SPECIFICATION FairSpec
CONSTANTS
  Jobs = {j1, j2, j3}
  Requests = {r1, r2}
  Leads = {l1}
  NoLead = NoLead
  NoJob = NoJob
  MaxRetries = 1
  NumWorkers = 1
  WithScheduler = TRUE
  Faults = {"raise", "raiseLate", "kill", "ttlActive"}
  Backends = {"shared"}
INVARIANTS
  PendingIsCarried
PROPERTIES
  JobReachesVerdict
  PendingSettles
CHECK_DEADLOCK FALSE
