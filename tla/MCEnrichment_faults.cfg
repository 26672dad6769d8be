\* Every fault except hash expiry, two concurrent API calls.
SPECIFICATION Spec
CONSTANTS
  Jobs = {j1, j2, j3}
  Requests = {r1, r2}
  Leads = {l1}
  NoLead = NoLead
  NoJob = NoJob
  MaxRetries = 1
  NumWorkers = 2
  WithScheduler = TRUE
  Faults = {"raise", "raiseLate", "handler", "kill", "killLast", "api", "ttlActive"}
  Backends = {"shared", "memory"}
SYMMETRY Symmetry
INVARIANTS
  TypeOK
  FailedOnlyWhenExhausted
  FinishedHasGeo
PROPERTIES
  FailedIsFinal
CHECK_DEADLOCK FALSE
