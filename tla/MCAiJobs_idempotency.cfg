\* One API process whose calls may break off, every worker fault, keys and hashes that expire.
SPECIFICATION FairSpec
CONSTANTS
  Jobs = {j1, j2}
  Processes = {p1}
  Keys = {k1, k2}
  NoKey = NoKey
  NoJob = NoJob
  MaxRetries = 1
  NumWorkers = 1
  WithScheduler = TRUE
  Faults = {"raise", "raiseLate", "handler", "kill", "killLast", "api", "ttl"}
INVARIANTS
  TypeOK
  KeyAnswersAgree
  AnsweredJobIsEnqueued
  VerdictFieldsFit
PROPERTIES
  EnqueuedIsNeverLost
CHECK_DEADLOCK FALSE
