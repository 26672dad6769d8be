\* Both databases under every fault, safety and liveness.
SPECIFICATION FairSpec
CONSTANTS
  Jobs = {j1, j2}
  Requests = {r1}
  Backends = {"sqlite", "postgres"}
  MaxRetries = 1
  NumWorkers = 2
  WithScheduler = TRUE
  Faults = {"raise", "raiseLate", "handler", "kill", "killLast", "api"}
INVARIANTS
  TypeOK
  OfferedReportIsWhole
  VerdictsAgree
  AlertOncePerDeadJob
PROPERTIES
  FailedRowIsFinal
  StartedRowSettles
  HashReachesVerdict
CHECK_DEADLOCK FALSE
