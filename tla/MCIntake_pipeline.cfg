\* The in-memory repository, two overlapping submissions, every failure.
SPECIFICATION Spec
CONSTANTS
  Widgets = {w1}
  Ips = {i1, i2}
  Forms = {f1}
  Requests = {r1, r2}
  Bots = {r2}
  Leads = {l1, l2, l3}
  NoLead = NoLead
  Limits <- TierLimits
  Window = 2
  FpTtl = 2
  MaxTime = 2
  MaxCalls = 3
  MaxFaults = 1
  Faults = {"redis", "crash"}
  Backends = {"memory"}
SYMMETRY Symmetry
INVARIANTS
  IntakeTypeOK
  AdmittedWithinLimit
  DuplicatesBounded
  StoredIsFollowedUp
PROPERTIES
  QuietCallerIsAdmitted
CHECK_DEADLOCK FALSE
