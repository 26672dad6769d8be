\* One submission on Postgres, no failure.
SPECIFICATION Spec
CONSTANTS
  Widgets = {w1}
  Ips = {i1}
  Forms = {f1}
  Requests = {r1}
  Bots = {}
  Leads = {l1, l2}
  NoLead = NoLead
  Limits <- TierLimits
  Window = 2
  FpTtl = 2
  MaxTime = 2
  MaxCalls = 2
  MaxFaults = 0
  Faults = {}
  Backends = {"postgres"}
INVARIANTS
  StoredIsFollowedUp
CHECK_DEADLOCK FALSE
