SPECIFICATION LeaseAndLocksSpec
CONSTANTS
  t1 = t1
  d1 = d1
  a1 = a1
  w1 = w1
  direct = direct
  s1 = s1
  s2 = s2
  monitor = monitor
  None = None
  Tasks = {t1, d1}
  Leases = {d1}
  Direct = direct
  Accounts = {a1}
  Workers = {w1, direct}
  MaxAttempts = 1
  MaxPostpone = 0
  AutoRetry = FALSE
  WatchdogCap = 1
  Pinned <- Free
  Dual = {}
  Source <- Free
  Target <- Free
  AutoPick = {t1, d1}
  StayOnBusy = {}
  Enabled = {t1, d1}
  Disabled = {}
  Priority <- Flat
  Outcomes = {"success", "flood"}
  MaxFaults = 1
  Overruns = FALSE
  HealthMonitor = FALSE
  Rows = {1, 2}
  NameOf <- Backwards
  Sessions = {s1, s2}
  Monitor = monitor
  MaxLosses = 1
CHECK_DEADLOCK FALSE
INVARIANTS
  LeaseIsItsOwn
PROPERTIES
  LeaseStands
  LeaseCleansUp
  LocksComeFree
