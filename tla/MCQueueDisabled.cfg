SPECIFICATION FairSpec
CONSTANTS
  t1 = t1
  t2 = t2
  t3 = t3
  a1 = a1
  a2 = a2
  w1 = w1
  w2 = w2
  None = None
  Tasks = {t2}
  Accounts = {a1, a2}
  Workers = {w1}
  MaxAttempts = 1
  MaxPostpone = 1
  AutoRetry = TRUE
  WatchdogCap = 1
  Pinned <- PinT2
  Dual = {}
  Source <- MoveSource
  Target <- MoveTarget
  AutoPick = {t2}
  StayOnBusy = {t2}
  Enabled = {}
  Disabled = {t2}
  Priority <- Flat
  Outcomes = {"success", "transient", "unauthorized"}
  MaxFaults = 0
  Overruns = FALSE
  HealthMonitor = FALSE
CHECK_DEADLOCK FALSE
PROPERTY UnknownTypeFails
