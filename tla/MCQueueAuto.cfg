SPECIFICATION Spec
CONSTANTS
  t1 = t1
  t2 = t2
  t3 = t3
  a1 = a1
  a2 = a2
  w1 = w1
  w2 = w2
  None = None
  Tasks = {t1}
  Accounts = {a1, a2}
  Workers = {w1, w2}
  MaxAttempts = 2
  MaxPostpone = 1
  AutoRetry = TRUE
  WatchdogCap = 1
  Pinned <- PinT2
  Dual = {}
  Source <- MoveSource
  Target <- MoveTarget
  AutoPick = {t1}
  StayOnBusy = {}
  Enabled = {t1}
  Disabled = {t1}
  Priority <- Flat
  Outcomes = {"success", "transient", "permanent", "unauthorized"}
  MaxFaults = 1
  Overruns = TRUE
  HealthMonitor = FALSE
SYMMETRY WorkerSymmetry
CHECK_DEADLOCK FALSE
INVARIANTS
  TypeOK
  LockDiscipline
  AttemptBound
  DuplicateWorkBound
PROPERTIES
  OwnerOrTimeoutEnds
  FinishedIsFinal
  ImplementsLifecycle
