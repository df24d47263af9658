SPECIFICATION Spec
CONSTANTS
  a1 = a1
  a2 = a2
  w1 = w1
  w2 = w2
  None = None
  Tasks = {}
  Accounts = {a1, a2}
  Workers = {w1, w2}
  MaxAttempts = 2
  MaxPostpone = 1
  AutoRetry = TRUE
  WatchdogCap = 1
  Ops <- CollectOps
  Listeners = {a1}
SYMMETRY WorkerSymmetry
CHECK_DEADLOCK FALSE
INVARIANT DoneHasSignals
