SPECIFICATION ServicesSpec
CONSTANTS
  k1 = k1
  u1 = u1
  a1 = a1
  a2 = a2
  ch1 = ch1
  l3 = l3
  p = p
  q = q
  f3 = f3
  x1 = x1
  x2 = x2
  y1 = y1
  y2 = y2
  Keys = {k1, u1, y1, y2}
  Capped = {u1, y1, y2}
  Requests = {x1, x2}
  ChannelOf <- ChannelsOfKeys
  Batches <- AllCalls
  TargetSize = 1
  MaxTasks <- TaskBounds
  None = None
  Tasks = {}
  Accounts = {a1, a2}
  Workers = {x1, x2}
  MaxAttempts = 2
  MaxPostpone = 1
  AutoRetry = TRUE
  WatchdogCap = 1
  Ops <- CollectOps
  Listeners = {a1}
  Channels = {ch1}
  FleetAccounts = {x1, x2, l3}
  ClumpOf <- ClumpsOf
  Jobs = {y1, y2}
  Nobody = Nobody
  Movables = {1, 2, 3}
  Fleetmen = {x1, x2, f3}
  BucketLimit = 2
  QueueRoom = 2
  MaxChanges = 1
  MaxHappenings = 2
  Runners = {x1, x2}
  Kinds = {"add", "collect", "move"}
  TwoAccounts = {"move"}
  Paced = {"add"}
  UsageOps = {a1, a2}
  OpsOf <- UsageOpsOf
  ThresholdOf <- ThresholdsOf
  UnitsOf <- UnitsOfOps
  MostUnits <- MostOfOps
  RphOf <- RphOfOps
  Reserve = 10
  Unreserved = Unreserved
  MaxOverruns = 1
CONSTRAINT ServicesBound
SYMMETRY ServicesSymmetry
CHECK_DEADLOCK FALSE
INVARIANTS
  ServicesTypeOK
  OneActivePerKey
  NoneLost
  OvershootBound
  ListenersStay
  CleanFirstAttempt
  FleetAgrees
  PlanIsSound
  HealthAgrees
  HourlyLimit
PROPERTIES
  ProgressIsKept
  NotChargedAgain
  CrossMoveKeepsHearing
  BannedStaysOut
