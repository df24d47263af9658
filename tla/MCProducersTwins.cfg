SPECIFICATION ProducersSpec
CONSTANTS
  k1 = k1
  k2 = k2
  c1 = c1
  r1 = r1
  r2 = r2
  Keys = {k1, k2}
  Capped = {}
  Requests = {r1, r2}
  ChannelOf <- OneChannel
  Batches <- OneKeyCalls
  TargetSize = 1
  MaxTasks <- TwoTasks
SYMMETRY RequestSymmetry
CHECK_DEADLOCK FALSE
INVARIANT OneAddPerChannel
