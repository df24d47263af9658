SPECIFICATION DiscoverySpec
CONSTANTS
  x1 = x1
  x2 = x2
  y1 = y1
  y2 = y2
  y3 = y3
  z1 = z1
  z2 = z2
  v1 = v1
  v2 = v2
  v3 = v3
  qrLogin = qrLogin
  dm1 = dm1
  dm2 = dm2
  act1 = act1
  ParserIds = {x1, x2}
  Actions = {act1}
  Handlers = {z1, z2}
  NoParser = NoParser
  Messages = {x1, x2}
  Hearers = {z1, z2}
  Dispatchers = {dm1, dm2}
  QueueMax = 2
  Posts = 2
  Uploads = {v1, v2, v3}
  Described = {v1, v2}
  Overwriting = {v2, v3}
  QrLogin = qrLogin
  NoFile = NoFile
  Senders = {y1, y2, y3}
  DmKeys = {dm1, dm2}
  NoKey = NoKey
  Kept = 1
  MaxMessages = 2
  Page = 1
  FloodCodes = {v1, v2}
  PeerFlood = v2
  FloodOps = {act1}
  StartRph = 10
  MinRph = 2
  Monitors = {x1, x2}
  MaxWaves = 2
CONSTRAINT DiscoveryBound
SYMMETRY DiscoverySymmetry
CHECK_DEADLOCK FALSE
INVARIANTS
  DiscoveryTypeOK
  ParsersAgree
  ActionsKept
  Accounted
  FilesAgree
  SentOnce
  PostedOrPassed
  RevokedUntilLogin
  EachWaveCounts
