\* Programs until they are pruned, the gate to their streams, the limiter of requests, and
\* what is known of a stream on the air.
SPECIFICATION MCSpec
CONSTANTS
  Tabs = {t1}
  NoTab = NoTab
  Streams = {"s1"}
  MaxClaims = 5
  MaxTokens = 5
  MaxGen = 6
  MaxJoins = 1
  MaxGateEvents = 2
  Listener = {c1}
  MaxSession = 1
  QuietSamples = 2
  SoundWindow = 1
  SeenWindow = 1
  StaleAfter = 2
  CacheTtl = 1
  None = None
  Admin = admin
  Owners = {u}
  NoOwner = nobody
  Ids = {p, q}
  Languages = {l}
  NoProgram = noprogram
  ChunkSize = 1
  MaxRows = 2
  MaxWaiting = 1
  MaxCrashes = 1
  MaxEvents = 2
  Key = {a, b, c}
  Burst = 3
  Cost = 2
  MaxKeys = 2
  PruneEvery = 2
  SecondTicks = 2
  MaxTakes = 5
  MaxNow = 3
INVARIANTS HostingTypeOK GateIsSound NothingIsOrphaned
PROPERTIES ApprovedGetsIn NightlyWorkIsDone PresenceSettles KeepsPromise
CHECK_DEADLOCK FALSE
