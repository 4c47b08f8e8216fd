SPECIFICATION MCSpec
CONSTANTS
  w1 = w1
  u = u
  v = v
  Workers <- MCWorkers
  Contents <- MCContents
  NoFile = NoFile
  Junk = Junk
  MaxDocs = 2
  MaxCrashes = 2
  MaxFaults = 0
  Targets <- MCTargets
  MaxRounds = 2
  MaxFailures = 1
  MaxWorkers = 2
  WatchModes = {TRUE, FALSE}
  MaxRuns = 1
  p1 = p1
  p2 = p2
  RpcPeers <- MCRpcPeers
  q1 = q1
  g1 = g1
  x = x
  NoSession = NoSession
  Sessions <- MCSessions
  Peers <- MCPeers
  Genuine <- MCGenuine
  RequestLimit = 1
  RunBudget = 2
  MaxWindows = 1
  GatewayMaxCalls = 2
  k1 = k1
  k2 = k2
  k3 = k3
  Calls <- MCCalls
  Nobody = Nobody
  NoReply = NoReply
  Kinds = {"host", "sync", "codex", "probe"}
  Forks = {}
  Input = 2
  Most = 2
  Capacity = 1
  Limit = 4
  MayTimeOut = FALSE
  Cooperative = TRUE
  MaxCancels = 0
  s1 = s1
  None = None
  Alone = Alone
  Servers <- MCServers
  Clients <- Nobodies
  Batches <- Nobodies
  StoreOpens = TRUE
  MaxStarts = 6
  MaxCalls = 0
  Spared <- Windows
INVARIANTS
  NoHandlerOutlivesStore
  ReplyIsOwn
  NextStartIsPossible
PROPERTIES
  PreparedIsRestored RunEnds EachEnds
CHECK_DEADLOCK FALSE
