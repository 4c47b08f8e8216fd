SPECIFICATION MCSpec
CONSTANTS
  w1 = w1
  w2 = w2
  u = u
  v = v
  Workers <- MCWorkers
  Contents <- MCContents
  NoFile = NoFile
  Junk = Junk
  MaxDocs = 2
  MaxCrashes = 1
  MaxFaults = 1
  Targets <- MCTargets
  MaxRounds = 2
  MaxFailures = 2
  MaxWorkers = 1
  WatchModes = {TRUE}
  MaxRuns = 2
  s1 = s1
  s2 = s2
  o1 = o1
  b1 = b1
  None = None
  Alone = Alone
  Servers <- MCServers
  Clients <- MCClients
  Batches <- MCBatches
  StoreOpens = FALSE
  MaxStarts = 2
  MaxCalls = 1
  Spared <- NoPhase
  q1 = q1
  q2 = q2
  g1 = g1
  g2 = g2
  NoSession = NoSession
  Sessions <- MCSessions
  Peers <- MCPeers
  Genuine <- MCPeers
  RequestLimit = 2
  RunBudget = 2
  MaxWindows = 0
  GatewayMaxCalls = 3
  Backend = "fake"
  SharedMaxRuns = 2
  Slots = 1
  SharedMaxFaults = 1
INVARIANTS
  UsableIsOnDisk
  RoundsAgree VerifiedByEvidence RunIsSettled
  AnswerFromSeenOwner
  RedeemedOnce SecretsCleared
PROPERTIES NoCallAfterLease
SYMMETRY Symmetry
CHECK_DEADLOCK FALSE
