SPECIFICATION MCSpec
CONSTANTS
  Kinds = {"host", "sync", "codex", "probe"}
  Forks = {"group", "quiet", "escaped"}
  Input = 2
  Most = 2
  Capacity = 1
  Limit = 2
  MayTimeOut = TRUE
  Cooperative = FALSE
  MaxCancels = 2
  k1 = k1
  k2 = k2
  k3 = k3
  NoCandidate = NoCandidate
  Candidates <- MCCandidates
  FirstSource <- MCFirstSource
  MaxVersion = 2
  MaxCrashes = 1
  Sources <- MCSources
  Replacements <- MCReplacements
  MaxEdits = 2
  a1 = a1
  da = da
  db = db
  Check = Check
  Prepare = Prepare
  Build = Build
  Nobody = Nobody
  NoClient = NoClient
  Calls <- MCCalls
  Asked <- MCJobs
  Documents <- MCDocuments
  DocumentOf <- MCDocumentOf
  MaxClients = 3
  LeanMaxCrashes = 1
  d1 = d1
  allowed = allowed
  p1 = p1
  p2 = p2
  DeniedOps <- MCDenied
  AllowedOps <- MCAllowed
  Policies <- MCPolicies
  Backends = {"codex"}
  Asks = {0}
  MaxGates = 2
  MaxRuns = 1
  MaxFaults = 1
INVARIANTS
  GroupReaped
  EpochTracksProject
  ApplyIsExact
  VerdictRestsOnGate
PROPERTY PassIsGenuine
CHECK_DEADLOCK FALSE
