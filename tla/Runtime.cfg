SPECIFICATION MCSpec
CONSTANTS
  a1 = a1
  b1 = b1
  da = da
  db = db
  Check = Check
  Prepare = Prepare
  Build = Build
  Nobody = Nobody
  NoClient = NoClient
  Calls <- MCCalls
  Asked <- NoJob
  Documents <- MCDocuments
  DocumentOf <- MCDocumentOf
  MaxClients = 5
  LeanMaxCrashes = 2
  Backend = "fake"
  SharedMaxRuns = 1
  Slots = 2
  SharedMaxFaults = 2
  Kinds = {"host", "sync", "codex", "probe"}
  Forks = {"group", "quiet", "escaped"}
  Input = 1
  Most = 1
  Capacity = 1
  Limit = 0
  MayTimeOut = TRUE
  Cooperative = FALSE
  MaxCancels = 1
INVARIANTS
  OneRuntime RecordedOnce
PROPERTIES SharedRunEnds CallsAndLaunchesEnd
CHECK_DEADLOCK FALSE
