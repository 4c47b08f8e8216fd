SPECIFICATION MCSpec
CONSTANTS
  Workers <- MCWorkers
  MaxTaskVersion = 2
  MaxControllerVersion = 2
  MaxSessions = 2
  Backend = "codex"
  SharedMaxRuns = 1
  Slots = 1
  SharedMaxFaults = 1
  e1 = e1
  x1 = x1
  x2 = x2
  r1 = r1
  NoRun = NoRun
  Types <- MCTypes
  StoreBatches <- None
  Entities <- MCEntities
  Values <- MCValues
  Runs <- MCRuns
  Tokens <- None
  MaxEvents = 4
INVARIANTS
  OneActiveExecution OneLease
  CompletedIsEarned SubmissionBuildsOnRead RunIsSettled
  OrchestrationHistory
PROPERTY LedgerSpec
SYMMETRY Symmetry
CHECK_DEADLOCK FALSE
