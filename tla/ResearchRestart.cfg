SPECIFICATION ResearchFairSpec
CONSTANTS
  Targets <- MCTargets
  MaxRounds = 2
  MaxFailures = 2
  MaxWorkers = 2
  WatchModes = {FALSE}
  MaxRuns = 2
PROPERTY PublishedIsSettled
CHECK_DEADLOCK FALSE
