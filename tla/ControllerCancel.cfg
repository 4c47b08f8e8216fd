SPECIFICATION FairSpec
CONSTANTS
  Workers <- MCWorkers
  MaxTaskVersion = 2
  MaxControllerVersion = 2
  MaxSessions = 2
PROPERTY CancellationRecorded
