SPECIFICATION FairSpec
CONSTANTS
  Workers <- MCWorkers
  MaxTaskVersion = 2
  MaxControllerVersion = 1
  MaxSessions = 2
PROPERTIES PendingIsTaken ControllerSettles
