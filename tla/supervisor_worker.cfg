SPECIFICATION FairSpec
CONSTANTS
  Roles = {"worker"}
  Services <- SmallServices
  WorkerServices <- SmallWorkerServices
  CrashThreshold = 2
  MaxBackoff = 3
  MaxRetries = 1
  CrashCap = 2
PROPERTIES
  ExitedIsRestarted
CHECK_DEADLOCK FALSE
