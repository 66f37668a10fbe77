SPECIFICATION FairSpec
CONSTANTS
  Roles = {"standalone", "master", "worker"}
  Services <- SmallServices
  WorkerServices <- SmallWorkerServices
  CrashThreshold = 2
  MaxBackoff = 3
  MaxRetries = 1
  CrashCap = 2
INVARIANTS
  ChildrenAccountedFor
PROPERTIES
  BackoffIsKept
  GivesUpOnlyWhenAllDown
  EventsAreHandled
CHECK_DEADLOCK FALSE
