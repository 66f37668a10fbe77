SPECIFICATION FairSpec
CONSTANTS
  HealthTimeout = 4
  FailThreshold = 2
  FailBudget = 8
  ScoreCap = 10
  SilenceMax = 6
  PidGrace = 3
  StartupGrace = 3
  ConsecTimeoutMax = 3
  CountCap = 4
  FailGrace = 9
  TimeCap = 7
  AccumCap = 10
INVARIANTS
  TypeOK
  DegradedAgree
  ToleratesShortOutage
PROPERTIES
  NeverStartsAgain
  OutageIsReported
