SPECIFICATION Spec
CONSTANTS
  Workers = {w1}
  CheckInterval = 4
  MaxMissed = 10
  HeartbeatInterval = 4
  MaxBackoff = 40
  RegRetries = 30
  RegInterval = 2
  CallTime = 3
  Lives = 2
  MasterLives = 2
  FailureCap = 4
INVARIANTS
  TypeOK
  ChargedForSilence
PROPERTIES
  ImplementsLease
  SurvivesTwoLost
