SPECIFICATION Spec
CONSTANTS
  Plans <- MCPlans
  MaxLog = 3
  MaxSilence = 2
  Lives = 2
INVARIANTS
  EnginesTakeTurns
  CompletedMeansStarted
  FlagsNeverOverclaim
PROPERTIES
  VerdictIsFair
  OutcomeIsReported
CHECK_DEADLOCK FALSE
