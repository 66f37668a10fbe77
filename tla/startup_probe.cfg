SPECIFICATION Spec
CONSTANTS
  Plans <- MCPlans
  MaxLog = 3
  MaxSilence = 2
  Lives = 1
PROPERTIES
  SilenceIsForgiven
CHECK_DEADLOCK FALSE
