SPECIFICATION Spec
CONSTANTS
  Plans <- MCPlans
  MaxLog = 3
  MaxSilence = 2
  Lives = 1
INVARIANT AlwaysStartsEngine
CHECK_DEADLOCK FALSE
