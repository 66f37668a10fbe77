SPECIFICATION FairSpec
CONSTANTS
  Master = Master
  w1 = w1
  w2 = w2
  Workers = {w1, w2}
  Topologies <- SmallTopologies
  MaxPolls = 2
  MaxProbes = 2
  MaxTries = 2
  MaxApiRestarts = 2
  Restarts = 1
INVARIANTS
  OneRankPerPod
  NoneBeforeAllMet
  FinishedMeansStarted
PROPERTIES
  RolloutEnds
CHECK_DEADLOCK FALSE
