SPECIFICATION Spec
CONSTANTS
  Models <- MCModels
  Hosts <- MCHosts
  Topologies <- MCTopologies
  Requests <- MCRequests
INVARIANTS
  CommandsIndependent
  FallbackIsPlain
  FeaturesAgree
  TopologyFits
  RanksPartition
  GuardsHold
  GivenReachesTheEngine
CHECK_DEADLOCK FALSE
