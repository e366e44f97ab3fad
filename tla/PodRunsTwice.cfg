SPECIFICATION ClusterSpec
CONSTANTS Peers = {n1, n2} NoHome = nobody NoPod = nopod
  BrokenThreshold = 3 MaxWrites = 1 MaxCuts = 0
PROPERTY RunsAtHome
CHECK_DEADLOCK FALSE
