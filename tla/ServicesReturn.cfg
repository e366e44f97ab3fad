SPECIFICATION Spec
CONSTANTS
  Peers = {n1, n2} NoHome = nobody NoPod = nopod BrokenThreshold = 2 MaxWrites = 2 MaxCuts = 1
  MaxNetFaults = 1 MaxNetRestarts = 1
  DeadThreshold = 3 MaxDnsFaults = 3
  Addresses = {i1, i2} NoAddress = noaddr MaxCopies = 2 MaxMoves = 3 MaxRecFaults = 1
  MaxEdits = 2 MaxProxyFaults = 1
  LeaseNets = {a, b} Configured = {a} MaxLeaseEdits = 3 MaxLeaseFaults = 2
INVARIANTS PeersAgree NothingIsLeft
PROPERTIES DnsServiceReturns NameResolves UsersRecordStays AskedIsServedAgain LeasesAreTold
CHECK_DEADLOCK FALSE
