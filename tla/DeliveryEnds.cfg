SPECIFICATION Spec
CONSTANTS
  MaxRestarts = 2 Threshold = 2 MaxFaults = 3
  Contents = {c1, c2, c3} NoContent = none MaxChanges = 3
  Targets = 2 MaxDigests = 3 MaxUpdFaults = 3
  MaxReplicas = 3 MaxScales = 3 MaxDepFaults = 2
  Configs = {q1, q2} NoConfig = nocfg MaxRegFaults = 2 MaxOutages = 1 MaxRegRequests = 3
  ObjKeys = {k1, k2} ObjValues = {u1, u2} NoObject = absent MaxObjWrites = 3 MaxWatchFaults = 1
  MaxWritesB = 1 MaxBoots = 2 MaxBootFaults = 1
  MaxPushes2 = 3 MaxSelfFaults = 2
INVARIANTS BlobsAreWhole FileIsRunning StoredIsKnown DeletedStaysAway OneStays
PROPERTIES HungIsReplaced RegistriesMeetAgain PushReachesTargets ScaleHolds ViewCatchesUp MkubeReturns
CHECK_DEADLOCK FALSE
