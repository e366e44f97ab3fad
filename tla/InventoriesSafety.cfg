SPECIFICATION Spec
CONSTANTS
  h1 = h1 h2 = h2 na = na g1 = g1 BareHosts = {h1, h2} HostNames = {na, nb} MacCount <- MacCounts NetsOf <- Nets DataNets = {g1, g2} BootConfigs = {b1} NoHost = nohost MaxTears = 1
  v1 = v1 p1 = p1 p2 = p2 VmNames = {v1, v2} Stranger = other VmHostname <- PodOf NoName = noname OrphanHosts = {p1} VmIds = {1, 2} MaxVmCalls = 2 MaxVmFaults = 2
  Zones = {z1, z2, z3} NoZone = nozone MaxZoneFaults = 3
  MaxVolumeFaults = 2
  NoIso = noiso MaxDisks = 2 MaxIsoFaults = 1
  f1 = f1 Inside <- Readings FileNames = {f1, f2, f3, f4} LongNames = {f3, f4} SectorLen = 4 DirSectors = 2 MaxPatches = 5
  AutoPods = {a1, a2} MaxPushes = 3 MaxRedeploys = 2 MaxPullFaults = 1 Undisturbed = FALSE
INVARIANTS  PatchedImageHolds EveryVmIsKnown DedicatedIsServed ClaimKeepsData
PROPERTIES RedeployIsFresh SizeFollows
CHECK_DEADLOCK FALSE
