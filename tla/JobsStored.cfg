SPECIFICATION StoreSpec
CONSTANTS
  j1 = j1  j2 = j2  j3 = j3  h1 = h1  h2 = h2  r1 = r1  r2 = r2
  build = build  urgent = urgent  main = main  spare = spare
  NoJob = NoJob  NoHost = NoHost  NoRunner = NoRunner
  Jobs = {j1, j2}
  Hosts = {h1}
  Reservations = {r1}
  Runners = {main, spare}
  Pools = {build}
  JobPool <- OnePool
  Priority <- SamePriority
  Limited = {j1, j2}
  RunnerPool <- OneRunnerPool
  MaxConcurrent <- MixedLimits
  Overflow = {main}
  PowersOff = {main}
  Scheduled = {main}
SYMMETRY StoreSymmetry
INVARIANT PoolLimit
PROPERTY EndedStaysEnded
