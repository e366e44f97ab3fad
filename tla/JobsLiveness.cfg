\* Two pools with a runner each, none of which may overflow: one has two jobs of different
\* priority, the other has one, and the only host can be reserved for either.
SPECIFICATION MCSpec
CONSTANTS
  j1 = j1  j2 = j2  j3 = j3  h1 = h1  r1 = r1
  build = build  urgent = urgent  main = main  spare = spare
  NoJob = NoJob  NoHost = NoHost  NoRunner = NoRunner
  Jobs = {j1, j2, j3}  MaxJobs = 2
  Hosts = {h1}
  Reservations = {r1}
  Runners = {main, spare}
  Pools = {build, urgent}
  JobPool <- TwoPools
  Priority <- Ranked
  Limited = {j1, j2}
  RunnerPool <- TwoRunnerPools
  MaxConcurrent <- NoLimit
  Overflow = {}
  PowersOff = {spare}
  Scheduled = {main}
INVARIANT LeaseBacked
PROPERTIES PowerOffSafe LeaseEnds TopPriorityServed
