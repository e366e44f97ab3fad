\* Two jobs of different priority, two hosts, two reservations and one runner that may
\* not overflow.
SPECIFICATION Spec
CONSTANTS
  j1 = j1  j2 = j2  h1 = h1  h2 = h2  r1 = r1  r2 = r2
  build = build  main = main
  NoJob = NoJob  NoHost = NoHost  NoRunner = NoRunner
  Jobs = {j1, j2}
  Hosts = {h1, h2}
  Reservations = {r1, r2}
  Runners = {main}
  Pools = {build}
  JobPool <- OnePool
  Priority <- Ranked
  Limited = {j1, j2}
  RunnerPool <- OneRunnerPool
  MaxConcurrent <- NoLimit
  Overflow = {}
  PowersOff = {main}
  Scheduled = {main}
SYMMETRY LeaseSymmetry
INVARIANTS HostExclusive ReportsOwnJob
PROPERTIES NoOvertaking ImplementsLease
