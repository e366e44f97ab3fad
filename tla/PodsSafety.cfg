SPECIFICATION MCSpec
CONSTANTS
  p1 = p1  s1 = s1  s2 = s2
  NoSpec = NoSpec
  Pods = {p1}
  Specs = {s1, s2}
  MaxEdits = 2
  MaxFaults = 1
  MaxThreads = 2
INVARIANT RunsItsImage
PROPERTY PodsConverge
