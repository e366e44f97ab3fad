SPECIFICATION Spec
CONSTANTS
  lan = lan  crd = crd  k1 = k1  k2 = k2  k3 = k3
  NoKey = NoKey  NoNet = NoNet  NoAddr = NoAddr
  Nets = {lan, crd}
  Dynamic = {crd}
  Lo <- LoValue
  Hi <- HiValue
  First <- FirstValue
  Last <- LastValue
  Gateway <- LoValue
  Keys = {k1, k2, k3}
  Faults = {"create", "attach", "delete", "list"}
  Overlap = FALSE
SYMMETRY KeySymmetry
INVARIANT NoAddressTwice
PROPERTY ReleaseFreesAddress
