SPECIFICATION FairSpec
CONSTANTS
  lan = lan  crd = crd  k1 = k1  k2 = k2  k3 = k3
  NoKey = NoKey  NoNet = NoNet  NoAddr = NoAddr
  Nets = {lan, crd}
  Dynamic = {crd}
  Lo <- LoValue
  Hi <- OneAddress
  First <- FirstValue
  Last <- OneAddress
  Gateway <- LoValue
  Keys = {k1, k2}
  Faults = {"create", "update", "lost", "attach", "rollback", "delete", "list", "sync"}
  Overlap = TRUE
PROPERTY OrphanReleased
