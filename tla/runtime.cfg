CONSTANTS
  Nodes = {n1, n2}
  Runtimes = {v1, v2}
  Calls = {c1, c2, c3}
  Configs = {1, 2}
  Default = 1
  PodLimit = 2
  MaxPods = 3
  None = None
SPECIFICATION Spec
SYMMETRY Symmetry
CHECK_DEADLOCK FALSE
INVARIANTS
  QuotaHolds
  ConfigFresh
  Reachable
  NoOrphans
