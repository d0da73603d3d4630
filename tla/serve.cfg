CONSTANTS
  r1 = r1
  r2 = r2
  r3 = r3
  r4 = r4
  Requests = {r1, r2, r3, r4}
  Streaming = {r3}
  Priority <- MCPriority
  MaxQueueSize = 2
  Pods = {p1, p2, p3}
  NoPod = NoPod
  Configs = {}
  InitialConfig <- Pair
  MaxRequests = 2
  MaxStartupFailures = 2
SPECIFICATION Spec
SYMMETRY ServeSymmetry
VIEW Observed
CHECK_DEADLOCK FALSE
INVARIANTS
  PodsMatchRequests
  SessionsFollowRequests
  OvershootBound
PROPERTIES
  NoStrandedQueue
  QueueIsFair
