CONSTANTS
  r1 = r1
  r2 = r2
  r3 = r3
  r4 = r4
  Requests = {r1, r2}
  Streaming = {r2}
  Priority <- MCPriority
  MaxQueueSize = 1
  Pods = {p1, p2, p3}
  NoPod = NoPod
  Configs = {}
  InitialConfig <- Small
  MaxRequests = 1
  MaxStartupFailures = 1
SPECIFICATION FairSpec
VIEW Observed
CHECK_DEADLOCK FALSE
INVARIANT
  TypeOK
PROPERTIES
  KeepsPromise
