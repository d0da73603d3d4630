CONSTANTS
  Conns = {1, 2}
  Sources = {s1}
  Calls = {1, 2}
  Lease = 1
  MaxSessions = 2
  None = None
SPECIFICATION FairSpec
INVARIANTS
  OwnedInService
PROPERTIES
  ClosedEnds
