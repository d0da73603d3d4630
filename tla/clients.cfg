SPECIFICATION ClientsSpec
CONSTANTS
  MaxMessages = 3
  MaxSent = 2
  MaxChunks = 2
  NoFile = NoFile
CHECK_DEADLOCK FALSE
INVARIANTS
  TruthIsHeard
PROPERTIES
  AbortsReachTheTool
  EveryCallEnds
