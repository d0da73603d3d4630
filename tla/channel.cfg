CONSTANTS
  Runs = {r1}
  Calls = {u1, q1}
  Uploads = {u1}
  MaxChunks = 1
SPECIFICATION FairSpec
CHECK_DEADLOCK FALSE
INVARIANTS
  NobodyWaits
  StreamsAreWhole
PROPERTIES
  RunsEnd
  BreaksOnlyWhenDropped
