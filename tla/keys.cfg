CONSTANTS
  Calls = {a1}
  Cli = cli
  MaxFaults = 1
  MaxConfigs = 1
  MaxEdits = 1
  None = None
  Invalid = Invalid
SPECIFICATION FairSpec
CHECK_DEADLOCK FALSE
INVARIANTS
  StaleSessionsGo
  KeyInUse
PROPERTIES
  Reconnects
  CloseEnds
