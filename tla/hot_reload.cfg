CONSTANTS
  Calls = {}
  Cli = cli
  MaxFaults = 0
  MaxConfigs = 0
  MaxEdits = 1
  None = None
  Invalid = Invalid
SPECIFICATION FairSpec
CHECK_DEADLOCK FALSE
PROPERTY
  ReloadsFollowEdits
