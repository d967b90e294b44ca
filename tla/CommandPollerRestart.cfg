SPECIFICATION FairSpec
CONSTANTS
  Kinds = {"strict", "passthrough", "restart", "refused"}
  InitialMode = "strict"
  MaxCommands = 2
  MaxLosses = 1
  MaxFailures = 0
  MaxEnds = 1
PROPERTY AllAcknowledged
CHECK_DEADLOCK FALSE
