SPECIFICATION AgentSpec
CONSTANTS
  Kinds = {"strict", "passthrough", "restart", "refused"}
  InitialMode = "strict"
  MaxCommands = 3
  MaxLosses = 2
  MaxFailures = 2
  MaxEnds = 2
  MaxLostBeats = 1
INVARIANTS TypeOK ModeIsPersistent
PROPERTIES ImplementsRemoteMode AllAnswered ControlPlaneConverges
CHECK_DEADLOCK FALSE
