SPECIFICATION Spec
CONSTANTS
  Streams = {edges}
  Mode = "both"
  Capacity = 2
  BatchSize = 2
  MaxRetries = 1
  MaxItems = 2
INVARIANTS ShutdownFlushes
CHECK_DEADLOCK FALSE
