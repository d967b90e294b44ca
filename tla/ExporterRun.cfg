SPECIFICATION FairSpec
CONSTANTS
  Streams = {edges}
  Mode = "both"
  Capacity = 2
  BatchSize = 2
  MaxRetries = 1
  MaxItems = 4
INVARIANTS TypeOK DropsAreCounted ExportedInOrder
PROPERTIES NothingAfterShutdown WorkersExit EventuallyLeaves
CHECK_DEADLOCK FALSE
