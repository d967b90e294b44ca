SPECIFICATION FairSpec
CONSTANTS
  MaxItems = 3
  DLQLimit = 3
  PurgeBatch = 2
  MaxOps = 2
  MaxFails = 2
  MaxCrashes = 1
INVARIANTS TypeOK NothingVanishes
PROPERTIES CallsEnd PoisonDoesNotBlock
CHECK_DEADLOCK FALSE
