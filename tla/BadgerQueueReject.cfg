SPECIFICATION FairSpec
CONSTANTS
  Producers = {p1}
  Policies = {"reject_new"}
  MaxEvents = 4
  MaxBytes = 1500
  BatchSize = 2
  MaxItems = 4
  MaxFails = 1
  MaxBoots = 2
INVARIANTS TypeOK NoLoss ProcessedInOrder NoOverwrite
PROPERTIES EventuallyProcessed ImplementsDurableQueue
