SPECIFICATION FairSpec
CONSTANTS
  Requests = {r1, r2}
  Events = {e1, e2, e3}
  QueueDepth = 1
  NoEvent = none
  MaxDeliveries = 4
INVARIANTS TypeOK ProcessedAtMostOnce AckedIsAccountedFor TimelyShutdown
PROPERTIES AckedIsProcessed
CHECK_DEADLOCK FALSE
