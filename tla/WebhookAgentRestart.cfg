SPECIFICATION FairSpec
CONSTANTS
  Requests = {r1}
  Events = {e1}
  QueueDepth = 1
  NoEvent = none
  MaxDeliveries = 1
PROPERTIES RestartEndsProcess
CHECK_DEADLOCK FALSE
