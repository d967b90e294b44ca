SPECIFICATION Spec
CONSTANTS
  Requests = {r1, r2}
  ShutdownCommands = {c1, c2}
  PlainCommands = {c3}
  UnknownCommands = {c4}
  NoCommand = none
  Stamps = {1, 2}
  MaxClockSkew = 1
  NonceCacheTTL = 2
  MaxStall = 1
  MaxTime = 4
  MaxDeliveries = 3
SYMMETRY Symmetry
INVARIANTS TypeOK ExecutedAtMostOnce FlagNotStuck
CHECK_DEADLOCK FALSE
