SPECIFICATION Spec
CONSTANTS
  Producers = {p1, p2}
  Policies = {"reject_new", "drop_oldest"}
  MaxEvents = 2
  MaxBytes = 10000
  BatchSize = 2
  MaxItems = 4
  MaxFails = 1
  MaxBoots = 1
SYMMETRY ProducerSymmetry
INVARIANTS DepthBound
PROPERTIES RestartRecoversAll
