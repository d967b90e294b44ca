SPECIFICATION JobSpec
CONSTANTS
  WindowSec = 2
  WeightID = 10
  WeightTemporal = 5
  WeightSKU = 8
  Threshold = 8
  Users = {1, 2}
  Prices = {p1}
  Products = {q1}
  Raw = raw
  Absent = absent
  Times = {0, 1, 2, 4}
  CreationTimes = {1, 2}
  PriceLists <- MCPriceLists
  ProductLists <- MCProductLists
  MaxInputs = 3
  MaxBilling = 2
  SeedLimit = 2
  SeedStep = 1
  FallbackUser = 3
  FallbackPrice = pf
  ItemLists <- MCItemLists
  MaxRecords = 3
INVARIANTS TypeOK AcceptedIsJustified BestFirst OnlySyntheticLeaves JobLinks
CHECK_DEADLOCK FALSE
