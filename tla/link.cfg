SPECIFICATION FairSpec
CONSTANTS
  Dev = {d1, d2}
  Boot = {d1, d2}
  HotPlug = {d2}
  Enforced = {d1}
  MaxReg = 15
  MaxWords = 2
  MaxRecords = 4
  MemWords = 2
  Horizon = 4
  RecordNs = 1
  ComputeNs = 1
  Bandwidth = 4
  LinkNs = 1
  Late = TRUE
  FieldValues <- LinkFields
  EpochValues = {}
  CapacityValues = {}
  StoreValues = {}
  MaxTime = 1
  MaxRejected = 0
INVARIANTS EndpointInv LinkExclusive CostCharged
PROPERTIES JobEnds
