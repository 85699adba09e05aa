SPECIFICATION Spec
CONSTANTS
  Dev = {d1}
  Boot = {d1}
  HotPlug = {}
  Enforced = {d1}
  MaxReg = 31
  MaxWords = 2
  MaxRecords = 4
  MemWords = 2
  Horizon = 4
  RecordNs = 1
  ComputeNs = 1
  Bandwidth = 8
  LinkNs = 1
  Late = FALSE
  FieldValues <- GateFields
  EpochValues = {2}
  CapacityValues = {3}
  StoreValues = {5}
  MaxTime = 0
  MaxRejected = 1
INVARIANTS EvidenceTrail SuccessHasEvidence RoomForCompletion FailureTruth CommitTruth
PROPERTIES StickyFailure LogAppendOnly ImplementsContract
