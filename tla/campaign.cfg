SPECIFICATION CampaignSpec
CONSTANTS
  d1 = d1
  d2 = d2
  d3 = d3
  Dev <- MCDev
  Boot <- MCDev
  Enforced <- MCDev
  HotPlug = {}
  Tiles <- MCTiles
  Cases <- MCCases
  Sizes = {1, 2}
  Rounds = 4
  DrainLimit = 9
  Inputs <- MCInputs
  Fill = 170
  MaxReg = 255
  MaxWords = 2
  MaxRecords = 4
  MemWords = 4
  Horizon = 4
  RecordNs = 1
  ComputeNs = 1
  Bandwidth = 4
  LinkNs = 2
  Late = FALSE
  FieldValues <- NoWrites
  EpochValues = {}
  CapacityValues = {}
  StoreValues = {}
  MaxTime = 0
  MaxRejected = 0
CHECK_DEADLOCK FALSE
INVARIANTS ScheduleAgrees RoundEvidence FaultEvidence
