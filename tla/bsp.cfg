SPECIFICATION Spec
CONSTANTS
  Cells <- AllCells
  DeviceCounts = {1, 2, 4, 8}
  BlockCounts = {1, 2}
  Steps = 3
  Modulus = 65536
  Flaky = TRUE
CHECK_DEADLOCK FALSE
INVARIANTS NoFalseRelease HealthyPasses PassValidates
