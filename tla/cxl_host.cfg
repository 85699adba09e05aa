SPECIFICATION ReplaySpec
CONSTANTS
  Dim = 2
  Bytes = {0, 1, 2}
  TagSpace = 32
  Late = {FALSE, TRUE}
  Jobs <- SampleJobs
  FLIT_TIMEOUT_TICKS = 5
  MaxRuns = 3
  HjConfigs <- MCHjConfigs
  MaxCycles = 80
CHECK_DEADLOCK FALSE
INVARIANTS RightAnswer OnlyTimeoutsFail RecordingsAgree HjSeesTrace
PROPERTIES RunEnds
