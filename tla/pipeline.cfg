SPECIFICATION Spec
CONSTANTS
  Statements <- MCStatements
  Levels <- MCLevels
  Rtl <- RtlIps
  Cpu = {"PtxEmulationCore"}
  CycleBudget = 2
  Streams = {}
  Work <- MCWork
CHECK_DEADLOCK FALSE
INVARIANTS TopoSound CompiledNeverStuck LastPredecessorFirst KernelRunsWhole MatchMeans ReplayRepeats
