SPECIFICATION Spec
CONSTANTS
  Dim = 2
  TagSpace = 32
  MaxPolls = 2
  MaxRunning = 2
  Jobs <- SampleJobs
  Runs = 2
  MaxSweeps = 2
  MaxFaults = 1
  RequestDamage <- MCRequestDamage
  ResponseDamage <- MCResponseDamage
CHECK_DEADLOCK FALSE
INVARIANT MeasuredMeansCarried
