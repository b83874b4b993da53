SPECIFICATION Spec
CONSTANTS
  Delay = 1
  MaxDrainErrors = 1
  MaxRuns = 1
  MaxCalls = 2
  MaxPackets = 1
  MaxMvs = 1
INVARIANT AbortsWithoutVideoStream
CHECK_DEADLOCK FALSE
