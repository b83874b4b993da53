SPECIFICATION FairSpec
CONSTANTS
  Delay = 2
  MaxDrainErrors = 1
  MaxRuns = 2
  MaxCalls = 2
  MaxPackets = 2
  MaxMvs = 2
INVARIANTS TypeOK OwnFiles InOrder TornOnlyWhereInterrupted EveryPictureWritten SentOnlyWhenDrained
PROPERTIES ImplementsFrameLog CallReturns
CHECK_DEADLOCK FALSE
