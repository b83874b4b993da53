CONSTANTS
  Positions <- MCPositions
  Sources <- MCSources
SPECIFICATION RecordSpec
INVARIANTS RunsForward ArrowReachesDst
CHECK_DEADLOCK FALSE
