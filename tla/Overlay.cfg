SPECIFICATION OverlaySpec
CONSTANTS
  Delay = 1
  MaxDrainErrors = 1
  MaxRuns = 2
  MaxCalls = 2
  MaxPackets = 2
INVARIANTS TypeOK Paired CutOnlyAtTheEnd OwnVideo NothingLeftOpen OverlaysShowOnePicture QuietOverlays RaisesOnlyOverTheKilled
PROPERTY ImplementsFrameLog
CHECK_DEADLOCK FALSE
