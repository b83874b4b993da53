SPECIFICATION MainSpec
CONSTANTS
  Delay = 2
  MaxDrainErrors = 1
  Wrap = 2
  SideData = {"none"}
  MaxPackets = 4
  MaxFailures = 1
INVARIANT
  PictureIsThere
CHECK_DEADLOCK FALSE
