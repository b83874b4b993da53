SPECIFICATION FairMainSpec
CONSTANTS
  Delay = 2
  MaxDrainErrors = 1
  Wrap = 2
  SideData = {"none", "empty", "some"}
  MaxPackets = 4
  MaxFailures = 1
INVARIANTS
  TypeOK
  VectorsOfTheFrame
  OnlyHeldBackLost
  FaultsOutsideExtractions
  LoopsFaultOnlyInGetMAT
PROPERTIES
  StopsOnlyAtEnd
  EndsAfterAFrame
CHECK_DEADLOCK FALSE
