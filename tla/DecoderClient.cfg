SPECIFICATION Spec
CONSTANTS
  Delay = 2
  MaxDrainErrors = 1
  MaxPackets = 5
INVARIANTS TypeOK NoPictureLost EofMeansDrained
