SPECIFICATION Spec
CONSTANTS
  Delay = 1
  MaxDrainErrors = 1
  MaxPackets = 4
PROPERTY NeverBothEagain
