SPECIFICATION QueueSpec
CONSTANTS
  Delay = 2
  MaxDrainErrors = 1
  MaxPackets = 6
  MAX_FRAMES = 4
INVARIANTS TypeOK OneFramePerArray NewestVectors EveryFrameQueued RoomForEveryPacket
PROPERTY EntriesKeepTheirVectors
CHECK_DEADLOCK FALSE
