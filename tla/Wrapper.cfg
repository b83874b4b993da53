SPECIFICATION Spec
CONSTANTS
  OutputDirs = {"mv", "other"}
  MaxPictures = 3
INVARIANTS ExpectedDirectoryExists FramesHaveTheirVectors DamagedOnlyByTwo
CHECK_DEADLOCK FALSE
