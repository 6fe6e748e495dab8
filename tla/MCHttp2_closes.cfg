SPECIFICATION FairSpec
CONSTANTS
  WriteSize = 3
  StreamBufSize = 3
  WriteOps = 12
  MaxWindow = 12
  DefaultWindow = 3
  FrameSize <- UnitSize
  Bodies = {0, 2}
  DecodeMayFail = TRUE
  GracefulClose = FALSE
  StreamIds = {1, 3}
  Frames <- ClosingFrames
  MaxBatch = 2
  MaxFrames = 5
  Conforming = FALSE
  Habits = {}
PROPERTIES
  ClosingEnds
  SettingsResolved
  
CHECK_DEADLOCK FALSE
