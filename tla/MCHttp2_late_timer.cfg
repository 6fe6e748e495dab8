SPECIFICATION Spec
CONSTANTS
  WriteSize = 10
  StreamBufSize = 3
  WriteOps = 12
  MaxWindow = 12
  DefaultWindow = 2
  FrameSize <- UnitSize
  Bodies = {0, 3}
  DecodeMayFail = FALSE
  GracefulClose = FALSE
  StreamIds = {1, 3}
  Frames <- LateTimerFrames
  MaxBatch = 2
  MaxFrames = 5
  Conforming = TRUE
  Habits = {}
INVARIANTS
  WritesConnected
CHECK_DEADLOCK FALSE
