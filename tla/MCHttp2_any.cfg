SPECIFICATION Spec
CONSTANTS
  WriteSize = 3
  StreamBufSize = 2
  WriteOps = 3
  MaxWindow = 4
  DefaultWindow = 1
  FrameSize <- UnitSize
  Bodies = {0, 2}
  DecodeMayFail = TRUE
  GracefulClose = TRUE
  StreamIds = {1, 3}
  Frames <- AnyFrames
  MaxBatch = 2
  MaxFrames = 5
  Conforming = FALSE
  Habits = {}
INVARIANTS
  TypeOK
  BytesAccounted
  PoolConserved
  SettingsTimed
  ReadsWhileOpen
  CloserQueued
PROPERTIES
  ClosingIsFinal
CHECK_DEADLOCK FALSE
