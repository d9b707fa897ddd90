SPECIFICATION Spec
CONSTANTS
  PayloadMax = 2
  SeqMod = 4
  TsMod = 64
  ClockRate = 6
  Framerate = 2
  StartCode = StartCode
  Files <- MCFiles
  MaxNals = 4
  MaxLen = 5
  MaxSendFail = 2
  MaxDrops = 2
  LateReceiver = TRUE
PROPERTIES
  ClosedAfterFailuresInARow
CHECK_DEADLOCK FALSE
