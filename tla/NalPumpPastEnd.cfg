SPECIFICATION PumpFairSpec
CONSTANTS
  MaxBuf = 8
  MaxDatagram = 6
  SendErrors = FALSE
  MaxNals = 3
  MaxLen = 5
  H264Files <- MCFiles
  PastBytes <- MCHarmful
PROPERTIES
  SendsTheFile
CHECK_DEADLOCK FALSE
