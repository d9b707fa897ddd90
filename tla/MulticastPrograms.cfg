SPECIFICATION PairFairSpec
CONSTANTS
  Files <- MCRecorded
  StartLimit = 4
  MaxDrops = 2
  ChanMax = 3
  MaxBuf = 8
  MaxDatagram = 6
  SendErrors = TRUE
  MaxNals = 4
  MaxLen = 5
  H264Files <- MCFiles
  PastBytes <- MCHarmless
INVARIANTS
  StopsAtLimit
  OneSps
  SlicesWithoutGap
  Decodable
PROPERTIES
  RecordingEnds
  SendsTheFile
  KeepsSending
CHECK_DEADLOCK FALSE
