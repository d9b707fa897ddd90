SPECIFICATION FairSpec
CONSTANTS
  Size = 7
  MaxMtu = 3
  ReadSize = 3
  Room = 4
  SelectMax = 3
  Sizes = {0, 3, 5, 8, 9}
  Mtus = {1, 2, 3, 5, 8}
  ShortMod = 8
  MaxRetries = 4
INVARIANTS
  BytesInOrder
  ClaimsOnlySent
  DatagramsEndToEnd
PROPERTIES
  WritesReturn
CHECK_DEADLOCK FALSE
