SPECIFICATION FairSpec
CONSTANTS
  c1 = c1
  c2 = c2
  Conn = {c1, c2}
  Packets <- MCPackets
  RecvMax = 3
  MaxFd = 2
  Survivable = {c2}
  NoConn = NoConn
INVARIANTS
  SoleReaderInOrder
  EachPacketOnce
PROPERTIES
  NewestIsRead
CHECK_DEADLOCK FALSE
