SPECIFICATION FairSpec
CONSTANTS
  MaxClientNum = 2
  NoPeer = NoPeer
  Peer = {p1, p2, p3}
  Idlers = {p3}
  p1 = p1
  p2 = p2
  p3 = p3
INVARIANTS
  SessionsCounted
  SocketsOwned
  ServesReported
  AnsweredUnlessInterrupted
PROPERTIES
  NewcomersHandled
  EndedSessionsFreed
  RequestsRead
