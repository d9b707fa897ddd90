SPECIFICATION Spec
CONSTANTS
  Value = {a, b}
  Element = {x, y}
  a = a
  b = b
  x = x
  y = y
  Garbage = Garbage
  MAXSIZE = 3
  Sizes = {1, 2, 4}
  UIntMod = 16
  Node = {n1, n2, n3, n4, n5}
  n1 = n1
  n2 = n2
  n3 = n3
  n4 = n4
  n5 = n5
  NULL = NULL
  Address = {a1, a2, a3}
  a1 = a1
  a2 = a2
  a3 = a3
  Client = {m1, m2, m3}
  m1 = m1
  m2 = m2
  m3 = m3
  Llist = Llist
  Nil = Nil
  Freed = Freed
  Other = {2}
  MaxBytes = 11
SYMMETRY Symmetry
INVARIANTS
  RingCounts
  ChainIsLinked
  SizeShortByLeftovers
  ClientsListed
  CutsAtStartCodes
  RestHasNoCode
PROPERTIES
  RingIsFifo
  ListIsFifo
CHECK_DEADLOCK FALSE
