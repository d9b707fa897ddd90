SPECIFICATION OrderlySpec
CONSTANTS
  Producers = {p1, p2}
  Consumers = {c1, c2}
  Cleaners = {k1}
  k1 = k1
  Value = {a, b}
  p1 = p1
  p2 = p2
  c1 = c1
  c2 = c2
  b = b
  a = a
  MaxDataSequeue = 3
  NoThread = NoThread
  Junk = Junk
  Untouched = Untouched
SYMMETRY Symmetry
INVARIANTS
  LockDiscipline
  StaleTestsHold
  OwedInSlot
PROPERTIES
  DequeuesOldest
  ImplementsFifo
