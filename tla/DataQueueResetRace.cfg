SPECIFICATION Spec
CONSTANTS
  Producers = {p1}
  Consumers = {c1}
  Cleaners = {k1}
  Value = {a}
  a = a
  k1 = k1
  p1 = p1
  c1 = c1
  MaxDataSequeue = 3
  NoThread = NoThread
  Junk = Junk
  Untouched = Untouched
SYMMETRY Symmetry
PROPERTIES
  ImplementsFifo
