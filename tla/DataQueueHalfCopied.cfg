SPECIFICATION Spec
CONSTANTS
  Producers = {p1}
  Consumers = {c1}
  Cleaners = {}
  Value = {a, b}
  p1 = p1
  c1 = c1
  b = b
  a = a
  MaxDataSequeue = 3
  NoThread = NoThread
  Junk = Junk
  Untouched = Untouched
SYMMETRY Symmetry
PROPERTIES
  FirstInFirstOut
