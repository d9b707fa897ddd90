SPECIFICATION SizeSpec
CONSTANTS
  Producers = {p1}
  Consumers = {c1}
  Cleaners = {k1}
  Watchers = {w1}
  Value = {a}
  k1 = k1
  p1 = p1
  c1 = c1
  w1 = w1
  a = a
  MaxDataSequeue = 3
  NoThread = NoThread
  Junk = Junk
  Untouched = Untouched
PROPERTIES
  SizeIsSafe
