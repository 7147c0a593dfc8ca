SPECIFICATION Spec
CONSTANTS
  m1 = m1
  m2 = m2
  m3 = m3
  Order <- MCOrder
  Limit = 2
  MaxTime = 4
  NoTime = NoTime
INVARIANT NewestKept
