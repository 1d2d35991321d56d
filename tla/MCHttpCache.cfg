SPECIFICATION HttpSpec
CONSTANTS
  k1 = k1
  k2 = k2
  x1 = x1
  x2 = x2
  Key = {k1, k2}
  Entry <- MCEntry
  MemMax = 1
  SmallMax = 1
  Doc <- MCDoc
  Variant = {x1, x2}
  MaxClock = 1
SYMMETRY MCSymmetry
INVARIANTS FreshIsConfirmed RevalidatedIsCurrent
