SPECIFICATION DiskSpec
CONSTANTS
  k1 = k1
  k2 = k2
  k3 = k3
  p1 = p1
  DiskKey = {k1, k2, k3}
  Body <- MCBody
  Proc = {p1}
  DiskMax = 4
  Batch = 2
  MaxDiskClock = 0
  Faults = {"crash"}
INVARIANTS LoadIntact
