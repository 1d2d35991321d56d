SPECIFICATION DiskSpec
CONSTANTS
  DiskKey = {k1, k2}
  Body <- MCBody
  Proc = {p1, p2}
  DiskMax = 2
  Batch = 2
  MaxDiskClock = 1
  Faults = {"crash", "io", "busy"}
SYMMETRY MCSymmetry
INVARIANTS CapHolds
