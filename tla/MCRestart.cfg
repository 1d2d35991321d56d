SPECIFICATION RestartSpec
CONSTANTS
  DiskKey = {k1, k2, k3}
  Body <- MCBody
  Proc = {p1}
  DiskMax = 4
  Batch = 2
  MaxDiskClock = 2
  Faults = {"crash"}
  o1 = o1
  o2 = o2
  Origin = {o1, o2}
  Runtime = {r1}
  Identity = {1, 2}
  NameOf <- MCNameOf
  HostsOf <- MCHostsOf
  MaxTasks = 2
  MAX_COOKIES = 4
  MaxWrites = 2
  MaxResets = 1
CHECK_DEADLOCK FALSE
INVARIANT RowsHaveBodies
  
