SPECIFICATION ProfileSpec
CONSTANTS
  o1 = o1
  o2 = o2
  Origin = {o1, o2}
  Runtime = {r1}
  Identity = {1, 2}
  NameOf <- MCNameOf
  HostsOf <- MCHostsOf
  MaxTasks = 2
  MAX_COOKIES = 4
  MaxWrites = 2
  MaxResets = 1
CHECK_DEADLOCK FALSE
INVARIANT ClearedStaysCleared
