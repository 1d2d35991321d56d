SPECIFICATION CopiesSpec
CONSTANTS
  Capacity = 2
  MAX_RECOVERY_ATTEMPTS = 2
  MaxDoc = 2
  MaxGen = 2
  MaxCommit = 2
  MaxId = 2
  MaxWork = 1
  RenderFaults = {"stage", "invalid", "deadline"}
  Url = {"a", "b"}
  OriginOf <- MCOriginOf
  MaxBatch = 2
  MaxEntries = 3
  MaxDocs = 2
CHECK_DEADLOCK FALSE
INVARIANTS  RecoversUnlessOrphaned StatelessIsLoaded
PROPERTY LayoutExact
