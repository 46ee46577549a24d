CONSTANTS
  Depth = 3
  NoKey = NoKey
  KeyTableLen = 2
  PerSector = 7
  Capacity = 18
  MaxRenewals = 1
  MaxBefore = 8
  MaxAfter = 8
SPECIFICATION StoreSpec
INVARIANT TailsPuncturedGone
