CONSTANTS
  Depth = 3
  NoKey = NoKey
  KeyTableLen = 1
  PerSector = 20
  Capacity = 24
  MaxRenewals = 1
  MaxBefore = 8
  MaxAfter = 8
SPECIFICATION StoreSpec
INVARIANT LeavesSuffice
