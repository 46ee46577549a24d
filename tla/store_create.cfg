CONSTANTS
  KeyTableLen = 2
  Entries = 1
  TopWidth = 1
  Depth = 3
  Capacity = 12
  PerSector = 113
  CreateCrash = TRUE
  MaxKeys = 12
SPECIFICATION Spec
INVARIANT Readable
