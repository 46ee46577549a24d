CONSTANTS
  KeyTableLen = 2
  Entries = 1
  TopWidth = 1
  Depth = 3
  Capacity = 12
  PerSector = 113
  CreateCrash = FALSE
  MaxKeys = 16
  KeepsTorn = FALSE
SPECIFICATION RFairSpec
INVARIANTS
  TypeOK
  Recoverable
  Readable
  TagsLive
  ErasedUnreachable
PROPERTIES
  UnlinkCompletes
  ErasureCompletes
