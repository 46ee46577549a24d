CONSTANTS
  KeyTableLen = 1
  Entries = 2
  TopWidth = 1
  Depth = 2
  Capacity = 8
  PerSector = 113
  CreateCrash = FALSE
  MaxKeys = 13
  KeepsTorn = TRUE
SPECIFICATION RSpec
INVARIANT ErasedUnreachable
