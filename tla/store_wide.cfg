CONSTANTS
  KeyTableLen = 2
  Entries = 1
  TopWidth = 2
  Depth = 3
  Capacity = 12
  PerSector = 113
  CreateCrash = FALSE
  MaxKeys = 17
SPECIFICATION Spec
INVARIANT TopCopied
