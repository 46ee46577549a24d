CONSTANTS
  Depth = 3
  NoKey = NoKey
  KeyTableLen = 2
  PerSector = 5
  Capacity = 18
  MaxRenewals = 1
  MaxBefore = 4
  MaxAfter = 2
SPECIFICATION VariantsSpec
INVARIANTS
  TypeOK
  UnpuncturedUnchanged
  PuncturedGone
  SizeBound
  DiskPuncturedGone
  TreeAgrees
  ArrayAgrees
  SearchesAgree
  PythonAgrees
PROPERTIES
  OnlyReturnedNodeChanges
  ImplementsPPRF
