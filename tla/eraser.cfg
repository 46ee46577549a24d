SPECIFICATION Spec
CONSTANTS
  InodeLen = 3
  PerSector = 2
  MaxKeys = 17
  NoKey = 0
INVARIANTS
  TypeOK
  Readable
  Survives
  DeletedGone
  KeysAgree
PROPERTY Completes
