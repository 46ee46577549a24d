CONSTANTS
  a1 = a1
  a2 = a2
  a3 = a3
  v1 = v1
  v2 = v2
  Addr <- MCAddr
  Val <- MCVal
  JournalLen = 3
  JournalStart = JournalStart
  NoPage = NoPage
  NoArg = NoArg
SPECIFICATION FairOnceSpec
INVARIANTS
  TypeOK
  ReplayPrefix
PROPERTIES
  ImplementsAtomicStore
  JournalDrains
