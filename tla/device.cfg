CONSTANTS
  IoWork = {i}
  UnlinkWork = {u}
  KeyTableLen = 3
  Buckets = 2
  Punctures = 1
  MaxUnlinks = 2
SPECIFICATION Spec
INVARIANTS TypeOK EntriesCurrent NeverWedged FaultsExplained RoomKept OneMaster ClosedWhole
PROPERTIES Settles
