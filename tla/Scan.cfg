CONSTANTS
  SEGMENT_SIZE = 2
  MAX_PROPERTY_INDEX = 2
  Base = 256
  PropSize <- MCNone
  Readable = {}
  Writable = {}
  Limit <- MCNone
  UserErrors = {}
  HEADER_LENGTH = 1
  MAX_NODE_ID = 3
  Node = {0, 2}
  FirstImage <- MCFirst
  Updates <- MCUpdates
  Faults = {"lose", "update", "foreign", "other", "late"}
  MaxFaults = 2
  MaxScans = 2
  ForeignIds <- MCForeign
SPECIFICATION FairSpec
INVARIANTS
  TypeOK
  ScanIsComplete
  RaisedForAReason
  DownloadIsPrefix
  FoundIsGenuine
PROPERTIES
  ScanReturns
CHECK_DEADLOCK FALSE
