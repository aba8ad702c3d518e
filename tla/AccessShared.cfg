CONSTANTS
  SEGMENT_SIZE = 8
  MAX_PROPERTY_INDEX = 255
  Base = 2
  PropSize <- MCPropSize
  Readable = {1, 2, 3}
  Writable = {1, 2}
  Limit <- MCLimit
  UserErrors = {}
  Client = {c1, c2}
  Node = {1}
  InitVals <- MCInitVals
  Calls <- MCFewCalls
  MaxCalls = 2
  Changing = {2}
  Faults = {"lose", "restart", "foreign", "late"}
  MaxFaults = 1
  ForeignIds <- MCForeign
SPECIFICATION FairSpec
INVARIANTS
  QueriesSucceed
PROPERTIES
  EveryCallReturns
CHECK_DEADLOCK FALSE
