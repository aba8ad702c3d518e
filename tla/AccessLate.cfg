CONSTANTS
  SEGMENT_SIZE = 8
  MAX_PROPERTY_INDEX = 255
  Base = 2
  PropSize <- MCPropSize
  Readable = {1, 2, 3}
  Writable = {1, 2, 3}
  Limit <- MCLimit
  UserErrors <- MCErrors
  Client = {c1}
  Node = {1, 2}
  InitVals <- MCInitVals
  Calls <- MCCalls
  MaxCalls = 3
  Changing = {2}
  Faults = {"late"}
  MaxFaults = 1
  ForeignIds <- MCForeign
SPECIFICATION Spec
INVARIANTS
  AnswerIsToTheRequest
CHECK_DEADLOCK FALSE
