CONSTANTS
  SEGMENT_SIZE = 8
  MAX_PROPERTY_INDEX = 255
  Base = 2
  PropSize <- MCPropSize
  Readable = {1, 2, 3}
  Writable = {1, 2, 3}
  Limit <- MCLimit
  UserErrors <- MCErrors
  Client = {c1}
  Node = {1, 2}
  InitVals <- MCInitVals
  Calls <- MCCalls
  MaxCalls = 2
  Changing = {2}
  Faults = {"lose", "restart", "foreign", "late"}
  MaxFaults = 2
  ForeignIds <- MCForeign
SPECIFICATION Spec
INVARIANTS
  TypeOK
  AnswersAreCurrent
  AnswerFromTheNode
PROPERTIES
  WriteIsInEffect
CHECK_DEADLOCK FALSE
