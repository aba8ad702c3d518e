CONSTANTS
  SEGMENT_SIZE = 2
  MAX_PROPERTY_INDEX = 255
  Base = 2
  PropSize <- MCPropSize
  Readable <- MCReadable
  Writable <- MCWritable
  Limit <- MCLimit
  UserErrors <- MCErrors
  Node = 5
  Manifest <- MCManifest
  InitVals <- MCInitVals
  Ids <- MCIds
  Payloads <- MCPayloads
SPECIFICATION Spec
INVARIANTS
  TypeOK
  AnsweredInsideTheTable
PROPERTIES
  ImplementsContract
