SPECIFICATION Spec
CONSTANTS
  Upper <- MCUpper
  Number <- MCNumber
  Huge <- MCHuge
  Source <- MCSource
  Names <- MCNames
  Frames <- MCFrames
  SEGMENT_SIZE = 8
  MAX_PROPERTY_INDEX = 2
  COUNT_VALUES = 3
  Accepts <- MCAccepts
  RawOf <- MCRawOf
  Decodes <- MCDecodes
  Ids = {1, 2}
  Values = {1, 300}
  MaxRuns = 3
INVARIANTS
  TypeOK
  FilesAgree
  ClientSeesTheTable
  PrintedIsTrue
  SucceedsExactlyWhenPermitted
  ServerAnswers
