CONSTANTS
  SYNC_LENGTH = 2
  Old <- MCOld
  MaxEvents = 2
  MaxFaults = 2
  MaxCalls = 2
SPECIFICATION FairSpec
INVARIANTS
  TypeOK
  DiesForAReason
PROPERTIES
  FramesArrive
  CallReturns
  ImplementsBusAdapter
CHECK_DEADLOCK FALSE
