CONSTANTS
  SYNC_LENGTH = 2
  Old <- MCOld
  MaxEvents = 2
  MaxFaults = 1
  MaxCalls = 1
SPECIFICATION Spec
INVARIANTS
  EndsWithTimeoutError
CHECK_DEADLOCK FALSE
