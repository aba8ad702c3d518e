CONSTANTS
  CODE_LENGTH = 3
  Strange = {2}
  MaxFrames = 3
  MaxFaults = 2
SPECIFICATION Spec
INVARIANTS
  TypeOK
  OnlyTheHitAreLost
  NothingLeftBehind
PROPERTIES
  ImplementsBusAdapter
