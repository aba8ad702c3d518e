CONSTANTS
  Base = 4
  TINY = 2
  Properties <- MCProperties
  Typed <- MCTyped
  Written <- MCWritten
SPECIFICATION Spec
INVARIANTS
  TypeOK
  ValidIsEncodable
  SetIsClose
  OnlyBetweenStepsIsOutside
  WriteBackIsNeutral
