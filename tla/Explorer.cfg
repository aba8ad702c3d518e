CONSTANTS
  d1 = d1
  Device = {d1}
  NumProps = 2
  Home <- MCHome
  Value = {0, 1}
  Default = 0
  None = None
  Misfit = Misfit
  MaxClicks = 4
  Session <- MCSession
  AtOnce = 2
  Typed <- MCTyped
SPECIFICATION FairSpec
INVARIANTS
  TypeOK
  ScansDoNotOverlap
  CursorComesBack
  TableIsCurrent
PROPERTIES
  ButtonsComeBack
CHECK_DEADLOCK FALSE
