SPECIFICATION Spec
CONSTANTS
  x = x
  y = y
  Struct <- Types
  Decoration <- Various
  MaxDecorated = 2
  Object = {x, y}
  ClassOf <- Classes
  Module <- Modules
  Prefix <- Versions
  MaxSetup = 1
  Late = FALSE
INVARIANTS RoutesServed AnswerFits DocumentFits RefsResolve
CHECK_DEADLOCK FALSE
