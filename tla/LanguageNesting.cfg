\* The bounds of Language.cfg; one property.
SPECIFICATION LanguageSpec
CONSTANTS
  Names = {n1}
  Vals = {Empty}
  NoVal = NoVal
  Empty = Empty
  None = None
  MaxCalls = 1
CONSTRAINT Unbroken
CHECK_DEADLOCK FALSE
INVARIANT CompoundsNest
