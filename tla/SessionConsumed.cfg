\* Is a restored session ever offered again?
SPECIFICATION JournalSpec
CONSTANTS
  Shells = {a, b, c}
  FileCap = 1
  MaxLive = 2
  MaxLines = 3
  MaxIncidents = 1
  None = None
INVARIANTS ConsumedNotOffered
CHECK_DEADLOCK FALSE
