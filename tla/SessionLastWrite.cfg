\* Does a restored variable have the value of its last write?
SPECIFICATION Spec
CONSTANTS
  Keys = {k1}
  Names = {n1}
  Opts = {o1}
  Dirs = {d1}
  Vals = {v1, v2}
  NoVal = NoVal
  NoEntry = NoEntry
  Removed = Removed
  MaxEdits = 3
INVARIANTS LastWriteWins
CHECK_DEADLOCK FALSE
