\* The fold of one variable, one name, one option, two directories and two
\* values; three shells journaling; one interception, one line edited, one file
\* patched or the traces of two shells.
SPECIFICATION SessionSpec
CONSTANTS
  Keys = {k1}
  Names = {n1}
  Opts = {o1}
  Dirs = {d1, d2}
  Vals = {v1, v2}
  NoVal = NoVal
  NoEntry = NoEntry
  Removed = Removed
  MaxEdits = 3
  Shells = {a, b, c}
  None = None
  FileCap = 1
  MaxLive = 2
  MaxLines = 2
  MaxIncidents = 1
  Procs = {1, 2}
  Diffs <- PatchDiffs
  First <- PatchFirst
  Saves <- PatchSaves
  Retries = 2
  MaxIds = 2
  MaxFaults = 1
  Commands = {"ls"}
  MaxShims = 2
  TraceShells = {t1, t2}
  Kept = 1
  MaxRaw = 1
  TraceCap = 2
  ByteCap = 3
  OldFiles = 1
  RingCap = 1
  Chunk <- Most
  MaxWrites <- Most
  MaxCommands = 2
  MaxTraceFaults = 1
INVARIANTS
  StateRestored
  FirstBoundaryExact
  WorkSurvives
  EditorKeepsText
  PatchWhole
  TraceTruthful
PROPERTIES
  InterceptionUndone
CHECK_DEADLOCK FALSE
