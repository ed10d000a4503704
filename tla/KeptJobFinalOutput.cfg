\* Is all of the job's output pumped before the exit is published?
SPECIFICATION Spec
CONSTANTS
  Conns = {c1}
  NoConn = NoConn
  MaxWritten = 1
  MaxInput = 0
  PtyCap = 1
  PtyInCap = 1
  ChunkCap = 2
  ScrollbackCap = 2
  LogRotate = 2
  MaxGen = 1
  Replays = {2}
  LogMayFail = FALSE
CHECK_DEADLOCK FALSE
INVARIANTS
  FinalOutputDrained
