\* Progress with clients whose input the job may never read, a takeover, and
\* processes that may write without end.
SPECIFICATION LiveSpec
CONSTANTS
  Conns = {c1, c2}
  NoConn = NoConn
  MaxWritten = 1
  MaxInput = 1
  PtyCap = 1
  PtyInCap = 1
  ChunkCap = 2
  ScrollbackCap = 1
  LogRotate = 2
  MaxGen = 2
  Replays = {1}
  LogMayFail = FALSE
CHECK_DEADLOCK FALSE
PROPERTIES
  PumpProgress
