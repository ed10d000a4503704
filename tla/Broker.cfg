\* Two jobs whose records are pruned at once, two clients and one pending exit
\* kept; or three jobs of two spawners; or three daemons, three job ids and an
\* orphan window of one job; or one job that writes two bytes while two connections
\* race over it, or four to a log rotated after two, whose operations may fail.
SPECIFICATION MCSpec
CONSTANTS
  MaxJobs = 3
  Spawners = {11, 12}
  Clients = {c1, c2}
  NoClient = NoClient
  FinishedCap = 0
  MaxRunning = 2
  PendingCap = 1
  UnlinkMayFail = TRUE
  Daemons = {1, 2, 3}
  NoDaemon = 0
  MaxId = 3
  OrphanJobs = 1
  OrphanFiles = 2
  Conns = {c1, c2}
  NoConn = NoClient
  MaxWritten = 4
  MaxInput = 1
  PtyCap = 2
  PtyInCap = 1
  ChunkCap = 2
  ScrollbackCap = 2
  LogRotate = 2
  MaxGen = 2
  Replays = {2}
  LogMayFail = TRUE
SYMMETRY ClientSymmetry
CHECK_DEADLOCK FALSE
INVARIANTS
  ExitLearned
  GenerationsApart
  TableOwned
  StreamContiguous
  PidOpsTargetUnreapedChild
  AttachmentTruthful
  LogKept
PROPERTY ImplementsContract
