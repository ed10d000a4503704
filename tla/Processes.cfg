\* One capture, one pipeline, one job table or one git at a time.
SPECIFICATION Spec
CONSTANTS
  Pids = {11, 12}
  Names = {1, 2}
  MaxJobs = 3
  Retained = 1
  ExitCodes = {0}
  Pipelines <- MCPipelines
  Codes = {0, 3}
  Items = 2
  Room = 1
  Plans <- MCPlans
  Limit = 2
  PipeCap = 1
  PostBytes = 1
  MemLimit = 1
  Budget = 1
  MaxWrites = 1
  GitLimit = 1
  PostExit = 1
  Chunk = 1
  MaxWritten = 2
INVARIANTS
  CaptureTruthful
  StagesReaped
  JobsAccounted
PROPERTIES
  CaptureEnds
  PipelineReturns
CHECK_DEADLOCK FALSE
