\* Every command and compound, three graphs deep.
SPECIFICATION FairSpec
CONSTANTS
  MaxExecDepth = 3
  MaxItems = 1
  MaxScopes = 2
  Vocabularies <- AllPrograms
INVARIANTS
  CountersMatch
  BreakExact
  PromptClean
PROPERTIES
  InterruptEndsLine
CHECK_DEADLOCK FALSE
