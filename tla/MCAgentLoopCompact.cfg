SPECIFICATION LoopSpec
CONSTANTS
  MaxTurns = 7
  MaxCalls = 2
  RetryCount = 1
  UnclosedLimit = 1
  MaxUnclosed = 2
  Nothing = Nothing
  Configs <- StepConfigs
  Files <- Reads
  Worklist <- WorkPaths
INVARIANT RequestsPaired
