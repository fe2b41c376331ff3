CONSTANTS
  MaxTurns = 7
  MaxCalls = 2
  RetryCount = 1
  UnclosedLimit = 1
  MaxUnclosed = 2
  Nothing = Nothing
  Configs <- StepConfigs
  Files <- Reads
  Worklist <- WorkPaths
  MaxForeign = 2
  PipeFrames = 1
  MaxRefusals = 1
  MaxRequests = 2
  MaxFrames = 2
  MaxSessions = 2
SPECIFICATION MCSpec
INVARIANTS LoopSound AnswersTheCall FileToolsSafe
PROPERTIES ContextKept
