SPECIFICATION FairSpec
CONSTANTS
  None = None
  Tasks <- MCTasks
  Daily = {"daily"}
  IncludeDaily = TRUE
  MaxFastTasks = 1
  ParallelTasks = {1, 2}
  LogSize = 2
  Forecast <- MCForecast
  MaxAttempts = 3
  MaxFaults = 1
  Packs <- MCPacks
  Answers <- MCAnswers
  Strong <- MCStrong
INVARIANTS
  LogIsTrue
  LogIsComplete
  ForecastIsNeutral
  AggressionFollowsEvidence
PROPERTIES
  CommittedIsRevealed
CHECK_DEADLOCK FALSE
