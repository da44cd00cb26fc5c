SPECIFICATION Spec
CONSTANTS
  StageCount = 3
  MaxRetries = 1
  MaxRuns = 2
  Configs <- MCConfigs
  PreCompleted <- MCPreCompleted
INVARIANTS TypeOK FilesTruthful EveryStageAccounted
PROPERTIES ImplementsStageGraph ResultsOnce AbortStops EveryStepCounts RunsEnd
CHECK_DEADLOCK FALSE
