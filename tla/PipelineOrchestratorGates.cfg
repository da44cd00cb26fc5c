SPECIFICATION Spec
CONSTANTS
  StageCount = 3
  MaxRetries = 1
  MaxRuns = 2
  Configs <- GroupOnly
  PreCompleted <- MCPreCompleted
PROPERTIES GatesHonoured
CHECK_DEADLOCK FALSE
