SPECIFICATION Spec
CONSTANTS
  k1 = k1
  k2 = k2
  c1 = c1
  Keys = {k1, k2}
  MaxWrites = 2
  MaxBatchSize = 2
  Clients = {c1}
  Configs <- MCConfigs
INVARIANTS PromisesHeld ReadYourWrites
PROPERTIES ImplementsWriteBehind WritesSettle
CHECK_DEADLOCK FALSE
