SPECIFICATION Spec
CONSTANTS
  a = a
  b = b
  c = c
  NoClient = NoClient
  Clients = {a, b, c}
  MaxCrashes = 1
  MaxGeneration = 1
  Configs <- MCConfigs
INVARIANT TypeOK
PROPERTIES ImplementsMutex AbandonedLockTaken
