SPECIFICATION RecoverySpec
CONSTANTS
  t1 = t1
  t2 = t2
  k1 = k1
  k2 = k2
  NoTask = NoTask
  Workers = {1, 2}
  MaxWorkers = 2
  MaxOrders = 1
  MaxRegistrations = 1
  Checks = {k1}
  Tasks = {t1}
  Threshold = 1
  CheckEvery = 1
  MaxRestarts = 1
  Cooldown = 1
  MaxStall = 1
  MaxDelay = 0
  Configs <- AllHandlers
INVARIANT RecoveredIsAvailable
PROPERTY ReassignedTaskKept
