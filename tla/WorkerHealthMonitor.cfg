SPECIFICATION Spec
CONSTANTS
  w1 = w1
  t1 = t1
  k1 = k1
  k2 = k2
  NoTask = NoTask
  Workers = {w1}
  MaxRegistrations = 1
  Checks = {k1, k2}
  Tasks = {t1}
  Threshold = 2
  CheckEvery = 2
  MaxRestarts = 2
  Cooldown = 3
  MaxStall = 2
  MaxDelay = 1
  Configs <- MCConfigs
INVARIANTS TypeOK OneRestartAtATime
PROPERTIES OnlyZombiesRestarted NoFalseZombie SilenceDetected
