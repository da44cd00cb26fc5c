SPECIFICATION Spec
CONSTANTS
  w1 = w1
  w2 = w2
  k1 = k1
  k2 = k2
  Workers = {w1, w2}
  Checks = {k1, k2}
  Warning = 1
  Stuck = 2
  Critical = 3
  MaxAttempts = 2
  MaxLag = 1
  Configs <- MCConfigs
INVARIANT HandedOverExhausted
PROPERTIES HungHandedOver
