SPECIFICATION Spec
CONSTANTS
  c1 = c1
  c2 = c2
  c3 = c3
  Callers = {c1, c2, c3}
  FailureThreshold = 2
  ResetTimeout = 2
  HalfOpenMaxAttempts = 2
  MaxAttempts = 2
  Configs <- MCConfigs
INVARIANT HalfOpenNeverWedged
PROPERTIES Recovers AcceptsAgain
