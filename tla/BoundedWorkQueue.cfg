SPECIFICATION Spec
CONSTANTS
  t1 = t1
  t2 = t2
  t3 = t3
  t4 = t4
  c1 = c1
  c2 = c2
  k1 = k1
  NoTask = NoTask
  Tasks <- MCTasks
  Priorities = {1, 2}
  Callers <- MCCallers
  Consumers <- MCConsumers
  MaxSize = 2
  SoftLimit = 2
  BackpressureAt = 1
  Configs <- MCConfigs
  MaxDeadLetterSize = 1
  EntryBytes = 1
  DeadLetterBytes = 2
  MaxMemoryBytes = 5
INVARIANTS OvershootBounded DeadLetterBounded SoftLimitWarned
SYMMETRY Symmetry
