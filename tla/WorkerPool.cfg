SPECIFICATION Spec
CONSTANTS
  p1 = p1
  p2 = p2
  i1 = i1
  i2 = i2
  c1 = c1
  c2 = c2
  a = a
  b = b
  NoIssue = NoIssue
  NoCall = NoCall
  Processes = {p1, p2}
  MaxWorkers = 1
  MaxOrders = 2
  Issues = {i1, i2}
  Calls = {c1, c2}
  Projects = {a, b}
  NoProject = NoProject
  Configs <- MCConfigs
INVARIANTS TypeOK WorkersConsistent OrderOnFile
PROPERTIES SharedResultsKept
