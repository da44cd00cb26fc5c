SPECIFICATION SafeSpec
CONSTANTS
  a = a
  b = b
  c = c
  NoClient = NoClient
  Clients = {a, b, c}
  MaxCrashes = 1
  MaxGeneration = 2
  Configs <- StealConfigs
INVARIANT StealExclusive
