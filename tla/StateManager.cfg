SPECIFICATION Spec
CONSTANTS
  c1 = c1
  c2 = c2
  Clients = {c1, c2}
  Free = Free
  Stale = Stale
  InitialStates = {"srs_approved"}
  OverrideTargets = {"merged"}
  MaxCheckpoints = 1
  MaxAudit = 2
  MaxCalls = 2
  Roles <- MCRoles
INVARIANTS TypeOK HoldersGoOn
PROPERTIES UpdatesKept ChangesCounted RecoveryTraceable LocksReleased
CHECK_DEADLOCK FALSE
