SPECIFICATION Spec
CONSTANTS
  Instances = {i1, i2}
  Clients = {p, q}
  Vaults = {v1, v2}
  FirstVault = v1
  SSHItems = {k1, k2}
  None = None
  MaxSessions = 2
  MaxCommands = 4
  MaxKeyCommands = 2
  MaxFaults = 1
INVARIANTS
    LockHolds
    SessionsSurvive
    KeysFollowTheCommand
SYMMETRY Symmetry
CHECK_DEADLOCK FALSE
