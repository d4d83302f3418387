SPECIFICATION Spec
CONSTANTS
  Vaults = {va, vb}
  FirstVault = va
  Items = {x, y, z}
  FirstItems = {x}
  PeerItem = z
  ImportItems = {x, y}
  None = None
  Pool = 2
  MaxClicks = 7
  MaxJobs = 1
  MaxSyncs = 1
  MaxRekeys = 1
  MaxFaults = 1
INVARIANTS
    ShowsOnlyUnlocked
    SaveGoesToItsVault
    CacheAgrees
PROPERTIES
    OnlyAskedDestroyed
    JobIsComplete
CHECK_DEADLOCK FALSE
