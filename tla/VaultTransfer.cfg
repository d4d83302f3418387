SPECIFICATION Spec2
CONSTANTS
    VaultFile = 2
    Contents = {a, b}
    Absent = Absent
    MaxFaults = 1
    FaultsBeside = FALSE
    WritesBeside = FALSE
INVARIANTS
    TypeOK
    SettledVaultIsWhole
    NothingIsLost
    CommitIsExact
    NoBackupLeftBehind
PROPERTIES
    ReceiveReturns
