SPECIFICATION FairSpec
CONSTANTS
    Names = {v1, v2}
    Entries <- MCEntries
    Starts <- MCStarts
    MaxFaults = 1
    NoEntry = NoEntry
    NoSum = NoSum
    NoPrint = NoPrint
    NoVault = NoVault
    c1 = c1
    c2 = c2
    f1 = f1
    f2 = f2
INVARIANTS
    HonestPlanAccepted
    RekeyedVaultStays
    SecondSyncIsIdle
    VaultsNotMixed
    CatalogueBackedByFiles
    NoMutualWait
PROPERTIES
    SessionEnds
