SPECIFICATION StoreSpec
CONSTANTS
    Items = {i1, i2}
    Passwords = {p1, p2}
    MaxKeys = 3
    MaxClock = 4
    MaxFailures = 1
INVARIANTS
    PasswordChangeKeepsVault
    ReportedItemReadable
CHECK_DEADLOCK FALSE
