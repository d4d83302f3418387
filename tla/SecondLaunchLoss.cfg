SPECIFICATION CalmSpec
CONSTANTS
    VaultFile = 2
    Contents = {a, b}
    Absent = Absent
    MaxFaults = 0
    FaultsBeside = FALSE
    WritesBeside = FALSE
INVARIANT LaunchLosesNothing
