SPECIFICATION Spec
CONSTANTS
    VaultFile = 2
    Contents = {a, b}
    Absent = Absent
    MaxFaults = 0
INVARIANT DiscardsOnlySpareBackup
