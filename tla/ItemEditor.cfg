SPECIFICATION ItemSpec
CONSTANTS
    Kinds = {"login", "password", "sshkey"}
    Classes = {"digits", "symbols"}
    Modes <- MCModes
    Prompts <- MCPrompts
    Keys = {"k1", "k2"}
    Locked = {"k2"}
    Hashes = {"SHA1", "SHA256"}
    Intervals = {3, 4}
    Minute = 6
    Day = 12
    MaxClicks = 8
    MaxSuspends = 1
INVARIANTS
    DialogValueFits
    StoredItemFits
    CodeIsCurrent
CHECK_DEADLOCK FALSE
