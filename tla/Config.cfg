SPECIFICATION Spec
CONSTANTS
    MaxVersions = 3
    MaxStarts = 3
    MaxFaults = 1
    MaxChoices = 2
INVARIANTS
    LastChoiceKept
PROPERTIES
    WatchSeesLatest
CHECK_DEADLOCK FALSE
