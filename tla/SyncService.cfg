SPECIFICATION Spec
CONSTANTS
    MaxServices = 2
    Sessions = {1, 2}
    MaxFaults = 1
    MaxRestarts = 1
INVARIANTS
    OneHostAtATime
    StopLeavesNothing
    LockedWhileReceiving
    VaultIsOneCopy
PROPERTIES
    StopReturns
CHECK_DEADLOCK FALSE
