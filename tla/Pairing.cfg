SPECIFICATION Spec
CONSTANTS
    Devices = {d1, d2}
    MaxPairings = 2
    MaxFaults = 2
    MaxEvents = 4
INVARIANTS
    TrustIsEarned
    TrustFollowsTheUser
PROPERTIES
    ListHeals
    PairingEnds
CHECK_DEADLOCK FALSE
