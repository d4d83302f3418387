SPECIFICATION Spec
CONSTANTS
    A = A
    B = B
    Modes = {TRUE, FALSE}
    MaxClock = 7
    MaxSwitches = 2
    NoVault = NoVault
    NoEntry = NoEntry
SYMMETRY Swaps
INVARIANTS
    NoSilentDivergence
    
    SessionConverges
