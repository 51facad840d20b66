SPECIFICATION Spec
CONSTANTS
    s1 = s1
    s2 = s2
    w1 = w1
    w2 = w2
    Slots <- TwoSlots
    Browsers <- TwoBrowsers
    MaxUsers = 2
    MaxTime = 2
    RefreshTTL = 2
    GraceTTL = 1
    AbsoluteMax = 1
    MaxCalls = 4
    MaxFaults = 1
SYMMETRY SameParties
INVARIANTS
    TypeOK
    AbsoluteLimit
    EndedSessionStaysEnded
    WithdrawnStaysOut
CHECK_DEADLOCK FALSE
