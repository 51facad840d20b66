SPECIFICATION Spec
CONSTANTS
    b1 = b1
    b2 = b2
    b3 = b3
    c1 = c1
    c2 = c2
    k1 = k1
    k2 = k2
    Dates <- ThreeNights
    Seeded <- ThreeNights
    Bookings <- TwoBookings
    Cancels <- TwoCancels
    Keys <- Nothing
    Facilities <- PoolAndLounge
    Catalogue <- Pool
    FaultKinds <- EveryFault
    MaxFaults = 2
SYMMETRY SameRequests
INVARIANTS
    NightsSoldOnce
    TakenNightsAreAccounted
CHECK_DEADLOCK FALSE
