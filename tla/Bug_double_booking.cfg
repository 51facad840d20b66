SPECIFICATION Spec
CONSTANTS
    b1 = b1
    b2 = b2
    b3 = b3
    c1 = c1
    c2 = c2
    k1 = k1
    k2 = k2
    Dates <- OneNight
    Seeded <- OneNight
    Bookings <- ThreeBookings
    Cancels <- TwoCancels
    Keys <- Nothing
    Facilities <- Nothing
    Catalogue <- Nothing
    FaultKinds <- NoFaults
    MaxFaults = 0
INVARIANTS
    NoDoubleBooking
CHECK_DEADLOCK FALSE
