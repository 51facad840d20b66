SPECIFICATION Spec
CONSTANTS
    b1 = b1
    b2 = b2
    b3 = b3
    c1 = c1
    c2 = c2
    k1 = k1
    k2 = k2
    Dates <- OneNight
    Seeded <- OneNight
    Bookings <- OneBooking
    Cancels <- OneCancel
    Keys <- OneKey
    Facilities <- Nothing
    Catalogue <- Nothing
    FaultKinds <- NoFaults
    MaxFaults = 0
INVARIANTS
    CancelRefundsAll
CHECK_DEADLOCK FALSE
