SPECIFICATION Spec
CONSTANTS
    old = old
    new = new
    SeededRooms = 2
    MaxRooms = 3
    Pics = {old, new}
    MaxPics = 1
    MaxCapacity = 2
    LastNight = 2
    Price <- MCPrice
    Slots = {q1, q2, q3}
    MaxCalls = 2
    MaxFaults = 1
    MaxMoves = 2
    Capacities = {2}
    InitialContent <- MCContent
    OtherRooms = {1}
    OtherContents <- MCOthers
SYMMETRY MCSymmetry
INVARIANTS TypeOK RoomAsSaved PageShowsItsRoom
CHECK_DEADLOCK FALSE
