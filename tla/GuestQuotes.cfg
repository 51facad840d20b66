SPECIFICATION Spec
CONSTANTS
    SeededRooms = 2
    MaxRooms = 2
    Pics = {}
    MaxPics = 0
    MaxCapacity = 2
    LastNight = 2
    Price <- MCPrice
    Slots = {q1, q2}
    MaxCalls = 2
    MaxFaults = 1
    MaxMoves = 2
    MaxOthers = 1
    OtherRooms = {2}
    InitialContent <- MCContent
    OtherContents <- MCOthers
    Earlier <- MCEarlier
    Searches <- MCSearches
SYMMETRY MCSymmetry
INVARIANTS QuoteIsCharge BookedRoomFits
CHECK_DEADLOCK FALSE
