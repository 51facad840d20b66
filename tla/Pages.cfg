SPECIFICATION Spec
CONSTANTS
    Resv = {r1}
    Slots = {q1, q2}
    MaxVisits = 4
    MaxFaults = 1
INVARIANTS TypeOK NoRepeatedWrite ChargedTwiceOnlyAstray ShownReservedIsPaid BesideIsFound
PROPERTY PagesSettle
CHECK_DEADLOCK FALSE
