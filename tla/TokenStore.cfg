SPECIFICATION FairSpec
CONSTANTS
    Tabs = {t1, t2}
    Customers = {a}
    Admins = {z}
    Slots = {q1, q2}
    MaxCalls = 3
    MaxFaults = 1
INVARIANTS TypeOK NoNeedlessLogin NameIsOfToken SignedOutStaysOut
PROPERTY PagesDecide
CHECK_DEADLOCK FALSE
