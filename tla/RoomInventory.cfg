SPECIFICATION FairSpec
CONSTANTS
    r1 = r1
    r2 = r2
    Dates <- FourDays
    Seeded <- SeededOfFour
    Requests <- TwoCalls
INVARIANTS
    TypeOK
    LockedReadsAreCurrent
    NoWaitCycle
PROPERTIES
    GrantTakesFreeNights
    RefusalIsJustified
    ImplementsLedger
    EveryCallEnds
CHECK_DEADLOCK FALSE
