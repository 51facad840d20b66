SPECIFICATION FairSpec
CONSTANTS
    u1 = u1
    w1 = w1
    w2 = w2
    Users <- MCUsers
    Widgets <- MCWidgets
    Owner <- MCOwner
    MaxCalls = 2
    MaxTries = 2
    Limit = 2
INVARIANTS TypeOK StoredOncePerSend AnswersFollowQuestions ContextHasQuestion
PROPERTY WidgetIsAnswered
CHECK_DEADLOCK FALSE
