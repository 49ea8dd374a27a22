SPECIFICATION PublishSpec
CONSTANTS
    m1 = m1
    m2 = m2
    Ids <- Messages
    Async <- AsyncMessages
    WriterCap = 1
    ExpireDuration = 1
    MaxTime = 3
    Never = Never
CHECK_DEADLOCK FALSE
INVARIANTS CalledOnce PublishTypeOK
PROPERTIES ImplementsContract OnlyEarlyAnswersLost
