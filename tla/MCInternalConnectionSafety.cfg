SPECIFICATION Spec
CONSTANTS
    c1 = c1
    c2 = c2
    s1 = s1
    s2 = s2
    None = None
    Done = Done
    Clients <- OneClient
    Streams <- TwoStreams
    DeleteFails = TRUE
    OpenStalls = FALSE
INVARIANTS TypeOK NoCallbackAfterUnsubscribe JoinImpliesClosed NoCircularWait
PROPERTY ImplementsContract
SYMMETRY StreamSymmetry
CHECK_DEADLOCK FALSE
