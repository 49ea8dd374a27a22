SPECIFICATION FairSpec
CONSTANTS
    c1 = c1
    c2 = c2
    s1 = s1
    s2 = s2
    None = None
    Done = Done
    Clients <- OneClient
    Streams <- OneStream
    DeleteFails = TRUE
    OpenStalls = FALSE
PROPERTY LossReported
CHECK_DEADLOCK FALSE
