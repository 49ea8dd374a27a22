SPECIFICATION FairSpec
CONSTANTS
    c1 = c1
    c2 = c2
    s1 = s1
    s2 = s2
    None = None
    Done = Done
    Clients <- OneClient
    Streams <- OneStream
    DeleteFails = FALSE
    OpenStalls = FALSE
PROPERTIES LossReported DisconnectReturns UnsubscribeCompletes ImplementsContractFairly
