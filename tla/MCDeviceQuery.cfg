SPECIFICATION Spec
CONSTANTS
    RequestBodyMax = 3
    PartSize = 2
    RequestObjectMax = 5
    MultipartRequestObjectMax = 7
    StatusPollTimeMin = 1
    StatusPollTimeMax = 5
    BodyMax = 9
CHECK_DEADLOCK FALSE
INVARIANTS QueryTypeOK WholeBodySent NoOrphanUpload
PROPERTIES QueryReturns
