SPECIFICATION FairSpec
CONSTANTS
    NumRegions = 3
    MaxAttempts = 3
    LinkDuringClose = FALSE
INVARIANT TypeOK
PROPERTIES DroppedDisconnected LossHandled CloseCompletes
CHECK_DEADLOCK FALSE
