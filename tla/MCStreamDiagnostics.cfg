SPECIFICATION Spec
CONSTANTS
    Threshold = 1
    MaxTime = 1
    MaxMessages = 2
    MaxSubscribes = 1
    MaxRenewals = 1
CHECK_DEADLOCK FALSE
INVARIANTS DiagnosticsTypeOK StatsTruthful ReportsFounded SummariesComplete
PROPERTY DisconnectEnds
