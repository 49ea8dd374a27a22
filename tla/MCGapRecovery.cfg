SPECIFICATION Spec
CONSTANTS
    s1 = s1
    s2 = s2
    timeout = timeout
    backpressure = backpressure
    Manager = Manager
    NoEvent = NoEvent
    NoGap = NoGap
    Streams <- TwoStreams
    Reasons <- BothReasons
    MaxAttempts = 4
INVARIANTS TypeOK NoStuckGap CountAdvances
PROPERTIES EventsAlternate RecoveryIsEarned
