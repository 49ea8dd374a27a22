SPECIFICATION Spec
CONSTANTS
    app = app
    closer = closer
    s1 = s1
    s2 = s2
    None = None
    Callers <- BothCallers
    Streams <- OneStream
    MaxSessions = 3
INVARIANT DisconnectIsFinal
