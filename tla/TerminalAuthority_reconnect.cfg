SPECIFICATION LiveSpec
CONSTANTS
    Conns = {c1, c2, c3}
    Sdk = {c3}
    None = None
    MaxReady = 2
    Violations = 2
    Insisting = 2
INVARIANTS
    EndIsFinal
    LiveIsReachable
    EndedSessionsReport
PROPERTIES
    EndsConclude
CHECK_DEADLOCK FALSE
