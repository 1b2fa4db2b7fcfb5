SPECIFICATION FairSpec
CONSTANTS
    Workers = {w1}
    Faults = {"abort", "lost", "restart"}
    JoinExpire = 1
    MaxDuration = 1
    MaxClock = 3
    MaxConnects = 1
PROPERTIES
    StartPrecedesCompletion
    EventuallyOver
CHECK_DEADLOCK FALSE
