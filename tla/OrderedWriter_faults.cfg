SPECIFICATION FairSpec
CONSTANTS
    Count = 5
    Ends <- MCEnds
    Low = 0
    High = 2
    Hard = 4
    MaxAge = 2
    Faults = {"throw", "error", "observer", "silent", "closed"}
INVARIANTS
    ResidentBounded
    FlowTracksResidency
PROPERTIES
    ImplementsDelivery
    EveryFrameSettled
CHECK_DEADLOCK FALSE
