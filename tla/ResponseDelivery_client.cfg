\* A client that is slow, cancels, is talked over, leaves or is superseded.
SPECIFICATION DeliverySpec
CONSTANTS
    MaxTurns = 2
    MaxSegments = 1
    MaxAudio = 1
    Low = 1
    High = 3
    Room = 1
    Notes = 1
INVARIANTS
    WireIsWellFormed
    GateFollowsWriter
    SettlementIsOnItsWay
PROPERTIES
    ResponsesEnd
CHECK_DEADLOCK FALSE
