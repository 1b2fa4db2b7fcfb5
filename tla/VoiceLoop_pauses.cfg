SPECIFICATION LoopSpec
CONSTANTS
    MaxTurns = 2
    Preroll = 3
    Capacity = 3
    MaxSentences = 2
    Chunks = 2
    MaxPauses = 2
    Lag = 1
INVARIANTS
    AckIsHeard
    FrozenIsPaused
    EndedIsReported
PROPERTIES
    NothingAfterReport
    VerdictKeepsToItsPause
CHECK_DEADLOCK FALSE
