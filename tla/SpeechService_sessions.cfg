\* Two sessions that share the recogniser.
SPECIFICATION Spec
CONSTANTS
    Connections = 2
    Slots = 2
    FailClosed = TRUE
    MaxRequests = 3
    MaxSentences = 2
    MaxChunks = 1
INVARIANTS
    CancelIsFence
    SentencesEndOnce
PROPERTIES
    NoJobBehindAbandoned
    SlotsComeBack
CHECK_DEADLOCK FALSE
