SPECIFICATION InputSpec
CONSTANTS
    MaxAppends = 3
    MaxCommits = 2
    MaxClears = 1
    MaxFlushes = 1
    MaxRefusals = 1
    Limit = 2
INVARIANTS
    NothingIsStray
PROPERTIES
    ConversationIsOrdered
    RequestsSettle
CHECK_DEADLOCK FALSE
