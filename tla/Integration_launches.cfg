SPECIFICATION Spec
CONSTANTS
    Requests = {r1, r2}
    Hooks = {h1, h2}
    Faults = {"crash", "db", "kill"}
    MaxTries = 3
    MaxRecords = 2
INVARIANTS
    OneSessionPerKey
PROPERTIES
    ReviewIsFinal
    EveryHookIsToldOrNoted
    CompletedIsEvaluated
CHECK_DEADLOCK FALSE
