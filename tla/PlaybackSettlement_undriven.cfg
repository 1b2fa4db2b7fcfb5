SPECIFICATION FairSpec
CONSTANTS
    Turns = {t1, t2}
    Grace = 1
    MaxWait = 3
    InputGrace = 1
    MaxLead = 2
    Driven = FALSE
    MaxClock = 4
PROPERTIES
    EndedTurnsSettle
CHECK_DEADLOCK FALSE
