SPECIFICATION LiveSpec
CONSTANTS
    Conns = {c1, c2, c3}
    None = None
    CoreFaults = {"hang", "reject"}
INVARIANTS
    LiveCoreIsOwned
PROPERTIES
    EveryRequestDecided
CHECK_DEADLOCK FALSE
