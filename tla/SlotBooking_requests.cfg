SPECIFICATION Spec
CONSTANTS
    ann = ann
    bob = bob
    cat = cat
    r1 = r1
    r2 = r2
    r3 = r3
    r4 = r4
    r5 = r5
    None = None
    Absent = Absent
    Candidates = {ann, bob}
    Slots = {s1, s2}
    Requests = {r1, r2, r3, r4}
    Owner <- MCOwner
    Reports = {w1, w2}
    Overlap = TRUE
    Faults = {"put", "meta", "cancel_put", "release"}
CONSTRAINT WhileCalm
SYMMETRY Symmetry
INVARIANTS
    SlotsMatchSessions
CHECK_DEADLOCK FALSE
