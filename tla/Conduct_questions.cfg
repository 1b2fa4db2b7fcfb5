\* Two questions; the second counted silence, chatter or abuse ends the session.
SPECIFICATION ConductSpec
CONSTANTS
    Questions = 2
    WarnMax = 1
    SevereMax = 2
    ChatterTurns = 2
    VoicedStallMax = 2
INVARIANTS
    ForcedEndIsFinal
    GuardFollowsTurn
PROPERTIES
    CountsHaveEvidence
CHECK_DEADLOCK FALSE
