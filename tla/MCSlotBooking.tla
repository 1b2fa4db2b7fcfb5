---------------------------- MODULE MCSlotBooking ----------------------------
(* TLC instance of SlotBooking: requests of two or three candidates.        *)
EXTENDS SlotBooking, TLC

CONSTANTS ann, bob, cat, r1, r2, r3, r4, r5

MCOwner ==
    [r \in Requests |-> IF r \in {r1, r2, r5} THEN ann
                        ELSE IF r = r4 /\ cat \in Candidates THEN cat
                        ELSE bob]

\* What follows the end of calm is not explored: SlotsMatchSessions says
\* nothing of it, and calm never returns.
WhileCalm == calm

Symmetry == Permutations(Slots) \cup Permutations(Reports)
=============================================================================
