--------------------------- MODULE OrderedDelivery ---------------------------
(****************************************************************************)
(* What a Realtime connection may rely on when it hands frames to the       *)
(* serialized writer: frames reach the socket in the order they were given, *)
(* the connection breaks at most once, and breaking it fails every frame    *)
(* not yet delivered and every later one.  OrderedWriter implements this.   *)
(****************************************************************************)
EXTENDS Naturals

CONSTANT Count      \* how many frames the connection ever gives

Frames == 1..Count
Outcomes == {"new", "pending", "delivered", "failed"}

VARIABLES
    outcome,        \* [Frames -> Outcomes]
    broken          \* the connection failed

vars == <<outcome, broken>>

Init ==
    /\ outcome = [f \in Frames |-> "new"]
    /\ broken = FALSE

\* Frames are given in the order of their numbers.
NextToGive(f) ==
    /\ outcome[f] = "new"
    /\ \A g \in 1..(f - 1) : outcome[g] # "new"

FirstPending(f) ==
    /\ outcome[f] = "pending"
    /\ \A g \in 1..(f - 1) : outcome[g] # "pending"

Give(f) ==
    /\ NextToGive(f)
    /\ outcome' = [outcome EXCEPT ![f] = IF broken THEN "failed" ELSE "pending"]
    /\ UNCHANGED broken

Deliver(f) ==
    /\ ~broken
    /\ FirstPending(f)
    /\ outcome' = [outcome EXCEPT ![f] = "delivered"]
    /\ UNCHANGED broken

FailPending(o) == [f \in Frames |-> IF o[f] = "pending" THEN "failed" ELSE o[f]]

Break ==
    /\ ~broken
    /\ broken' = TRUE
    /\ outcome' = FailPending(outcome)

\* The frame that overruns the connection is given and fails with the others.
GiveAndBreak(f) ==
    /\ ~broken
    /\ NextToGive(f)
    /\ broken' = TRUE
    /\ outcome' = FailPending([outcome EXCEPT ![f] = "pending"])

Next ==
    \/ \E f \in Frames : Give(f) \/ Deliver(f) \/ GiveAndBreak(f)
    \/ Break

Spec == Init /\ [][Next]_vars
=============================================================================
