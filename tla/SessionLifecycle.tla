--------------------------- MODULE SessionLifecycle ---------------------------
(***************************************************************************)
(* What the control plane promises about one session, whatever requests    *)
(* it serves on the way: the transition graph of                           *)
(* backend/app/state_machine.py, one terminal webhook, and an evaluation   *)
(* only of a session that completed.  SessionControl, the detailed         *)
(* specification, implements it until a handler puts back a copy of a row  *)
(* that has changed since it was read.                                     *)
(***************************************************************************)
EXTENDS SessionStates, Naturals

VARIABLES
    status,     \* the session's status
    hooks,      \* terminal webhooks announced, by kind
    scored      \* whether the evaluation was requested

vars == <<status, hooks, scored>>

NoHooks == [completed |-> 0, failed |-> 0]

Init ==
    /\ status = Scheduled
    /\ hooks = NoHooks
    /\ scored = FALSE

Move(to) ==
    /\ CanTransition(status, to)
    /\ status' = to
    /\ UNCHANGED <<hooks, scored>>

\* The outcome is announced once, and as what it is.
Announce ==
    /\ status \in Terminal
    /\ hooks = NoHooks
    /\ hooks' = [hooks EXCEPT ![status] = 1]
    /\ UNCHANGED <<status, scored>>

Score ==
    /\ status = Completed
    /\ scored' = TRUE
    /\ UNCHANGED <<status, hooks>>

Next ==
    \/ \E to \in Status : Move(to)
    \/ Announce
    \/ Score

Spec == Init /\ [][Next]_vars

===============================================================================
