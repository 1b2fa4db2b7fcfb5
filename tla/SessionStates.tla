----------------------------- MODULE SessionStates -----------------------------
(***************************************************************************)
(* The session statuses and the table of legal transitions of              *)
(* backend/app/state_machine.py.                                           *)
(***************************************************************************)

Scheduled == "scheduled"
InProgress == "in_progress"
Completed == "completed"
Failed == "failed"

Status == {Scheduled, InProgress, Completed, Failed}
Terminal == {Completed, Failed}
Active == {Scheduled, InProgress}

\* _TRANSITIONS: the statuses a session may take next.
Transitions == [scheduled |-> {InProgress, Failed},
                in_progress |-> {Completed, Failed},
                completed |-> {},
                failed |-> {}]

CanTransition(from, to) == to \in Transitions[from]

===============================================================================
