----------------------------- MODULE SlotBooking -----------------------------
(****************************************************************************)
(* Candidates book, move and cancel interview slots                         *)
(* (backend/app/candidate_service.py, with claim_slot and release_slot of   *)
(* db.py), from the pool HR fills, with the link HR issues to each          *)
(* (routers/candidate.py).  There is no transaction: a request is a         *)
(* sequence of database calls, other requests run between any two of them,  *)
(* and a call may fail.                                                     *)
(*                                                                          *)
(* The session a booking creates is named by the request that books it.     *)
(* A request refused by its first checks changes nothing and is left out,   *)
(* and so is the use of a link that has expired;                            *)
(* the edit lock before a slot's start is left open.  The reads a request   *)
(* starts with (_find_booking, get_slot) are one step: only the snapshot of *)
(* the session row they leave, which later calls write back, matters.  A    *)
(* put that raises and lands goes on like one whose meta row fails next.    *)
(*                                                                          *)
(* The interview itself, the scheduler and the staff work on the same rows: *)
(* each reads a row and puts it back whole (session_service.py, scheduler.py,*)
(* routers/sessions.py).  None of them releases a slot.                     *)
(****************************************************************************)
EXTENDS Naturals

CONSTANTS
    Candidates, Slots,
    Requests,       \* the requests candidates make
    Owner,          \* the candidate that makes each request
    Reports,        \* what else works on the session rows at a time
    Overlap,        \* a candidate may send a request while another one runs
    Faults,         \* subset of {"put", "meta", "cancel_put", "release"}
    None, Absent    \* a slot claimed by nobody, and one that is not in the pool

ASSUME SlotAssumption ==
    /\ Owner \in [Requests -> Candidates]
    /\ Overlap \in BOOLEAN
    /\ Faults \subseteq {"put", "meta", "cancel_put", "release"}
    /\ {None, Absent} \cap (Slots \cup Requests) = {} /\ None # Absent

VARIABLES
    slot,           \* the session each slot is claimed for
    linked,         \* the candidates that were issued a link
    rows,           \* the session row each booking created, None when absent
    req,            \* the requests: what runs next and what they read
    report,         \* the row each report read, with the status it will put
    calm            \* history: nothing happened yet that the code cannot repair

vars == <<slot, linked, rows, req, report, calm>>

\* "cancelled" is the failed of a session its candidate cancelled.
Statuses == {"scheduled", "in_progress", "completed", "failed", "cancelled"}
Row == [status : Statuses, slot : Slots]
NoRow == [status |-> "none", slot |-> None]
Report == [booking : Requests, row : Row]
NoReport == [booking |-> None, row |-> NoRow]

Resting == {"idle", "done", "error"}
Pcs == Resting \cup {"book_claim", "book_put", "book_meta",
                     "move_claim", "move_put", "move_meta", "move_release",
                     "cancel_release", "cancel_put"}

\* booking: the session worked on; old: the slot of the row read for it;
\* new: the slot asked for.
Request == [pc : Pcs, booking : Requests \cup {None},
            old : Slots \cup {None}, new : Slots \cup {None}]

Ended(r) == req[r].pc \in Resting

MayStart(r) ==
    /\ req[r].pc = "idle" /\ Owner[r] \in linked
    /\ Overlap \/ \A q \in Requests : Owner[q] = Owner[r] => Ended(q)

\* A candidate whose other request still runs stirs: the code does not order them.
Stirs(r) == calm' = (calm /\ \A q \in Requests : Owner[q] = Owner[r] => Ended(q))

Goes(r, pc) == req' = [req EXCEPT ![r].pc = pc]

Init ==
    /\ slot = [s \in Slots |-> Absent] /\ linked = {}
    /\ rows = [b \in Requests |-> NoRow]
    /\ req = [r \in Requests |-> [pc |-> "idle", booking |-> None, old |-> None, new |-> None]]
    /\ report = [w \in Reports |-> NoReport]
    /\ calm = TRUE

----------------------------------------------------------------------------
(* HR *)

\* add_slot()
AddSlot(s) ==
    /\ slot[s] = Absent
    /\ slot' = [slot EXCEPT ![s] = None]
    /\ UNCHANGED <<linked, rows, req, report, calm>>

\* issue_link(): not before there is a slot to choose.
IssueLink(c) ==
    /\ \E s \in Slots : slot[s] # Absent
    /\ linked' = linked \cup {c}
    /\ UNCHANGED <<slot, rows, req, report, calm>>

----------------------------------------------------------------------------
(* The slot table (db.py) *)

\* claim_slot() that succeeds.
Claim(s, b) ==
    /\ slot[s] = None
    /\ slot' = [slot EXCEPT ![s] = b]

\* release_slot(): whoever holds the slot; an error of the database is
\* swallowed like an absent slot.
Opens(s) ==
    \/ slot' = [slot EXCEPT ![s] = None]
    \/ "release" \in Faults /\ UNCHANGED slot

Release(s) == Opens(s) /\ calm' = (calm /\ slot'[s] = None)

----------------------------------------------------------------------------
(* book() *)

BookStart(r, s) ==
    /\ MayStart(r)
    /\ slot[s] = None
    /\ req' = [req EXCEPT ![r] = [pc |-> "book_claim", booking |-> r, old |-> None, new |-> s]]
    /\ Stirs(r)
    /\ UNCHANGED <<slot, linked, rows, report>>

BookClaims(r) ==
    /\ req[r].pc = "book_claim"
    /\ Claim(req[r].new, r)
    /\ Goes(r, "book_put")
    /\ UNCHANGED <<linked, rows, report, calm>>

BookLoses(r) ==
    /\ req[r].pc = "book_claim"
    /\ slot[req[r].new] \in Requests
    /\ Goes(r, "error")
    /\ UNCHANGED <<slot, linked, rows, report, calm>>

BookPuts(r) ==
    /\ req[r].pc = "book_put"
    /\ rows' = [rows EXCEPT ![r] = [status |-> "scheduled", slot |-> req[r].new]]
    /\ Goes(r, "book_meta")
    /\ UNCHANGED <<slot, linked, report, calm>>

BookPutFails(r) ==
    /\ req[r].pc = "book_put"
    /\ "put" \in Faults
    /\ Release(req[r].new)
    /\ Goes(r, "error")
    /\ UNCHANGED <<linked, rows, report>>

BookEnds(r) ==
    /\ req[r].pc = "book_meta"
    /\ Goes(r, "done")
    /\ UNCHANGED <<slot, linked, rows, report, calm>>

\* put_session_meta() fails: the slot is given back, the session row stays.
BookMetaFails(r) ==
    /\ req[r].pc = "book_meta"
    /\ "meta" \in Faults
    /\ Opens(req[r].new) /\ calm' = FALSE
    /\ Goes(r, "error")
    /\ UNCHANGED <<linked, rows, report>>

----------------------------------------------------------------------------
(* reschedule() *)

\* _find_booking(): a session of the candidate that did not fail.
Bookings(c) ==
    {b \in Requests : Owner[b] = c /\ rows[b] # NoRow /\ rows[b].status \notin {"failed", "cancelled"}}

RescheduleStart(r, b, s) ==
    /\ MayStart(r)
    /\ b \in Bookings(Owner[r]) /\ rows[b].status = "scheduled"
    /\ s # rows[b].slot /\ slot[s] = None
    /\ req' = [req EXCEPT ![r] =
                [pc |-> "move_claim", booking |-> b, old |-> rows[b].slot, new |-> s]]
    /\ Stirs(r)
    /\ UNCHANGED <<slot, linked, rows, report>>

MoveClaims(r) ==
    /\ req[r].pc = "move_claim"
    /\ Claim(req[r].new, req[r].booking)
    /\ Goes(r, "move_put")
    /\ UNCHANGED <<linked, rows, report, calm>>

MoveLoses(r) ==
    /\ req[r].pc = "move_claim"
    /\ slot[req[r].new] \in Requests
    /\ Goes(r, "error")
    /\ UNCHANGED <<slot, linked, rows, report, calm>>

\* The whole row is written back, with the status it had when it was read.
MovePuts(r) ==
    /\ req[r].pc = "move_put"
    /\ rows' = [rows EXCEPT ![req[r].booking] = [status |-> "scheduled", slot |-> req[r].new]]
    /\ Goes(r, "move_meta")
    /\ UNCHANGED <<slot, linked, report, calm>>

MovePutFails(r) ==
    /\ req[r].pc = "move_put"
    /\ "put" \in Faults
    /\ Release(req[r].new)
    /\ Goes(r, "error")
    /\ UNCHANGED <<linked, rows, report>>

MoveMeta(r) ==
    /\ req[r].pc = "move_meta"
    /\ Goes(r, "move_release")
    /\ UNCHANGED <<slot, linked, rows, report, calm>>

\* set_session_meta_status() fails: the new slot is given back although the row
\* already names it.
MoveMetaFails(r) ==
    /\ req[r].pc = "move_meta"
    /\ "meta" \in Faults
    /\ Opens(req[r].new) /\ calm' = FALSE
    /\ Goes(r, "error")
    /\ UNCHANGED <<linked, rows, report>>

\* Mutant of MoveReleases: the slot just claimed is given back.
MoveReleasesNew(r) ==
    /\ req[r].pc = "move_release"
    /\ Release(req[r].new)
    /\ Goes(r, "done")
    /\ UNCHANGED <<linked, rows, report>>

MoveReleases(r) ==
    /\ req[r].pc = "move_release"
    /\ Release(req[r].old)
    /\ Goes(r, "done")
    /\ UNCHANGED <<linked, rows, report>>

----------------------------------------------------------------------------
(* cancel() *)

CancelStart(r, b) ==
    /\ MayStart(r)
    /\ b \in Bookings(Owner[r]) /\ rows[b].status = "scheduled"
    /\ req' = [req EXCEPT ![r] =
                [pc |-> "cancel_release", booking |-> b, old |-> rows[b].slot, new |-> None]]
    /\ Stirs(r)
    /\ UNCHANGED <<slot, linked, rows, report>>

CancelReleases(r) ==
    /\ req[r].pc = "cancel_release"
    /\ Release(req[r].old)
    /\ Goes(r, "cancel_put")
    /\ UNCHANGED <<linked, rows, report>>

CancelPuts(r) ==
    /\ req[r].pc = "cancel_put"
    /\ rows' = [rows EXCEPT ![req[r].booking] = [status |-> "cancelled", slot |-> req[r].old]]
    /\ Goes(r, "done")
    /\ UNCHANGED <<slot, linked, report, calm>>

CancelPutFails(r) ==
    /\ req[r].pc = "cancel_put"
    /\ "cancel_put" \in Faults
    /\ Goes(r, "error")
    /\ calm' = FALSE
    /\ UNCHANGED <<slot, linked, rows, report>>

----------------------------------------------------------------------------
(* The interview, reported by the bridge, the scheduler and the staff *)

\* A report reads the row of b, which says one of `before`, to set it to `next`.
Reads(w, b, before, next) ==
    /\ report[w] = NoReport
    /\ rows[b].status \in before
    /\ report' = [report EXCEPT ![w] = [booking |-> b, row |-> [rows[b] EXCEPT !.status = next]]]
    /\ UNCHANGED <<slot, linked, rows, req, calm>>

\* mark_connected()
Connects(w, b) == Reads(w, b, {"scheduled"}, "in_progress")

\* complete_from_media(); hangup() of the staff or the scheduler does the same.
Completes(w, b) == Reads(w, b, {"in_progress"}, "completed")

\* fail_from_media()
FailsFromMedia(w, b) == Reads(w, b, {"scheduled", "in_progress"}, "failed")

\* scheduler.run(): the candidate did not come in time; a row it cannot handle
\* fails too, while it is scheduled or in progress.
Sweeps(w, b) == Reads(w, b, {"scheduled", "in_progress"}, "failed")

\* cancel_session() of the staff, which releases no slot.
CancelSession(w, b) == Reads(w, b, {"scheduled"}, "failed")

\* The candidate has moved or cancelled the session since the report read it.
Stale(w) ==
    LET now == rows[report[w].booking]
    IN  now.status = "cancelled" \/ now.slot # report[w].row.slot

\* put_session(): the row as it was read, but for its status.
ReportPuts(w) ==
    /\ report[w] # NoReport
    /\ rows' = [rows EXCEPT ![report[w].booking] = report[w].row]
    /\ report' = [report EXCEPT ![w] = NoReport]
    /\ calm' = (calm /\ ~Stale(w))
    /\ UNCHANGED <<slot, linked, req>>

\* The put raises.
ReportFails(w) ==
    /\ report[w] # NoReport
    /\ report' = [report EXCEPT ![w] = NoReport]
    /\ UNCHANGED <<slot, linked, rows, req, calm>>

----------------------------------------------------------------------------

Book(r) ==
    \/ \E s \in Slots : BookStart(r, s)
    \/ BookClaims(r) \/ BookLoses(r) \/ BookPuts(r) \/ BookPutFails(r)
    \/ BookEnds(r) \/ BookMetaFails(r)

Reschedule(r) ==
    \/ \E b \in Requests, s \in Slots : RescheduleStart(r, b, s)
    \/ MoveClaims(r) \/ MoveLoses(r) \/ MovePuts(r) \/ MovePutFails(r)
    \/ MoveMeta(r) \/ MoveMetaFails(r) \/ MoveReleases(r)

Cancel(r) ==
    \/ \E b \in Requests : CancelStart(r, b)
    \/ CancelReleases(r) \/ CancelPuts(r) \/ CancelPutFails(r)

Interview(w) ==
    \/ \E b \in Requests :
          \/ Connects(w, b) \/ Completes(w, b) \/ FailsFromMedia(w, b)
          \/ Sweeps(w, b) \/ CancelSession(w, b)
    \/ ReportPuts(w) \/ ReportFails(w)

Next ==
    \/ \E s \in Slots : AddSlot(s)
    \/ \E c \in Candidates : IssueLink(c)
    \/ \E r \in Requests : Book(r) \/ Reschedule(r) \/ Cancel(r)
    \/ \E w \in Reports : Interview(w)

Spec == Init /\ [][Next]_vars

----------------------------------------------------------------------------
(* Properties *)

TypeOK ==
    /\ slot \in [Slots -> Requests \cup {None, Absent}] /\ linked \subseteq Candidates
    /\ rows \in [Requests -> Row \cup {NoRow}]
    /\ req \in [Requests -> Request]
    /\ report \in [Reports -> Report \cup {NoReport}]
    /\ calm \in BOOLEAN

Quiet == \A r \in Requests : Ended(r)

\* The session names the slot and its candidate did not cancel it.
Names(b, s) == rows[b] # NoRow /\ rows[b].status # "cancelled" /\ rows[b].slot = s
Live(b) == rows[b].status \in {"scheduled", "in_progress"}

\* As long as no candidate let two requests overlap, no write failed that the
\* code does not undo and no report overwrote a move or a cancellation it had
\* not seen, and when no request runs, a slot is claimed for exactly the session
\* that names it and that its candidate did not cancel, whatever claims, moves,
\* rolled-back bookings and reports interleave: no session is without its slot,
\* no two share one, and none is lost but to a session that failed otherwise,
\* which keeps it (candidate_service.py, the order of claim, put and release).
SlotsMatchSessions ==
    calm /\ Quiet => \A s \in Slots, b \in Requests : slot[s] = b <=> Names(b, s)

\* Every slot that is claimed has an interview to come, under way or held; it
\* fails: only a candidate's own cancellation releases one (db.py:417).
NoSlotIsWasted ==
    calm /\ Quiet => \A s \in Slots : slot[s] \in Requests => rows[slot[s]].status # "failed"

\* Two candidates never have an interview waiting or running in one slot, as
\* claim_slot is to see to (db.py); it fails when a candidate's cancellations
\* overlap, and when a report puts back a row cancelled since it was read.
OneCandidatePerSlot ==
    Quiet => \A a, b \in Requests :
                Live(a) /\ Live(b) /\ rows[a].slot = rows[b].slot => Owner[a] = Owner[b]
=============================================================================
