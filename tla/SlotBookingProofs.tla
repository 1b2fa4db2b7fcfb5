-------------------------- MODULE SlotBookingProofs --------------------------
(***************************************************************************)
(* Proofs about SlotBooking, for any candidates, slots, requests and       *)
(* faults: until a candidate lets two requests overlap, a write fails that *)
(* the code does not undo or a report puts back a row that its candidate   *)
(* moved or cancelled meanwhile, the slot table and the sessions agree.    *)
(***************************************************************************)
EXTENDS SlotBooking, ExamConnection, TLAPS

Books == {"book_claim", "book_put", "book_meta"}
Moves == {"move_claim", "move_put", "move_meta", "move_release"}
Cancels == {"cancel_release", "cancel_put"}

\* What the request q of r works on; there is no session row before it is put.
Shape(r, q) ==
    /\ q.pc \notin Resting => q.booking \in Requests /\ Owner[q.booking] = Owner[r]
    /\ q.pc \in Books => q.booking = r
    /\ q.pc \in Books \cup Moves => q.new \in Slots
    /\ q.pc \in Moves \cup Cancels => q.old \in Slots /\ rows[q.booking] # NoRow
    /\ q.pc \in Moves => q.old # q.new
    /\ q.pc \in {"idle", "book_claim", "book_put"} => rows[r] = NoRow

\* A report has read a row that is there and was not cancelled.
Reporting(w) ==
    report[w] # NoReport =>
        rows[report[w].booking] # NoRow /\ report[w].row.status # "cancelled"

ShapeInv ==
    TypeOK /\ (\A r \in Requests : Shape(r, req[r])) /\ \A w \in Reports : Reporting(w)

\* The request q claimed s and no row names it yet, or no longer.
Holds(q, s) ==
    \/ q.pc \in {"book_put", "move_put"} /\ s = q.new
    \/ q.pc \in {"move_meta", "move_release"} /\ s = q.old

\* The request q opened s, which the row still names.
Opened(q, s) == q.pc = "cancel_put" /\ s = q.old

\* What the row of the session that q works on says.
Read(q) ==
    /\ q.pc = "book_meta" => Names(q.booking, q.new)
    /\ q.pc \in {"move_claim", "move_put"} \cup Cancels => Names(q.booking, q.old)
    /\ q.pc \in {"move_meta", "move_release"} => Names(q.booking, q.new)

\* A slot is claimed for the session that names it, unless a cancellation
\* opened it already, and for the one a request is about to put into it or has
\* just taken out of it.
HoldersInv ==
    \A s \in Slots, b \in Requests :
        slot[s] = b <=>
            \/ Names(b, s) /\ \A r \in Requests : req[r].booking = b => ~Opened(req[r], s)
            \/ \E r \in Requests : req[r].booking = b /\ Holds(req[r], s)

\* The candidate of r has no other request running.
Alone(r) == \A x \in Requests \ {r} : Owner[x] = Owner[r] => Ended(x)

CalmInv ==
    /\ \A r \in Requests : ~Ended(r) => Alone(r)
    /\ \A r \in Requests : Read(req[r])
    /\ HoldersInv

IInv == ShapeInv /\ (calm => CalmInv)

-------------------------------------------------------------------------------

\* The slots of the session of q, when no other request works on it.
Agrees(q, s) == (Names(q.booking, s) /\ ~Opened(q, s)) \/ Holds(q, s)

LEMMA RestingHasNothing ==
    ASSUME NEW q, q.pc \in Resting
    PROVE  Read(q) /\ \A s : ~Opened(q, s) /\ ~Holds(q, s)
  BY DEF Resting, Read, Opened, Holds, Cancels

\* The session of a running request is worked on by it alone.
LEMMA RunsAlone ==
    ASSUME IInv, calm, NEW r \in Requests, ~Ended(r)
    PROVE  /\ Alone(r)
           /\ Read(req[r])
           /\ \A s \in Slots : slot[s] = req[r].booking <=> Agrees(req[r], s)
<1>1. CalmInv /\ Alone(r) /\ Read(req[r])
  BY DEF IInv, CalmInv
<1>2. req[r].booking \in Requests /\ Owner[req[r].booking] = Owner[r]
  BY DEF IInv, ShapeInv, Shape, Ended
<1>3. ASSUME NEW x \in Requests \ {r}, req[x].booking = req[r].booking
      PROVE  Ended(x)
  BY <1>1, <1>2, <1>3 DEF Alone, IInv, ShapeInv, Shape, Ended
<1>4. \A x \in Requests \ {r}, s \in Slots :
         req[x].booking = req[r].booking => ~Opened(req[x], s) /\ ~Holds(req[x], s)
  BY <1>3, RestingHasNothing DEF Ended
<1>5. QED
  BY <1>1, <1>2, <1>4 DEF CalmInv, HoldersInv, Agrees

\* Nobody works on the sessions of a candidate without a running request.
LEMMA StartsClean ==
    ASSUME IInv, calm, NEW r \in Requests, NEW b \in Requests, Owner[b] = Owner[r],
           \A x \in Requests : Owner[x] = Owner[r] => Ended(x)
    PROVE  \A s \in Slots : slot[s] = b <=> Names(b, s)
<1>1. ASSUME NEW x \in Requests, req[x].booking = b
      PROVE  Ended(x)
  BY <1>1 DEF IInv, ShapeInv, Shape, Ended
<1>2. \A x \in Requests, s \in Slots :
         req[x].booking = b => ~Opened(req[x], s) /\ ~Holds(req[x], s)
  BY <1>1, RestingHasNothing DEF Ended
<1>3. QED
  BY <1>2 DEF IInv, CalmInv, HoldersInv

\* One request moves, and with it only its session and the slots of that.
LEMMA StepKeeps ==
    ASSUME IInv, NEW r \in Requests, NEW q \in Request,
           req' = [req EXCEPT ![r] = q],
           slot' \in [Slots -> Requests \cup {None, Absent}], linked' = linked, report' = report,
           rows' \in [Requests -> Row \cup {NoRow}], calm' \in BOOLEAN,
           q.booking \in Requests, Owner[q.booking] = Owner[r],
           \A c \in Requests \ {q.booking} : rows'[c] = rows[c],
           rows[q.booking] # NoRow => rows'[q.booking] # NoRow,
           rows'[q.booking] # NoRow => rows[q.booking] # NoRow \/ q.booking = r,
           Shape(r, q)',
           req[r].pc = "idle" \/ req[r].booking = q.booking,
           calm' => /\ calm
                    /\ Alone(r)
                    /\ Read(q)'
                    /\ \A s \in Slots, c \in Requests \ {q.booking} :
                           slot'[s] = c <=> slot[s] = c
                    /\ \A s \in Slots : slot'[s] = q.booking <=> Agrees(q, s)'
    PROVE  IInv'
<1> DEFINE b == q.booking
<1>1. ShapeInv /\ req \in [Requests -> Request]
  BY DEF IInv, ShapeInv, TypeOK
<1>2. req'[r] = q /\ \A x \in Requests \ {r} : req'[x] = req[x]
  BY <1>1
<1>3. TypeOK'
  BY <1>1 DEF TypeOK, ShapeInv
<1>4. ASSUME NEW x \in Requests \ {r} PROVE Shape(x, req[x])'
  <2>1. Shape(x, req[x])
    BY <1>1 DEF ShapeInv
  <2>2. rows'[x] = NoRow <=> rows[x] = NoRow
    OBVIOUS
  <2>3. req[x].pc \in Moves \cup Cancels =>
            rows'[req[x].booking] # NoRow
    <3>1. req[x].pc \in Moves \cup Cancels =>
              req[x].booking \in Requests /\ rows[req[x].booking] # NoRow
      BY <2>1 DEF Shape, Moves, Cancels, Resting
    <3>2. QED
      BY <3>1
  <2>4. QED
    BY <1>2, <2>1, <2>2, <2>3 DEF Shape
<1>5. ShapeInv'
  <2>1. ASSUME NEW w \in Reports PROVE Reporting(w)'
    <3>1. Reporting(w) /\ (report[w] # NoReport => report[w].booking \in Requests)
      BY <1>1 DEF ShapeInv, TypeOK, Report
    <3>2. QED
      BY <3>1 DEF Reporting
  <2>2. QED
    BY <1>2, <1>3, <1>4, <2>1 DEF ShapeInv
<1>6. ASSUME calm' PROVE CalmInv'
  <2>1. CalmInv /\ Alone(r)
    BY <1>6 DEF IInv
  <2>2. \A x \in Requests \ {r} : Ended(x)' <=> Ended(x)
    BY <1>2 DEF Ended
  <2>3. \A x \in Requests \ {r} : Ended(x) \/ Owner[x] # Owner[r]
    BY <2>1 DEF Alone
  <2>4. ASSUME NEW x \in Requests, ~Ended(x)' PROVE Alone(x)'
    <3>1. CASE x = r
      BY <2>1, <2>2, <3>1 DEF Alone
    <3>2. CASE x # r
      <4>1. ~Ended(x) /\ Owner[x] # Owner[r] /\ Alone(x)
        BY <2>1, <2>2, <2>3, <2>4, <3>2 DEF CalmInv
      <4>2. QED
        BY <2>2, <4>1 DEF Alone
    <3>3. QED
      BY <3>1, <3>2
  <2>5. ASSUME NEW x \in Requests \ {r}, ~Ended(x)
        PROVE  req[x].booking \in Requests \ {b}
    <3>1. Owner[req[x].booking] = Owner[x] /\ req[x].booking \in Requests
      BY <1>1, <2>5 DEF ShapeInv, Shape, Ended
    <3>2. QED
      BY <2>3, <2>5, <3>1
  <2>6. ASSUME NEW x \in Requests PROVE Read(req[x])'
    <3>1. CASE x = r
      BY <1>2, <1>6, <3>1
    <3>2. CASE x # r /\ Ended(x)
      <4>1. req'[x] = req[x]
        BY <1>2, <3>2
      <4>2. req'[x].pc \in Resting
        BY <3>2, <4>1 DEF Ended
      <4>3. QED
        BY <4>2 DEF Resting, Read, Cancels
    <3>3. CASE x # r /\ ~Ended(x)
      <4>1. rows'[req[x].booking] = rows[req[x].booking] /\ req'[x] = req[x]
        BY <1>2, <2>5, <3>3
      <4>2. Read(req[x])
        BY <2>1 DEF CalmInv
      <4>3. QED
        BY <4>1, <4>2 DEF Read, Names
    <3>4. QED
      BY <3>1, <3>2, <3>3
  <2>7. ASSUME NEW s \in Slots, NEW c \in Requests
        PROVE  slot'[s] = c <=>
                 \/ /\ Names(c, s)'
                    /\ \A x \in Requests : req'[x].booking = c => ~Opened(req'[x], s)
                 \/ \E x \in Requests : req'[x].booking = c /\ Holds(req'[x], s)
    <3>1. \A x \in Requests \ {r} :
             Ended(x) => ~Opened(req[x], s) /\ ~Holds(req[x], s)
      BY RestingHasNothing DEF Ended
    <3>2. CASE c = b
      <4>1. \A x \in Requests \ {r} :
               req'[x].booking = b => ~Opened(req'[x], s) /\ ~Holds(req'[x], s)
        BY <1>2, <2>5, <3>1
      <4>2. slot'[s] = b <=> (Names(b, s)' /\ ~Opened(q, s)) \/ Holds(q, s)
        BY <1>6 DEF Agrees, Opened, Holds
      <4>3. QED
        BY <1>2, <3>2, <4>1, <4>2
    <3>3. CASE c # b
      <4>1. slot'[s] = c <=> slot[s] = c
        BY <1>6, <3>3
      <4>2. Names(c, s)' <=> Names(c, s)
        BY <3>3 DEF Names
      <4>3. /\ req[r].booking = c => ~Opened(req[r], s) /\ ~Holds(req[r], s)
            /\ req'[r].booking # c
        BY <1>2, <3>3 DEF Opened, Holds
      <4>4. slot[s] = c <=>
                 \/ Names(c, s) /\ \A x \in Requests : req[x].booking = c => ~Opened(req[x], s)
                 \/ \E x \in Requests : req[x].booking = c /\ Holds(req[x], s)
        BY <2>1 DEF CalmInv, HoldersInv
      <4>5. QED
        BY <1>2, <4>1, <4>2, <4>3, <4>4
    <3>4. QED
      BY <3>2, <3>3
  <2>8. HoldersInv'
    BY <2>7 DEF HoldersInv, Opened, Holds
  <2>9. QED
    BY <2>4, <2>6, <2>8 DEF CalmInv
<1>7. QED
  BY <1>5, <1>6 DEF IInv

-------------------------------------------------------------------------------
(* Requests under way *)

\* A running request goes on to its next call.
LEMMA RunKeeps ==
    ASSUME IInv, NEW r \in Requests, NEW pc \in Pcs, ~Ended(r), Goes(r, pc),
           NEW q, q = [req[r] EXCEPT !.pc = pc],
           slot' \in [Slots -> Requests \cup {None, Absent}], linked' = linked, report' = report,
           rows' \in [Requests -> Row \cup {NoRow}], calm' \in BOOLEAN,
           \A c \in Requests \ {q.booking} : rows'[c] = rows[c],
           rows[q.booking] # NoRow => rows'[q.booking] # NoRow,
           rows'[q.booking] # NoRow => rows[q.booking] # NoRow \/ q.booking = r,
           Shape(r, q)',
           calm' => /\ calm
                    /\ Read(q)'
                    /\ \A s \in Slots, c \in Requests \ {q.booking} :
                           slot'[s] = c <=> slot[s] = c
                    /\ \A s \in Slots : slot'[s] = q.booking <=> Agrees(q, s)'
    PROVE  IInv'
<1>1. req \in [Requests -> Request]
  BY DEF IInv, ShapeInv, TypeOK
<1>2. q \in Request /\ q.booking = req[r].booking
  BY <1>1 DEF Request
<1>3. req' = [req EXCEPT ![r] = q]
  BY <1>1 DEF Goes
<1>4. q.booking \in Requests /\ Owner[q.booking] = Owner[r]
  BY <1>2 DEF IInv, ShapeInv, Shape, Ended
<1>5. calm => Alone(r)
  BY RunsAlone
<1>6. QED
  BY <1>2, <1>3, <1>4, <1>5, StepKeeps

\* What is known of a running request.
LEMMA Known ==
    ASSUME IInv, NEW r \in Requests, ~Ended(r)
    PROVE  /\ TypeOK /\ req[r] \in Request
           /\ req[r].booking \in Requests /\ Shape(r, req[r])
           /\ \A pc \in Pcs : LET q == [req[r] EXCEPT !.pc = pc] IN
                 q = [pc |-> pc, booking |-> req[r].booking,
                      old |-> req[r].old, new |-> req[r].new]
           /\ None \notin Requests /\ Absent \notin Requests
  BY SlotAssumption DEF IInv, ShapeInv, TypeOK, Request, Shape, Ended

\* A claim of the session of a request takes an open slot.
LEMMA ClaimTakes ==
    ASSUME TypeOK, NEW s \in Slots, NEW b \in Requests, Claim(s, b)
    PROVE  /\ slot' \in [Slots -> Requests \cup {None, Absent}]
           /\ slot[s] = None /\ slot'[s] = b
           /\ \A t \in Slots \ {s} : slot'[t] = slot[t]
  BY DEF TypeOK, Claim

\* A release that is not swallowed opens the slot.
LEMMA ReleaseOpens ==
    ASSUME TypeOK, NEW s \in Slots, Release(s)
    PROVE  /\ slot' \in [Slots -> Requests \cup {None, Absent}]
           /\ calm' \in BOOLEAN
           /\ calm' => calm /\ slot'[s] = None
           /\ \A t \in Slots \ {s} : slot'[t] = slot[t]
  BY DEF TypeOK, Release, Opens

\* A request claims the slot it asked for: book() and reschedule().
LEMMA ClaimKeeps ==
    ASSUME IInv, NEW r \in Requests, BookClaims(r) \/ MoveClaims(r)
    PROVE  IInv'
<1> DEFINE pc == IF req[r].pc = "book_claim" THEN "book_put" ELSE "move_put"
<1>0. PICK q : q = [req[r] EXCEPT !.pc = pc]
  OBVIOUS
<1>1. /\ req[r].pc \in {"book_claim", "move_claim"} /\ Goes(r, pc)
      /\ UNCHANGED <<linked, rows, report, calm>> /\ pc \in Pcs /\ ~Ended(r)
  BY DEF BookClaims, MoveClaims, Pcs, Resting, Ended
<1>2. /\ TypeOK /\ req[r].booking \in Requests /\ Shape(r, req[r])
      /\ q = [pc |-> pc, booking |-> req[r].booking,
              old |-> req[r].old, new |-> req[r].new]
      /\ None \notin Requests
  BY <1>0, <1>1, Known
<1>3. req[r].new \in Slots /\ Claim(req[r].new, req[r].booking)
  BY <1>1, <1>2 DEF Shape, Books, Moves, BookClaims, MoveClaims
<1>4. /\ slot' \in [Slots -> Requests \cup {None, Absent}]
      /\ slot[req[r].new] = None /\ slot'[req[r].new] = req[r].booking
      /\ \A t \in Slots \ {req[r].new} : slot'[t] = slot[t]
  BY <1>2, <1>3, ClaimTakes
<1>5. Shape(r, q)'
  BY <1>1, <1>2 DEF Shape, Books, Moves, Cancels, Resting
<1>6. ASSUME calm'
      PROVE  /\ calm /\ Read(q)'
             /\ \A s \in Slots, c \in Requests \ {q.booking} :
                    slot'[s] = c <=> slot[s] = c
             /\ \A s \in Slots : slot'[s] = q.booking <=> Agrees(q, s)'
  <2>1. /\ calm /\ Read(req[r])
        /\ \A s \in Slots : slot[s] = req[r].booking <=> Agrees(req[r], s)
    BY <1>1, <1>6, RunsAlone
  <2>2. Read(q)'
    BY <1>1, <1>2, <2>1 DEF Read, Names, Cancels
  <2>3. \A s \in Slots : Agrees(q, s)' <=> Agrees(req[r], s) \/ s = req[r].new
    BY <1>1, <1>2 DEF Agrees, Names, Holds, Opened
  <2>4. QED
    BY <1>2, <1>4, <2>1, <2>2, <2>3
<1>7. QED
  <2> HIDE DEF pc
  <2>1. q = [req[r] EXCEPT !.pc = pc] /\ q.booking = req[r].booking
    BY <1>0, <1>2
  <2>2. rows' \in [Requests -> Row \cup {NoRow}] /\ calm' \in BOOLEAN
    BY <1>1, <1>2 DEF TypeOK
  <2>3. QED
    BY <1>1, <1>4, <1>5, <1>6, <2>1, <2>2, RunKeeps

\* A request that neither touches a slot nor a row: it lost the claim, wrote
\* the meta row, or is done.
LEMMA MoveOnKeeps ==
    ASSUME IInv, NEW r \in Requests,
           BookLoses(r) \/ MoveLoses(r) \/ BookEnds(r) \/ MoveMeta(r) \/ CancelPutFails(r)
    PROVE  IInv'
<1> DEFINE pc == IF req[r].pc = "book_meta" THEN "done"
                 ELSE IF req[r].pc = "move_meta" THEN "move_release" ELSE "error"
<1>0. PICK q : q = [req[r] EXCEPT !.pc = pc]
  OBVIOUS
<1>1. /\ req[r].pc \in {"book_claim", "move_claim", "book_meta", "move_meta", "cancel_put"}
      /\ Goes(r, pc) /\ UNCHANGED <<slot, linked, rows, report>> /\ pc \in Pcs /\ ~Ended(r)
      /\ calm' = calm \/ calm' = FALSE
      /\ req[r].pc = "cancel_put" => ~calm'
  BY DEF BookLoses, MoveLoses, BookEnds, MoveMeta, CancelPutFails, Pcs, Resting, Ended
<1>2. /\ TypeOK /\ req[r].booking \in Requests /\ Shape(r, req[r])
      /\ q = [pc |-> pc, booking |-> req[r].booking,
              old |-> req[r].old, new |-> req[r].new]
  BY <1>0, <1>1, Known
<1>3. Shape(r, q)'
  BY <1>1, <1>2 DEF Shape, Books, Moves, Cancels, Resting
<1>4. ASSUME calm'
      PROVE  /\ calm /\ Read(q)'
             /\ \A s \in Slots : slot'[s] = q.booking <=> Agrees(q, s)'
  <2>1. /\ calm /\ Read(req[r])
        /\ \A s \in Slots : slot[s] = req[r].booking <=> Agrees(req[r], s)
    BY <1>1, <1>4, RunsAlone
  <2>2. Read(q)'
    BY <1>1, <1>2, <2>1 DEF Read, Names, Cancels
  <2>3. \A s \in Slots : Agrees(q, s)' <=> Agrees(req[r], s)
    BY <1>1, <1>2, <1>4 DEF Agrees, Names, Holds, Opened
  <2>4. QED
    BY <1>1, <1>2, <2>1, <2>2, <2>3
<1>5. QED
  <2> HIDE DEF pc
  <2>1. q = [req[r] EXCEPT !.pc = pc] /\ q.booking = req[r].booking
    BY <1>0, <1>2
  <2>2. /\ slot' \in [Slots -> Requests \cup {None, Absent}]
        /\ rows' \in [Requests -> Row \cup {NoRow}] /\ calm' \in BOOLEAN
    BY <1>1, <1>2 DEF TypeOK
  <2>3. QED
    BY <1>1, <1>3, <1>4, <2>1, <2>2, RunKeeps

\* A request gives a slot back: the one it claimed in vain, the one its
\* session moved out of, or the one of a cancelled session.
LEMMA ReleaseKeeps ==
    ASSUME IInv, NEW r \in Requests,
           BookPutFails(r) \/ MovePutFails(r) \/ MoveReleases(r) \/ CancelReleases(r)
    PROVE  IInv'
<1> DEFINE pc == IF req[r].pc = "move_release" THEN "done"
                 ELSE IF req[r].pc = "cancel_release" THEN "cancel_put" ELSE "error"
           s0 == IF req[r].pc \in {"book_put", "move_put"} THEN req[r].new ELSE req[r].old
<1>0. PICK q : q = [req[r] EXCEPT !.pc = pc]
  OBVIOUS
<1>1. /\ req[r].pc \in {"book_put", "move_put", "move_release", "cancel_release"}
      /\ Goes(r, pc) /\ UNCHANGED <<linked, rows, report>> /\ pc \in Pcs /\ ~Ended(r)
      /\ Release(s0)
  BY DEF BookPutFails, MovePutFails, MoveReleases, CancelReleases, Pcs, Resting, Ended
<1>2. /\ TypeOK /\ req[r].booking \in Requests /\ Shape(r, req[r])
      /\ q = [pc |-> pc, booking |-> req[r].booking,
              old |-> req[r].old, new |-> req[r].new]
      /\ None \notin Requests
  BY <1>0, <1>1, Known
<1>3. s0 \in Slots /\ (req[r].pc \in {"move_put", "move_release"} => req[r].old # req[r].new)
  BY <1>1, <1>2 DEF Shape, Books, Moves, Cancels
<1>4. /\ slot' \in [Slots -> Requests \cup {None, Absent}]
      /\ calm' \in BOOLEAN
      /\ calm' => calm /\ slot'[s0] = None
      /\ \A t \in Slots \ {s0} : slot'[t] = slot[t]
  BY <1>1, <1>2, <1>3, ReleaseOpens
<1>5. Shape(r, q)'
  BY <1>1, <1>2 DEF Shape, Books, Moves, Cancels, Resting
<1>6. ASSUME calm'
      PROVE  /\ calm /\ Read(q)'
             /\ \A s \in Slots, c \in Requests \ {q.booking} :
                    slot'[s] = c <=> slot[s] = c
             /\ \A s \in Slots : slot'[s] = q.booking <=> Agrees(q, s)'
  <2>1. /\ calm /\ Read(req[r])
        /\ \A s \in Slots : slot[s] = req[r].booking <=> Agrees(req[r], s)
    BY <1>1, <1>4, <1>6, RunsAlone
  <2>2. Read(q)'
    BY <1>1, <1>2, <2>1 DEF Read, Names, Cancels
  <2>3. Agrees(req[r], s0)
    BY <1>1, <2>1 DEF Agrees, Read, Holds, Opened, Cancels
  <2>4. ASSUME req[r].pc = "book_put" PROVE \A s : ~Names(req[r].booking, s)
    BY <1>2, <2>4 DEF Shape, Books, Names
  <2>5. \A s \in Slots : Agrees(q, s)' <=> Agrees(req[r], s) /\ s # s0
    BY <1>1, <1>2, <1>3, <2>1, <2>4 DEF Agrees, Read, Names, Holds, Opened, Cancels
  <2>6. QED
    BY <1>2, <1>3, <1>4, <1>6, <2>1, <2>2, <2>3, <2>5
<1>7. QED
  <2> HIDE DEF pc, s0
  <2>1. q = [req[r] EXCEPT !.pc = pc] /\ q.booking = req[r].booking
    BY <1>0, <1>2
  <2>2. rows' \in [Requests -> Row \cup {NoRow}]
    BY <1>1, <1>2 DEF TypeOK
  <2>3. QED
    BY <1>1, <1>4, <1>5, <1>6, <2>1, <2>2, RunKeeps

\* A request writes the session row: booked, moved or cancelled.
LEMMA PutKeeps ==
    ASSUME IInv, NEW r \in Requests, BookPuts(r) \/ MovePuts(r) \/ CancelPuts(r)
    PROVE  IInv'
<1> DEFINE pc == IF req[r].pc = "book_put" THEN "book_meta"
                 ELSE IF req[r].pc = "move_put" THEN "move_meta" ELSE "done"
           row == IF req[r].pc = "cancel_put"
                  THEN [status |-> "cancelled", slot |-> req[r].old]
                  ELSE [status |-> "scheduled", slot |-> req[r].new]
<1>0. PICK q : q = [req[r] EXCEPT !.pc = pc]
  OBVIOUS
<1>1. /\ req[r].pc \in {"book_put", "move_put", "cancel_put"}
      /\ Goes(r, pc) /\ UNCHANGED <<slot, linked, report, calm>> /\ pc \in Pcs /\ ~Ended(r)
  BY DEF BookPuts, MovePuts, CancelPuts, Pcs, Resting, Ended
<1>2. /\ TypeOK /\ req[r].booking \in Requests /\ Shape(r, req[r])
      /\ q = [pc |-> pc, booking |-> req[r].booking,
              old |-> req[r].old, new |-> req[r].new]
  BY <1>0, <1>1, Known
<1>3. rows' = [rows EXCEPT ![req[r].booking] = row]
  BY <1>1, <1>2 DEF BookPuts, MovePuts, CancelPuts, Shape, Books
<1>4. /\ row \in Row /\ row # NoRow
      /\ req[r].pc # "cancel_put" => row.status = "scheduled" /\ row.slot = req[r].new
      /\ req[r].pc = "cancel_put" => row.status = "cancelled"
  BY <1>1, <1>2 DEF Row, Statuses, NoRow, Shape, Books, Moves, Cancels
<1>5. /\ rows' \in [Requests -> Row \cup {NoRow}]
      /\ rows'[req[r].booking] = row
      /\ \A c \in Requests \ {req[r].booking} : rows'[c] = rows[c]
  <2> HIDE DEF row
  <2>1. QED
    BY <1>2, <1>3, <1>4 DEF TypeOK
<1>6. rows[req[r].booking] # NoRow \/ req[r].booking = r
  BY <1>1, <1>2 DEF Shape, Books, Moves, Cancels
<1>7. Shape(r, q)'
  BY <1>1, <1>2, <1>4, <1>5 DEF Shape, Books, Moves, Cancels, Resting
<1>8. ASSUME calm'
      PROVE  /\ calm /\ Read(q)'
             /\ \A s \in Slots : slot'[s] = q.booking <=> Agrees(q, s)'
  <2>1. /\ calm /\ Read(req[r])
        /\ \A s \in Slots : slot[s] = req[r].booking <=> Agrees(req[r], s)
    BY <1>1, <1>8, RunsAlone
  <2>2. \A s : Names(q.booking, s)' <=> req[r].pc # "cancel_put" /\ s = req[r].new
    <3> HIDE DEF row
    <3>1. QED
      BY <1>1, <1>2, <1>4, <1>5 DEF Names
  <2>3. Read(q)'
    BY <1>1, <1>2, <2>2 DEF Read, Cancels
  <2>4. ASSUME req[r].pc = "book_put" PROVE \A s : ~Names(req[r].booking, s)
    BY <1>2, <2>4 DEF Shape, Books, Names
  <2>5. ASSUME req[r].pc # "book_put", NEW s
        PROVE  Names(req[r].booking, s) <=> s = req[r].old
    BY <1>1, <2>1, <2>5 DEF Read, Cancels, Names
  <2>6. \A s \in Slots : Agrees(q, s)' <=> Agrees(req[r], s)
    BY <1>1, <1>2, <2>2, <2>4, <2>5 DEF Agrees, Holds, Opened
  <2>7. QED
    BY <1>1, <1>2, <2>1, <2>3, <2>6
<1>9. QED
  <2> HIDE DEF pc, row
  <2>1. q = [req[r] EXCEPT !.pc = pc] /\ q.booking = req[r].booking
    BY <1>0, <1>2
  <2>2. /\ slot' \in [Slots -> Requests \cup {None, Absent}] /\ calm' \in BOOLEAN
    BY <1>1, <1>2 DEF TypeOK
  <2>3. QED
    BY <1>1, <1>4, <1>5, <1>6, <1>7, <1>8, <2>1, <2>2, RunKeeps

\* A failed write of the meta row: the code does not undo it, and says so.
LEMMA MetaFailsKeeps ==
    ASSUME IInv, NEW r \in Requests, BookMetaFails(r) \/ MoveMetaFails(r)
    PROVE  IInv'
<1>0. PICK q : q = [req[r] EXCEPT !.pc = "error"]
  OBVIOUS
<1>1. /\ req[r].pc \in {"book_meta", "move_meta"} /\ Opens(req[r].new)
      /\ Goes(r, "error") /\ UNCHANGED <<linked, rows, report>> /\ ~calm' /\ calm' \in BOOLEAN
      /\ "error" \in Pcs /\ ~Ended(r)
  BY DEF BookMetaFails, MoveMetaFails, Pcs, Resting, Ended
<1>2. /\ TypeOK /\ req[r].booking \in Requests /\ Shape(r, req[r])
      /\ q = [pc |-> "error", booking |-> req[r].booking,
              old |-> req[r].old, new |-> req[r].new]
  BY <1>0, <1>1, Known
<1>3. Shape(r, q)'
  BY <1>2 DEF Shape, Books, Moves, Cancels, Resting
<1>4. slot' \in [Slots -> Requests \cup {None, Absent}]
  BY <1>1, <1>2 DEF TypeOK, Opens
<1>5. rows' \in [Requests -> Row \cup {NoRow}]
  BY <1>1, <1>2 DEF TypeOK
<1>6. QED
  BY <1>0, <1>1, <1>2, <1>3, <1>4, <1>5, RunKeeps

-------------------------------------------------------------------------------
(* New requests, and the environment *)

\* A request starts: only its own program counter and snapshot change.
LEMMA StartKeeps ==
    ASSUME IInv, NEW r \in Requests, NEW q \in Request,
           MayStart(r), Stirs(r), req' = [req EXCEPT ![r] = q],
           UNCHANGED <<slot, linked, rows, report>>,
           q.pc \in {"book_claim", "move_claim", "cancel_release"},
           q.booking \in Requests, Owner[q.booking] = Owner[r],
           Shape(r, q), q.pc # "book_claim" => Names(q.booking, q.old)
    PROVE  IInv'
<1>1. TypeOK /\ req[r].pc = "idle"
  BY DEF IInv, ShapeInv, MayStart
<1>2. /\ calm' \in BOOLEAN
      /\ calm' => calm /\ \A x \in Requests : Owner[x] = Owner[r] => Ended(x)
  BY <1>1 DEF Stirs, TypeOK
<1>3. Shape(r, q)'
  BY DEF Shape
<1>4. ASSUME calm'
      PROVE  /\ calm /\ Alone(r) /\ Read(q)'
             /\ \A s \in Slots : slot'[s] = q.booking <=> Agrees(q, s)'
  <2>1. /\ calm /\ Alone(r)
        /\ \A s \in Slots : slot[s] = q.booking <=> Names(q.booking, s)
    BY <1>2, <1>4, StartsClean DEF Alone
  <2>2. Read(q)' /\ \A s : ~Opened(q, s)' /\ ~Holds(q, s)'
    BY DEF Read, Names, Opened, Holds, Cancels
  <2>3. QED
    BY <2>1, <2>2 DEF Agrees, Names
<1>5. QED
  <2>1. /\ slot' \in [Slots -> Requests \cup {None, Absent}]
        /\ rows' \in [Requests -> Row \cup {NoRow}]
    BY <1>1 DEF TypeOK
  <2>2. QED
    BY <1>1, <1>2, <1>3, <1>4, <2>1, StepKeeps

LEMMA StartsKeep ==
    ASSUME IInv, NEW r \in Requests,
           \/ \E s \in Slots : BookStart(r, s)
           \/ \E b \in Requests, s \in Slots : RescheduleStart(r, b, s)
           \/ \E b \in Requests : CancelStart(r, b)
    PROVE  IInv'
<1>1. TypeOK /\ \A b \in Requests : rows[b] \in Row \cup {NoRow}
  BY DEF IInv, ShapeInv, TypeOK
<1>2. MayStart(r) => Shape(r, req[r]) /\ req[r].pc = "idle"
  BY DEF IInv, ShapeInv, MayStart
<1>3. CASE \E s \in Slots : BookStart(r, s)
  <2>1. PICK s \in Slots : BookStart(r, s)
    BY <1>3
  <2> DEFINE q == [pc |-> "book_claim", booking |-> r, old |-> None, new |-> s]
  <2>2. q \in Request /\ Shape(r, q)
    BY <1>2, <2>1 DEF BookStart, Request, Pcs, Shape, Books, Moves, Cancels, Resting
  <2>3. QED
    BY <2>1, <2>2, StartKeeps DEF BookStart
<1>4. CASE \E b \in Requests, s \in Slots : RescheduleStart(r, b, s)
  <2>1. PICK b \in Requests, s \in Slots : RescheduleStart(r, b, s)
    BY <1>4
  <2>2. PICK q : q = [pc |-> "move_claim", booking |-> b, old |-> rows[b].slot, new |-> s]
    OBVIOUS
  <2>3. /\ Owner[b] = Owner[r] /\ rows[b] # NoRow /\ rows[b].slot \in Slots
        /\ rows[b].status # "cancelled" /\ s # rows[b].slot
    BY <1>1, <2>1 DEF RescheduleStart, Bookings, Row
  <2>4. q \in Request /\ Shape(r, q) /\ Names(q.booking, q.old)
    BY <2>2, <2>3 DEF Request, Pcs, Shape, Books, Moves, Cancels, Resting, Names
  <2>5. QED
    BY <2>1, <2>2, <2>3, <2>4, StartKeeps DEF RescheduleStart
<1>5. CASE \E b \in Requests : CancelStart(r, b)
  <2>1. PICK b \in Requests : CancelStart(r, b)
    BY <1>5
  <2>2. PICK q : q = [pc |-> "cancel_release", booking |-> b,
                      old |-> rows[b].slot, new |-> None]
    OBVIOUS
  <2>3. /\ Owner[b] = Owner[r] /\ rows[b] # NoRow /\ rows[b].slot \in Slots
        /\ rows[b].status # "cancelled"
    BY <1>1, <2>1 DEF CancelStart, Bookings, Row
  <2>4. q \in Request /\ Shape(r, q) /\ Names(q.booking, q.old)
    BY <2>2, <2>3 DEF Request, Pcs, Shape, Books, Moves, Cancels, Resting, Names
  <2>5. QED
    BY <2>1, <2>2, <2>3, <2>4, StartKeeps DEF CancelStart
<1>6. QED
  BY <1>3, <1>4, <1>5

\* A step of no request: what a session that was not cancelled says, and the
\* claims, stay, or calm ends.
LEMMA OtherSteps ==
    ASSUME IInv, TypeOK', req' = req, calm' => calm,
           \A s \in Slots, b \in Requests : slot'[s] = b <=> slot[s] = b,
           \A b \in Requests : rows'[b] = NoRow <=> rows[b] = NoRow,
           calm' => \A b \in Requests : \A s : Names(b, s)' <=> Names(b, s),
           \A w \in Reports : Reporting(w)'
    PROVE  IInv'
<1>1. ASSUME NEW r \in Requests PROVE Shape(r, req[r])'
  <2>1. Shape(r, req[r])
    BY DEF IInv, ShapeInv
  <2>2. req[r].pc \in Moves \cup Cancels => req[r].booking \in Requests
    BY <2>1 DEF Shape, Moves, Cancels, Resting
  <2>3. QED
    BY <2>1, <2>2 DEF Shape
<1>2. ASSUME calm' PROVE CalmInv'
  <2>1. CalmInv
    BY <1>2 DEF IInv
  <2>2. ASSUME NEW r \in Requests PROVE Read(req[r])'
    <3>1. Shape(r, req[r]) /\ Read(req[r])
      BY <2>1 DEF IInv, ShapeInv, CalmInv
    <3>2. req[r].pc \notin Resting => req[r].booking \in Requests
      BY <3>1 DEF Shape
    <3>3. QED
      BY <1>2, <3>1, <3>2 DEF Read, Cancels, Resting
  <2>3. HoldersInv'
    BY <1>2, <2>1 DEF CalmInv, HoldersInv, Opened, Holds
  <2>4. QED
    BY <2>1, <2>2, <2>3 DEF CalmInv, Alone, Ended
<1>3. QED
  BY <1>1, <1>2 DEF IInv, ShapeInv

\* A slot added or a link issued.
LEMMA StaffKeeps ==
    ASSUME IInv,
           \/ \E s \in Slots : AddSlot(s)
           \/ \E c \in Candidates : IssueLink(c)
           \/ UNCHANGED vars
    PROVE  IInv'
<1>1. /\ rows' = rows /\ req' = req /\ report' = report /\ calm' = calm
      /\ TypeOK /\ \A w \in Reports : Reporting(w)
  BY DEF AddSlot, IssueLink, vars, IInv, ShapeInv
<1>2. TypeOK'
  BY <1>1 DEF TypeOK, AddSlot, IssueLink, vars
<1>3. \A s \in Slots, b \in Requests : slot'[s] = b <=> slot[s] = b
  <2>1. \A s \in Slots : AddSlot(s) =>
           /\ slot[s] = Absent /\ slot'[s] = None
           /\ \A t \in Slots \ {s} : slot'[t] = slot[t]
    BY <1>1 DEF AddSlot, TypeOK
  <2>2. (~ \E s \in Slots : AddSlot(s)) => slot' = slot
    BY DEF IssueLink, vars
  <2>3. QED
    BY <2>1, <2>2, SlotAssumption
<1>4. \A b \in Requests : \A s : Names(b, s)' <=> Names(b, s)
  BY <1>1 DEF Names
<1>5. \A w \in Reports : Reporting(w)'
  BY <1>1 DEF Reporting
<1>6. QED
  BY <1>1, <1>2, <1>3, <1>4, <1>5, OtherSteps

\* A report reads a row.
LEMMA ReadsKeep ==
    ASSUME IInv, NEW w \in Reports, NEW b \in Requests,
           NEW before \in SUBSET {"scheduled", "in_progress"},
           NEW next \in {"in_progress", "completed", "failed"}, Reads(w, b, before, next)
    PROVE  IInv'
<1>1. /\ slot' = slot /\ linked' = linked /\ rows' = rows /\ req' = req /\ calm' = calm
      /\ TypeOK /\ rows[b] \in Row \cup {NoRow} /\ rows[b].status \in before
  BY DEF Reads, IInv, ShapeInv, TypeOK
<1>2. rows[b] \in Row /\ rows[b] # NoRow
  BY <1>1 DEF NoRow
<1>3. PICK x : x = [booking |-> b, row |-> [rows[b] EXCEPT !.status = next]]
  OBVIOUS
<1>4. x \in Report /\ x.booking = b /\ x.row.status = next
  BY <1>2, <1>3 DEF Report, Row, Statuses
<1>5. report' = [report EXCEPT ![w] = x]
  BY <1>3 DEF Reads
<1>6. TypeOK'
  BY <1>1, <1>4, <1>5 DEF TypeOK
<1>7. ASSUME NEW v \in Reports PROVE Reporting(v)'
  <2>1. Reporting(v)
    BY DEF IInv, ShapeInv
  <2>2. report'[v] = IF v = w THEN x ELSE report[v]
    BY <1>1, <1>5 DEF TypeOK
  <2>3. QED
    BY <1>1, <1>2, <1>4, <2>1, <2>2 DEF Reporting
<1>8. \A c \in Requests : \A s : Names(c, s)' <=> Names(c, s)
  BY <1>1 DEF Names
<1>9. QED
  BY <1>1, <1>6, <1>7, <1>8, OtherSteps

\* A report puts back what it read, or fails to.
LEMMA ReportKeeps ==
    ASSUME IInv, NEW w \in Reports, ReportPuts(w) \/ ReportFails(w)
    PROVE  IInv'
<1>1. /\ slot' = slot /\ linked' = linked /\ req' = req /\ report[w] # NoReport
      /\ TypeOK /\ \A v \in Reports : Reporting(v)
      /\ report' = [report EXCEPT ![w] = NoReport]
  BY DEF ReportPuts, ReportFails, IInv, ShapeInv
<1>2. /\ report[w].booking \in Requests /\ report[w].row \in Row
      /\ rows[report[w].booking] \in Row /\ report[w].row.status # "cancelled"
      /\ report[w].row # NoRow /\ rows[report[w].booking] # NoRow
  <2>1. report[w] \in Report
    BY <1>1 DEF TypeOK
  <2>2. report[w].booking \in Requests /\ report[w].row \in Row
    BY <2>1 DEF Report
  <2>3. rows[report[w].booking] # NoRow /\ report[w].row.status # "cancelled"
    BY <1>1 DEF Reporting
  <2>4. NoRow \notin Row
    BY DEF NoRow, Row, Statuses
  <2>5. QED
    BY <1>1, <2>2, <2>3, <2>4 DEF TypeOK
<1>3. \/ rows' = [rows EXCEPT ![report[w].booking] = report[w].row]
         /\ calm' = (calm /\ ~Stale(w))
      \/ rows' = rows /\ calm' = calm
  BY DEF ReportPuts, ReportFails
<1>c. calm' \in BOOLEAN /\ (calm' => calm) /\ (rows' # rows /\ calm' => ~Stale(w))
  <2>1. calm \in BOOLEAN
    BY <1>1 DEF TypeOK
  <2>2. (calm /\ ~Stale(w)) \in BOOLEAN
    BY Zenon
  <2>3. calm' \in BOOLEAN
    BY <1>3, <2>1, <2>2, Zenon
  <2>4. calm' => calm
    BY <1>3, Zenon
  <2>5. rows' # rows /\ calm' => ~Stale(w)
    BY <1>3, Zenon
  <2>6. QED
    BY <2>3, <2>4, <2>5, Zenon
<1>4. /\ rows' \in [Requests -> Row \cup {NoRow}]
      /\ \A b \in Requests :
            rows'[b] = rows[b] \/ (b = report[w].booking /\ rows'[b] = report[w].row)
  BY <1>1, <1>2, <1>3 DEF TypeOK
<1>5. TypeOK'
  BY <1>1, <1>c, <1>4 DEF TypeOK
<1>6. \A b \in Requests : rows'[b] = NoRow <=> rows[b] = NoRow
  BY <1>2, <1>4
<1>7. ASSUME calm', NEW b \in Requests, NEW s PROVE Names(b, s)' <=> Names(b, s)
  <2>1. CASE rows'[b] = rows[b]
    BY <2>1 DEF Names
  <2>2. CASE rows'[b] # rows[b]
    <3>1. ~Stale(w) /\ b = report[w].booking /\ rows'[b] = report[w].row
      BY <1>c, <1>4, <1>7, <2>2
    <3>2. rows[b].status # "cancelled" /\ rows[b].slot = report[w].row.slot
      BY <3>1 DEF Stale
    <3>3. QED
      BY <1>2, <3>1, <3>2 DEF Names
  <2>3. QED
    BY <2>1, <2>2
<1>8. ASSUME NEW v \in Reports PROVE Reporting(v)'
  <2>1. Reporting(v) /\ (report[v] # NoReport => report[v].booking \in Requests)
    BY <1>1 DEF TypeOK, Report
  <2>2. report'[v] = IF v = w THEN NoReport ELSE report[v]
    BY <1>1 DEF TypeOK
  <2>3. QED
    BY <1>6, <2>1, <2>2 DEF Reporting
<1>9. QED
  BY <1>1, <1>c, <1>5, <1>6, <1>7, <1>8, OtherSteps

LEMMA InterviewKeeps ==
    ASSUME IInv, NEW w \in Reports, Interview(w)
    PROVE  IInv'
<1>1. ASSUME NEW b \in Requests,
             \/ Connects(w, b) \/ Completes(w, b) \/ FailsFromMedia(w, b)
             \/ Sweeps(w, b) \/ CancelSession(w, b)
      PROVE  IInv'
  <2>1. PICK before \in SUBSET {"scheduled", "in_progress"},
             next \in {"in_progress", "completed", "failed"} : Reads(w, b, before, next)
    BY <1>1 DEF Connects, Completes, FailsFromMedia, Sweeps, CancelSession
  <2>2. QED
    BY <2>1, ReadsKeep
<1>2. QED
  BY <1>1, ReportKeeps DEF Interview

LEMMA InitIInv == Init => IInv
<1> SUFFICES ASSUME Init PROVE IInv
  OBVIOUS
<1> USE SlotAssumption DEF Init
<1>1. TypeOK
  BY DEF TypeOK, Request, Pcs, Resting
<1>2. \A r \in Requests : Shape(r, req[r]) /\ Ended(r)
  BY DEF Shape, Books, Moves, Cancels, Resting, Ended
<1>3. \A r \in Requests : Read(req[r]) /\ \A s : ~Opened(req[r], s) /\ ~Holds(req[r], s)
  BY DEF Read, Opened, Holds, Cancels
<1>4. HoldersInv
  BY <1>3 DEF HoldersInv, Names
<1>5. \A w \in Reports : Reporting(w)
  BY DEF Reporting
<1>6. QED
  BY <1>1, <1>2, <1>3, <1>4, <1>5 DEF IInv, ShapeInv, CalmInv

LEMMA NextIInv == IInv /\ [Next]_vars => IInv'
<1> SUFFICES ASSUME IInv, [Next]_vars PROVE IInv'
  OBVIOUS
<1>1. ASSUME NEW r \in Requests, Book(r) PROVE IInv'
  BY <1>1, StartsKeep, ClaimKeeps, MoveOnKeeps, ReleaseKeeps, PutKeeps, MetaFailsKeeps DEF Book
<1>2. ASSUME NEW r \in Requests, Reschedule(r) PROVE IInv'
  BY <1>2, StartsKeep, ClaimKeeps, MoveOnKeeps, ReleaseKeeps, PutKeeps, MetaFailsKeeps
  DEF Reschedule
<1>3. ASSUME NEW r \in Requests, Cancel(r) PROVE IInv'
  BY <1>3, StartsKeep, MoveOnKeeps, ReleaseKeeps, PutKeeps DEF Cancel
<1>4. QED
  BY <1>1, <1>2, <1>3, StaffKeeps, InterviewKeeps DEF Next

-------------------------------------------------------------------------------

LEMMA AlwaysIInv == Spec => []IInv
  BY InitIInv, NextIInv, PTL DEF Spec

\* The requests, rows and slots are of their types, whatever fails or overlaps.
THEOREM TypeCorrect == Spec => []TypeOK
<1>1. IInv => TypeOK
  BY DEF IInv, ShapeInv
<1>2. QED
  BY <1>1, AlwaysIInv, PTL

\* As long as no candidate let two requests overlap, every write that failed was
\* one the code undoes and no report put back a row its candidate had moved or
\* cancelled since, a slot is claimed for exactly the session that names it and
\* was not cancelled by its candidate, whatever requests and reports do to each
\* other (candidate_service.py, session_service.py, scheduler.py, sessions.py).
THEOREM SlotsAreKept == Spec => []SlotsMatchSessions
<1>1. IInv => SlotsMatchSessions
  <2> SUFFICES ASSUME IInv, calm, Quiet
               PROVE  \A s \in Slots, b \in Requests : slot[s] = b <=> Names(b, s)
    BY DEF SlotsMatchSessions
  <2>1. \A r \in Requests, s \in Slots : ~Opened(req[r], s) /\ ~Holds(req[r], s)
    BY RestingHasNothing DEF Quiet, Ended
  <2>2. QED
    BY <2>1 DEF IInv, CalmInv, HoldersInv
<1>2. QED
  BY <1>1, AlwaysIInv, PTL

(***************************************************************************)
(* The page of an interview (ExamConnection), for any number of retries,    *)
(* attempts and sockets.  The invariant says of every moment that the socket*)
(* is settled while there is another way to the next connection, or none is *)
(* wanted (OldIsSettled): what it still does is not heeded.                 *)
(***************************************************************************)

\* The bounds are numbers.
Limits == MaxRetry \in Nat /\ MaxAttempts \in Nat /\ MaxSockets \in Nat

PhaseTyped == phase \in Phases

\* Nothing was done with what is not begun or opened yet.
Fresh ==
    /\ ws = opened
    /\ \A a \in Attempts : attempt[a] = "unused" <=> a > begun
    /\ \A s \in SocketIds : /\ socket[s] = "unused" <=> s > opened
                            /\ s > opened \/ socket[s] = "connecting" => heard[s] = "nothing"
                            /\ s < opened => socket[s] \in {"closing", "closed"}

\* The socket will change nothing any more.
Settled ==
    ws = 0 \/ socket[ws] = "closed" \/ (~MayAnswer(ws) /\ (handled \/ ended))

\* There is a way to the next connection that the socket has no part in.
UnderWayAtAll == retryTimers > 0 \/ \E a \in Attempts : UnderWay(a)

WayIsShown == UnderWayAtAll => phase = "connecting"
OldIsSettled == UnderWayAtAll \/ phase \in {"idle", "failed", "ended"} => Settled
ReadyWasHeard == phase \in {"live", "ending"} => ws # 0 /\ heard[ws] = "ready"
EndIsShown == ended => phase = "ended"

OneWay ==
    /\ retryTimers <= 1
    /\ \A a, b \in Attempts : UnderWay(a) /\ UnderWay(b) => a = b
    /\ \A a \in Attempts : UnderWay(a) => retryTimers = 0

MicInv ==
    /\ mic => context \/ gone
    /\ halfBuilt => mic
    /\ \A a \in Attempts : attempt[a] \in {"context", "microphone"} =>
          (~mic \/ halfBuilt) /\ (context \/ gone)

GoneInv == gone /\ ~leftBusy => handled

ExamInv ==
    /\ PhaseTyped /\ FlagsTyped /\ CountsTyped /\ AttemptsTyped /\ SocketsTyped
    /\ Fresh /\ WayIsShown /\ OldIsSettled /\ ReadyWasHeard /\ EndIsShown
    /\ OneWay /\ MicInv /\ GoneInv
    /\ AudioIsInvited /\ MicIsOff /\ NeverStuck /\ LeftInPeace


\* What each handler does to the invariant.
LEMMA StartExamStep ==
    ASSUME Limits, ExamInv, StartExam
    PROVE  ExamInv'
<1>1. /\ FlagsTyped' /\ SocketsTyped' /\ ReadyWasHeard' /\ EndIsShown' /\ MicInv'
      /\ GoneInv' /\ AudioIsInvited' /\ MicIsOff' /\ LeftInPeace'
  BY DEF ExamInv, FlagsTyped, SocketsTyped, ReadyWasHeard, EndIsShown, MicInv, GoneInv,
         AudioIsInvited, MicIsOff, LeftInPeace, StartExam, Begin, timerVars, socketVars
<1>2. PhaseTyped'
  BY DEF ExamInv, PhaseTyped, Phases, StartExam, Begin, timerVars, socketVars
<1>3. CountsTyped'
  BY DEF ExamInv, CountsTyped, Limits, StartExam, Begin, timerVars, socketVars
<1>4. AttemptsTyped'
  BY DEF ExamInv, AttemptsTyped, Attempts, Awaits, Limits, StartExam, Begin, timerVars,
         socketVars
<1>5. Fresh'
  BY DEF ExamInv, Fresh, AttemptsTyped, Attempts, Awaits, Limits, StartExam, Begin, timerVars,
         socketVars
<1>6. WayIsShown'
  BY DEF ExamInv, WayIsShown, UnderWayAtAll, StartExam, Begin, timerVars, socketVars
<1>7. OldIsSettled'
  BY DEF ExamInv, OldIsSettled, EndIsShown, UnderWayAtAll, UnderWay, Settled, MayAnswer,
         StartExam, Begin, timerVars, socketVars
<1>8. OneWay'
  BY DEF ExamInv, OneWay, CountsTyped, WayIsShown, UnderWayAtAll, UnderWay, StartExam, Begin,
         timerVars, socketVars
<1>9. NeverStuck'
  BY DEF ExamInv, NeverStuck, AttemptsTyped, Limits, UnderWay, Awaits, Attempts, StartExam,
         Begin, timerVars, socketVars
<1> QED BY <1>1, <1>2, <1>3, <1>4, <1>5, <1>6, <1>7, <1>8, <1>9 DEF ExamInv

LEMMA RetryStep ==
    ASSUME Limits, ExamInv, Retry
    PROVE  ExamInv'
<1>1. /\ FlagsTyped' /\ SocketsTyped' /\ ReadyWasHeard' /\ EndIsShown' /\ MicInv'
      /\ GoneInv' /\ AudioIsInvited' /\ MicIsOff' /\ LeftInPeace'
  BY DEF ExamInv, FlagsTyped, SocketsTyped, ReadyWasHeard, EndIsShown, MicInv, GoneInv,
         AudioIsInvited, MicIsOff, LeftInPeace, Retry, Begin, timerVars, socketVars
<1>2. PhaseTyped'
  BY DEF ExamInv, PhaseTyped, Phases, Retry, Begin, timerVars, socketVars
<1>3. CountsTyped'
  BY DEF ExamInv, CountsTyped, Limits, Retry, Begin, timerVars, socketVars
<1>4. AttemptsTyped'
  BY DEF ExamInv, AttemptsTyped, Attempts, Awaits, Limits, Retry, Begin, timerVars, socketVars
<1>5. Fresh'
  BY DEF ExamInv, Fresh, AttemptsTyped, Attempts, Awaits, Limits, Retry, Begin, timerVars,
         socketVars
<1>6. WayIsShown'
  BY DEF ExamInv, WayIsShown, UnderWayAtAll, Retry, Begin, timerVars, socketVars
<1>7. OldIsSettled'
  BY DEF ExamInv, OldIsSettled, WayIsShown, UnderWayAtAll, UnderWay, Settled, MayAnswer, Retry,
         Begin, timerVars, socketVars
<1>8. OneWay'
  BY DEF ExamInv, OneWay, CountsTyped, WayIsShown, UnderWayAtAll, UnderWay, Retry, Begin,
         timerVars, socketVars
<1>9. NeverStuck'
  BY DEF ExamInv, NeverStuck, AttemptsTyped, Limits, UnderWay, Awaits, Attempts, Retry, Begin,
         timerVars, socketVars
<1> QED BY <1>1, <1>2, <1>3, <1>4, <1>5, <1>6, <1>7, <1>8, <1>9 DEF ExamInv

LEMMA RetryFiresStep ==
    ASSUME Limits, ExamInv, RetryFires
    PROVE  ExamInv'
<1>1. /\ FlagsTyped' /\ CountsTyped' /\ SocketsTyped' /\ ReadyWasHeard' /\ EndIsShown'
      /\ MicInv' /\ GoneInv' /\ AudioIsInvited' /\ MicIsOff' /\ LeftInPeace'
  BY DEF ExamInv, FlagsTyped, CountsTyped, SocketsTyped, ReadyWasHeard, EndIsShown, MicInv,
         GoneInv, AudioIsInvited, MicIsOff, LeftInPeace, RetryFires, pageVars, audioVars,
         socketVars
<1>2. PhaseTyped'
  BY DEF ExamInv, PhaseTyped, Phases, RetryFires, pageVars, audioVars, socketVars
<1>3. AttemptsTyped'
  BY DEF ExamInv, AttemptsTyped, Attempts, Awaits, Limits, RetryFires, pageVars, audioVars,
         socketVars
<1>4. Fresh'
  BY DEF ExamInv, Fresh, AttemptsTyped, Attempts, Awaits, Limits, RetryFires, pageVars,
         audioVars, socketVars
<1>5. WayIsShown'
  BY DEF ExamInv, WayIsShown, UnderWayAtAll, RetryFires, pageVars, audioVars, socketVars
<1>6. OldIsSettled'
  BY DEF ExamInv, OldIsSettled, WayIsShown, UnderWayAtAll, UnderWay, Settled, MayAnswer,
         RetryFires, pageVars, audioVars, socketVars
<1>7. OneWay'
  BY DEF ExamInv, OneWay, CountsTyped, UnderWay, RetryFires, pageVars, audioVars, socketVars
<1>8. NeverStuck'
  BY DEF ExamInv, NeverStuck, AttemptsTyped, Limits, UnderWay, Awaits, Attempts, RetryFires,
         pageVars, audioVars, socketVars
<1> QED BY <1>1, <1>2, <1>3, <1>4, <1>5, <1>6, <1>7, <1>8 DEF ExamInv

LEMMA EndExamStep ==
    ASSUME Limits, ExamInv, EndExam
    PROVE  ExamInv'
<1>1. FlagsTyped'
  BY DEF ExamInv, FlagsTyped, EndExam, TeardownAudio, audioVars, attemptVars, socketVars
<1>2. CountsTyped'
  BY DEF ExamInv, CountsTyped, EndExam, TeardownAudio, audioVars, attemptVars, socketVars
<1>3. /\ AttemptsTyped' /\ SocketsTyped'
  BY DEF ExamInv, AttemptsTyped, SocketsTyped, EndExam, TeardownAudio, audioVars, attemptVars,
         socketVars
<1>4. Fresh'
  BY DEF ExamInv, Fresh, EndExam, TeardownAudio, audioVars, attemptVars, socketVars
<1>5. /\ ReadyWasHeard' /\ AudioIsInvited' /\ LeftInPeace'
  BY DEF ExamInv, ReadyWasHeard, AudioIsInvited, LeftInPeace, EndExam, TeardownAudio,
         audioVars, attemptVars, socketVars
<1>6. /\ EndIsShown' /\ GoneInv' /\ MicIsOff'
  BY DEF ExamInv, EndIsShown, GoneInv, MicIsOff, EndExam, TeardownAudio, audioVars,
         attemptVars, socketVars
<1>7. PhaseTyped'
  BY DEF ExamInv, PhaseTyped, Phases, EndExam, TeardownAudio, audioVars, attemptVars, socketVars
<1>8. WayIsShown'
  BY DEF ExamInv, WayIsShown, UnderWayAtAll, UnderWay, Awaits, AttemptsTyped, EndExam,
         TeardownAudio, audioVars, attemptVars, socketVars
<1>9. OneWay'
  BY DEF ExamInv, OneWay, UnderWay, EndExam, TeardownAudio, audioVars, attemptVars, socketVars
<1>10. MicInv'
  BY DEF ExamInv, MicInv, WayIsShown, UnderWayAtAll, UnderWay, Awaits, EndExam, TeardownAudio,
         audioVars, attemptVars, socketVars
<1>11. NeverStuck'
  BY DEF ExamInv, NeverStuck, UnderWay, AttemptsTyped, Awaits, EndExam, TeardownAudio,
         audioVars, attemptVars, socketVars
<1>12. OldIsSettled'
  <2>1. CASE phase' = "ending"
    <3>1. ~UnderWayAtAll' /\ phase' \notin {"idle", "failed", "ended"}
      BY <2>1 DEF ExamInv, WayIsShown, UnderWayAtAll, UnderWay, EndExam, attemptVars
    <3> QED BY <3>1 DEF OldIsSettled
  <2>2. CASE phase' # "ending"
    <3>1. ended' /\ ~(ws # 0 /\ socket[ws] = "open") /\ phase = "live"
      BY <2>2 DEF EndExam
    <3>2. ws # 0 => ws \in SocketIds /\ heard[ws] = "ready"
      BY <3>1 DEF ExamInv, ReadyWasHeard, SocketsTyped, SocketIds, Limits
    <3>3. ws = 0 \/ ~MayAnswer(ws)
      BY <3>1, <3>2 DEF ExamInv, Fresh, MayAnswer
    <3>4. UNCHANGED <<ws, socket, heard>>
      BY DEF EndExam, socketVars
    <3> QED BY <3>1, <3>3, <3>4 DEF OldIsSettled, Settled, MayAnswer
  <2> QED BY <2>1, <2>2
<1> QED BY <1>1, <1>2, <1>3, <1>4, <1>5, <1>6, <1>7, <1>8, <1>9, <1>10, <1>11, <1>12 DEF ExamInv

LEMMA EndFiresStep ==
    ASSUME Limits, ExamInv, EndFires
    PROVE  ExamInv'
<1>1. FlagsTyped'
  BY DEF ExamInv, FlagsTyped, EndFires, TeardownAudio, Shut, audioVars, attemptVars
<1>2. CountsTyped'
  BY DEF ExamInv, CountsTyped, EndFires, TeardownAudio, Shut, audioVars, attemptVars
<1>3. /\ AttemptsTyped' /\ SocketsTyped'
  BY DEF ExamInv, AttemptsTyped, SocketsTyped, EndFires, TeardownAudio, Shut, audioVars,
         attemptVars
<1>4. Fresh'
  BY DEF ExamInv, Fresh, EndFires, TeardownAudio, Shut, audioVars, attemptVars
<1>5. /\ ReadyWasHeard' /\ AudioIsInvited'
  BY DEF ExamInv, ReadyWasHeard, AudioIsInvited, EndFires, TeardownAudio, Shut, audioVars,
         attemptVars
<1>6. /\ EndIsShown' /\ GoneInv' /\ MicIsOff'
  BY DEF ExamInv, EndIsShown, GoneInv, MicIsOff, EndFires, TeardownAudio, Shut, audioVars,
         attemptVars
<1>7. PhaseTyped'
  BY DEF ExamInv, PhaseTyped, Phases, EndFires, TeardownAudio, Shut, audioVars, attemptVars
<1>8. WayIsShown'
  BY DEF ExamInv, WayIsShown, UnderWayAtAll, UnderWay, Awaits, AttemptsTyped, EndFires,
         TeardownAudio, Shut, audioVars, attemptVars
<1>9. OldIsSettled'
  BY DEF ExamInv, OldIsSettled, SocketsTyped, Limits, Settled, UnderWayAtAll, MayAnswer,
         UnderWay, SocketIds, EndFires, TeardownAudio, Shut, audioVars, attemptVars
<1>10. OneWay'
  BY DEF ExamInv, OneWay, UnderWay, EndFires, TeardownAudio, Shut, audioVars, attemptVars
<1>11. MicInv'
  BY DEF ExamInv, MicInv, WayIsShown, UnderWayAtAll, UnderWay, Awaits, EndFires, TeardownAudio,
         Shut, audioVars, attemptVars
<1>12. NeverStuck'
  BY DEF ExamInv, NeverStuck, UnderWay, AttemptsTyped, Awaits, EndFires, TeardownAudio, Shut,
         audioVars, attemptVars
<1>13. LeftInPeace'
  BY DEF ExamInv, LeftInPeace, UnderWay, Awaits, MayAnswer, EndFires, TeardownAudio, Shut,
         audioVars, attemptVars
<1> QED
  BY <1>1, <1>2, <1>3, <1>4, <1>5, <1>6, <1>7, <1>8, <1>9, <1>10, <1>11, <1>12, <1>13
    DEF ExamInv

LEMMA LeaveStep ==
    ASSUME Limits, ExamInv, Leave
    PROVE  ExamInv'
<1>1. FlagsTyped'
  BY DEF ExamInv, FlagsTyped, Leave, TeardownAudio, Shut, attemptVars
<1>2. CountsTyped'
  BY DEF ExamInv, CountsTyped, Leave, TeardownAudio, Shut, attemptVars
<1>3. /\ AttemptsTyped' /\ SocketsTyped'
  BY DEF ExamInv, AttemptsTyped, SocketsTyped, Leave, TeardownAudio, Shut, attemptVars
<1>4. Fresh'
  BY DEF ExamInv, Fresh, Leave, TeardownAudio, Shut, attemptVars
<1>5. /\ ReadyWasHeard' /\ AudioIsInvited' /\ NeverStuck'
  BY DEF ExamInv, ReadyWasHeard, AudioIsInvited, NeverStuck, Leave, TeardownAudio, Shut,
         attemptVars
<1>6. /\ EndIsShown' /\ MicInv' /\ GoneInv' /\ MicIsOff'
  BY DEF ExamInv, EndIsShown, MicInv, GoneInv, MicIsOff, Leave, TeardownAudio, Shut, attemptVars
<1>7. PhaseTyped'
  BY DEF ExamInv, PhaseTyped, Phases, Leave, TeardownAudio, Shut, attemptVars
<1>8. WayIsShown'
  BY DEF ExamInv, WayIsShown, CountsTyped, UnderWayAtAll, UnderWay, Leave, TeardownAudio, Shut,
         attemptVars
<1>9. OldIsSettled'
  BY DEF ExamInv, OldIsSettled, CountsTyped, SocketsTyped, Settled, UnderWayAtAll, MayAnswer,
         UnderWay, Leave, TeardownAudio, Shut, attemptVars
<1>10. OneWay'
  BY DEF ExamInv, OneWay, CountsTyped, UnderWay, Leave, TeardownAudio, Shut, attemptVars
<1>11. LeftInPeace'
  BY DEF ExamInv, LeftInPeace, CountsTyped, SocketsTyped, Fresh, OneWay, MayAnswer, UnderWay,
         SocketIds, Leave, TeardownAudio, Shut, attemptVars
<1> QED BY <1>1, <1>2, <1>3, <1>4, <1>5, <1>6, <1>7, <1>8, <1>9, <1>10, <1>11 DEF ExamInv

LEMMA ContextReadyStep ==
    ASSUME Limits, ExamInv, NEW a \in Attempts, ContextReady(a)
    PROVE  ExamInv'
<1>1. /\ FlagsTyped' /\ CountsTyped' /\ SocketsTyped' /\ Fresh' /\ ReadyWasHeard'
      /\ EndIsShown' /\ MicInv' /\ GoneInv' /\ AudioIsInvited' /\ MicIsOff'
  BY DEF ExamInv, FlagsTyped, CountsTyped, SocketsTyped, Fresh, ReadyWasHeard, EndIsShown,
         MicInv, GoneInv, AudioIsInvited, MicIsOff, ContextReady, pageVars, timerVars,
         audioVars, socketVars
<1>2. PhaseTyped'
  BY DEF ExamInv, PhaseTyped, Phases, ContextReady, pageVars, timerVars, audioVars, socketVars
<1>3. AttemptsTyped'
  BY DEF ExamInv, AttemptsTyped, Awaits, ContextReady, pageVars, timerVars, audioVars,
         socketVars
<1>4. WayIsShown'
  BY DEF ExamInv, WayIsShown, UnderWayAtAll, UnderWay, Awaits, AttemptsTyped, ContextReady,
         pageVars, timerVars, audioVars, socketVars
<1>5. OldIsSettled'
  BY DEF ExamInv, OldIsSettled, Settled, UnderWayAtAll, MayAnswer, UnderWay, Awaits,
         ContextReady, pageVars, timerVars, audioVars, socketVars
<1>6. OneWay'
  BY DEF ExamInv, OneWay, UnderWay, Awaits, AttemptsTyped, ContextReady, pageVars, timerVars,
         audioVars, socketVars
<1>7. NeverStuck'
  BY DEF ExamInv, NeverStuck, UnderWay, AttemptsTyped, Awaits, ContextReady, pageVars,
         timerVars, audioVars, socketVars
<1>8. LeftInPeace'
  BY DEF ExamInv, LeftInPeace, UnderWay, Awaits, MayAnswer, ContextReady, pageVars, timerVars,
         audioVars, socketVars
<1> QED BY <1>1, <1>2, <1>3, <1>4, <1>5, <1>6, <1>7, <1>8 DEF ExamInv

LEMMA ContextFailsStep ==
    ASSUME Limits, ExamInv, NEW a \in Attempts, ContextFails(a)
    PROVE  ExamInv'
<1>1. /\ FlagsTyped' /\ CountsTyped' /\ AttemptsTyped' /\ SocketsTyped' /\ Fresh'
      /\ MicInv' /\ GoneInv'
  BY DEF ExamInv, FlagsTyped, CountsTyped, AttemptsTyped, SocketsTyped, Fresh, MicInv, GoneInv,
         ContextFails, FallsBack, timerVars, audioVars, socketVars
<1>2. PhaseTyped'
  BY DEF ExamInv, PhaseTyped, Phases, AttemptsTyped, ContextFails, FallsBack, timerVars,
         audioVars, socketVars
<1>3. WayIsShown'
  BY DEF ExamInv, WayIsShown, OneWay, UnderWayAtAll, UnderWay, Awaits, AttemptsTyped,
         ContextFails, FallsBack, timerVars, audioVars, socketVars
<1>4. OldIsSettled'
  BY DEF ExamInv, OldIsSettled, Settled, UnderWayAtAll, MayAnswer, UnderWay, Awaits,
         ContextFails, FallsBack, timerVars, audioVars, socketVars
<1>5. ReadyWasHeard'
  BY DEF ExamInv, ReadyWasHeard, AttemptsTyped, ContextFails, FallsBack, timerVars, audioVars,
         socketVars
<1>6. EndIsShown'
  BY DEF ExamInv, EndIsShown, WayIsShown, UnderWayAtAll, UnderWay, Awaits, ContextFails,
         FallsBack, timerVars, audioVars, socketVars
<1>7. OneWay'
  BY DEF ExamInv, OneWay, UnderWay, Awaits, AttemptsTyped, ContextFails, FallsBack, timerVars,
         audioVars, socketVars
<1>8. AudioIsInvited'
  BY DEF ExamInv, AudioIsInvited, WayIsShown, UnderWayAtAll, UnderWay, Awaits, ContextFails,
         FallsBack, timerVars, audioVars, socketVars
<1>9. MicIsOff'
  BY DEF ExamInv, MicIsOff, MicInv, UnderWay, ContextFails, FallsBack, timerVars, audioVars,
         socketVars
<1>10. NeverStuck'
  BY DEF ExamInv, NeverStuck, UnderWay, AttemptsTyped, Awaits, ContextFails, FallsBack,
         timerVars, audioVars, socketVars
<1>11. LeftInPeace'
  BY DEF ExamInv, LeftInPeace, UnderWay, Awaits, MayAnswer, ContextFails, FallsBack, timerVars,
         audioVars, socketVars
<1> QED BY <1>1, <1>2, <1>3, <1>4, <1>5, <1>6, <1>7, <1>8, <1>9, <1>10, <1>11 DEF ExamInv

LEMMA MicGrantedStep ==
    ASSUME Limits, ExamInv, NEW a \in Attempts, MicGranted(a)
    PROVE  ExamInv'
<1>1. /\ FlagsTyped' /\ CountsTyped' /\ SocketsTyped' /\ Fresh' /\ ReadyWasHeard'
      /\ EndIsShown' /\ GoneInv' /\ AudioIsInvited'
  BY DEF ExamInv, FlagsTyped, CountsTyped, SocketsTyped, Fresh, ReadyWasHeard, EndIsShown,
         GoneInv, AudioIsInvited, MicGranted, pageVars, timerVars, socketVars
<1>2. PhaseTyped'
  BY DEF ExamInv, PhaseTyped, Phases, MicGranted, pageVars, timerVars, socketVars
<1>3. AttemptsTyped'
  BY DEF ExamInv, AttemptsTyped, Awaits, MicGranted, pageVars, timerVars, socketVars
<1>4. WayIsShown'
  BY DEF ExamInv, WayIsShown, UnderWayAtAll, UnderWay, Awaits, AttemptsTyped, MicGranted,
         pageVars, timerVars, socketVars
<1>5. OldIsSettled'
  BY DEF ExamInv, OldIsSettled, Settled, UnderWayAtAll, MayAnswer, UnderWay, Awaits,
         MicGranted, pageVars, timerVars, socketVars
<1>6. OneWay'
  BY DEF ExamInv, OneWay, UnderWay, Awaits, AttemptsTyped, MicGranted, pageVars, timerVars,
         socketVars
<1>7. MicInv'
  BY DEF ExamInv, MicInv, OneWay, UnderWay, Awaits, AttemptsTyped, MicGranted, pageVars,
         timerVars, socketVars
<1>8. MicIsOff'
  BY DEF ExamInv, MicIsOff, WayIsShown, UnderWayAtAll, UnderWay, Awaits, MicGranted, pageVars,
         timerVars, socketVars
<1>9. NeverStuck'
  BY DEF ExamInv, NeverStuck, UnderWay, AttemptsTyped, Awaits, MicGranted, pageVars, timerVars,
         socketVars
<1>10. LeftInPeace'
  BY DEF ExamInv, LeftInPeace, UnderWay, Awaits, MayAnswer, MicGranted, pageVars, timerVars,
         socketVars
<1> QED BY <1>1, <1>2, <1>3, <1>4, <1>5, <1>6, <1>7, <1>8, <1>9, <1>10 DEF ExamInv

LEMMA MicDeniedStep ==
    ASSUME Limits, ExamInv, NEW a \in Attempts, MicDenied(a)
    PROVE  ExamInv'
<1>1. /\ FlagsTyped' /\ CountsTyped' /\ AttemptsTyped' /\ SocketsTyped' /\ Fresh'
      /\ MicInv' /\ GoneInv'
  BY DEF ExamInv, FlagsTyped, CountsTyped, AttemptsTyped, SocketsTyped, Fresh, MicInv, GoneInv,
         MicDenied, FallsBack, timerVars, audioVars, socketVars
<1>2. PhaseTyped'
  BY DEF ExamInv, PhaseTyped, Phases, AttemptsTyped, MicDenied, FallsBack, timerVars,
         audioVars, socketVars
<1>3. WayIsShown'
  BY DEF ExamInv, WayIsShown, OneWay, UnderWayAtAll, UnderWay, Awaits, AttemptsTyped,
         MicDenied, FallsBack, timerVars, audioVars, socketVars
<1>4. OldIsSettled'
  BY DEF ExamInv, OldIsSettled, Settled, UnderWayAtAll, MayAnswer, UnderWay, Awaits, MicDenied,
         FallsBack, timerVars, audioVars, socketVars
<1>5. ReadyWasHeard'
  BY DEF ExamInv, ReadyWasHeard, AttemptsTyped, MicDenied, FallsBack, timerVars, audioVars,
         socketVars
<1>6. EndIsShown'
  BY DEF ExamInv, EndIsShown, WayIsShown, UnderWayAtAll, UnderWay, Awaits, MicDenied,
         FallsBack, timerVars, audioVars, socketVars
<1>7. OneWay'
  BY DEF ExamInv, OneWay, UnderWay, Awaits, AttemptsTyped, MicDenied, FallsBack, timerVars,
         audioVars, socketVars
<1>8. AudioIsInvited'
  BY DEF ExamInv, AudioIsInvited, WayIsShown, UnderWayAtAll, UnderWay, Awaits, MicDenied,
         FallsBack, timerVars, audioVars, socketVars
<1>9. MicIsOff'
  BY DEF ExamInv, MicIsOff, MicInv, UnderWay, MicDenied, FallsBack, timerVars, audioVars,
         socketVars
<1>10. NeverStuck'
  BY DEF ExamInv, NeverStuck, UnderWay, AttemptsTyped, Awaits, MicDenied, FallsBack, timerVars,
         audioVars, socketVars
<1>11. LeftInPeace'
  BY DEF ExamInv, LeftInPeace, UnderWay, Awaits, MayAnswer, MicDenied, FallsBack, timerVars,
         audioVars, socketVars
<1> QED BY <1>1, <1>2, <1>3, <1>4, <1>5, <1>6, <1>7, <1>8, <1>9, <1>10, <1>11 DEF ExamInv

LEMMA CaptureFailsStep ==
    ASSUME Limits, ExamInv, NEW a \in Attempts, CaptureFails(a)
    PROVE  ExamInv'
<1>1. /\ FlagsTyped' /\ CountsTyped' /\ AttemptsTyped' /\ SocketsTyped' /\ Fresh'
      /\ MicInv' /\ GoneInv' /\ MicIsOff'
  BY DEF ExamInv, FlagsTyped, CountsTyped, AttemptsTyped, SocketsTyped, Fresh, MicInv, GoneInv,
         MicIsOff, CaptureFails, FallsBack, timerVars, socketVars
<1>2. PhaseTyped'
  BY DEF ExamInv, PhaseTyped, Phases, AttemptsTyped, CaptureFails, FallsBack, timerVars,
         socketVars
<1>3. WayIsShown'
  BY DEF ExamInv, WayIsShown, OneWay, UnderWayAtAll, UnderWay, Awaits, AttemptsTyped,
         CaptureFails, FallsBack, timerVars, socketVars
<1>4. OldIsSettled'
  BY DEF ExamInv, OldIsSettled, Settled, UnderWayAtAll, MayAnswer, UnderWay, Awaits,
         CaptureFails, FallsBack, timerVars, socketVars
<1>5. ReadyWasHeard'
  BY DEF ExamInv, ReadyWasHeard, AttemptsTyped, CaptureFails, FallsBack, timerVars, socketVars
<1>6. EndIsShown'
  BY DEF ExamInv, EndIsShown, WayIsShown, UnderWayAtAll, UnderWay, Awaits, CaptureFails,
         FallsBack, timerVars, socketVars
<1>7. OneWay'
  BY DEF ExamInv, OneWay, UnderWay, Awaits, AttemptsTyped, CaptureFails, FallsBack, timerVars,
         socketVars
<1>8. AudioIsInvited'
  BY DEF ExamInv, AudioIsInvited, WayIsShown, UnderWayAtAll, UnderWay, Awaits, CaptureFails,
         FallsBack, timerVars, socketVars
<1>9. NeverStuck'
  BY DEF ExamInv, NeverStuck, UnderWay, AttemptsTyped, Awaits, CaptureFails, FallsBack,
         timerVars, socketVars
<1>10. LeftInPeace'
  BY DEF ExamInv, LeftInPeace, UnderWay, Awaits, MayAnswer, CaptureFails, FallsBack, timerVars,
         socketVars
<1> QED BY <1>1, <1>2, <1>3, <1>4, <1>5, <1>6, <1>7, <1>8, <1>9, <1>10 DEF ExamInv

LEMMA JoinRefusedStep ==
    ASSUME Limits, ExamInv, NEW a \in Attempts, JoinRefused(a)
    PROVE  ExamInv'
<1>1. /\ FlagsTyped' /\ CountsTyped' /\ AttemptsTyped' /\ SocketsTyped' /\ Fresh'
      /\ ReadyWasHeard' /\ GoneInv' /\ AudioIsInvited' /\ MicIsOff' /\ NeverStuck'
  BY DEF ExamInv, FlagsTyped, CountsTyped, AttemptsTyped, SocketsTyped, Fresh, ReadyWasHeard,
         GoneInv, AudioIsInvited, MicIsOff, NeverStuck, JoinRefused, TeardownAudio, timerVars,
         socketVars
<1>2. PhaseTyped'
  BY DEF ExamInv, PhaseTyped, Phases, JoinRefused, TeardownAudio, timerVars, socketVars
<1>3. WayIsShown'
  BY DEF ExamInv, WayIsShown, OneWay, UnderWayAtAll, UnderWay, Awaits, AttemptsTyped,
         JoinRefused, TeardownAudio, timerVars, socketVars
<1>4. OldIsSettled'
  BY DEF ExamInv, OldIsSettled, Settled, UnderWayAtAll, MayAnswer, UnderWay, Awaits,
         JoinRefused, TeardownAudio, timerVars, socketVars
<1>5. EndIsShown'
  BY DEF ExamInv, EndIsShown, WayIsShown, UnderWayAtAll, UnderWay, Awaits, JoinRefused,
         TeardownAudio, timerVars, socketVars
<1>6. OneWay'
  BY DEF ExamInv, OneWay, UnderWay, Awaits, AttemptsTyped, JoinRefused, TeardownAudio,
         timerVars, socketVars
<1>7. MicInv'
  BY DEF ExamInv, MicInv, OneWay, UnderWay, Awaits, AttemptsTyped, JoinRefused, TeardownAudio,
         timerVars, socketVars
<1>8. LeftInPeace'
  BY DEF ExamInv, LeftInPeace, UnderWay, Awaits, MayAnswer, JoinRefused, TeardownAudio,
         timerVars, socketVars
<1> QED BY <1>1, <1>2, <1>3, <1>4, <1>5, <1>6, <1>7, <1>8 DEF ExamInv

LEMMA JoinGrantedStep ==
    ASSUME Limits, ExamInv, NEW a \in Attempts, JoinGranted(a)
    PROVE  ExamInv'
<1>1. /\ FlagsTyped' /\ CountsTyped' /\ AttemptsTyped' /\ EndIsShown' /\ MicInv'
      /\ AudioIsInvited' /\ MicIsOff'
  BY DEF ExamInv, FlagsTyped, CountsTyped, AttemptsTyped, EndIsShown, MicInv, AudioIsInvited,
         MicIsOff, JoinGranted, Shut, timerVars, audioVars
<1>2. PhaseTyped'
  BY DEF ExamInv, PhaseTyped, Phases, JoinGranted, Shut, timerVars, audioVars
<1>3. SocketsTyped'
  BY DEF ExamInv, SocketsTyped, SocketIds, Limits, JoinGranted, Shut, timerVars, audioVars
<1>4. Fresh'
  BY DEF ExamInv, Fresh, SocketsTyped, SocketIds, JoinGranted, Shut, timerVars, audioVars
<1>5. WayIsShown'
  BY DEF ExamInv, WayIsShown, UnderWayAtAll, UnderWay, Awaits, AttemptsTyped, JoinGranted,
         Shut, timerVars, audioVars
<1>6. OldIsSettled'
  BY DEF ExamInv, OldIsSettled, AttemptsTyped, WayIsShown, OneWay, UnderWayAtAll, UnderWay,
         Awaits, JoinGranted, Shut, timerVars, audioVars
<1>7. ReadyWasHeard'
  BY DEF ExamInv, ReadyWasHeard, WayIsShown, UnderWayAtAll, UnderWay, Awaits, JoinGranted,
         Shut, timerVars, audioVars
<1>8. OneWay'
  BY DEF ExamInv, OneWay, UnderWay, Awaits, AttemptsTyped, JoinGranted, Shut, timerVars,
         audioVars
<1>9. GoneInv'
  BY DEF ExamInv, GoneInv, LeftInPeace, UnderWay, Awaits, JoinGranted, Shut, timerVars,
         audioVars
<1>10. NeverStuck'
  BY DEF ExamInv, NeverStuck, SocketsTyped, Fresh, EndIsShown, Limits, SocketIds, JoinGranted,
         Shut, timerVars, audioVars
<1>11. LeftInPeace'
  BY DEF ExamInv, LeftInPeace, UnderWay, Awaits, MayAnswer, JoinGranted, Shut, timerVars,
         audioVars
<1> QED BY <1>1, <1>2, <1>3, <1>4, <1>5, <1>6, <1>7, <1>8, <1>9, <1>10, <1>11 DEF ExamInv

LEMMA SocketOpensStep ==
    ASSUME Limits, ExamInv, NEW s \in SocketIds, SocketOpens(s)
    PROVE  ExamInv'
<1>1. /\ FlagsTyped' /\ CountsTyped' /\ AttemptsTyped' /\ SocketsTyped' /\ Fresh'
      /\ ReadyWasHeard' /\ EndIsShown' /\ MicInv' /\ GoneInv' /\ AudioIsInvited'
      /\ MicIsOff'
  BY DEF ExamInv, FlagsTyped, CountsTyped, AttemptsTyped, SocketsTyped, Fresh, ReadyWasHeard,
         EndIsShown, MicInv, GoneInv, AudioIsInvited, MicIsOff, SocketOpens, pageVars, timerVars,
         audioVars, attemptVars
<1>2. PhaseTyped'
  BY DEF ExamInv, PhaseTyped, Phases, SocketOpens, pageVars, timerVars, audioVars, attemptVars
<1>3. WayIsShown'
  BY DEF ExamInv, WayIsShown, UnderWayAtAll, UnderWay, Awaits, AttemptsTyped, SocketOpens, pageVars,
         timerVars, audioVars, attemptVars
<1>4. OldIsSettled'
  BY DEF ExamInv, OldIsSettled, WayIsShown, UnderWayAtAll, UnderWay, Settled, MayAnswer, SocketOpens,
         pageVars, timerVars, audioVars, attemptVars
<1>5. OneWay'
  BY DEF ExamInv, OneWay, UnderWay, SocketOpens, pageVars, timerVars, audioVars, attemptVars
<1>6. NeverStuck'
  BY DEF ExamInv, NeverStuck, UnderWay, AttemptsTyped, Awaits, SocketOpens, pageVars, timerVars,
         audioVars, attemptVars
<1>7. LeftInPeace'
  BY DEF ExamInv, LeftInPeace, UnderWay, Awaits, MayAnswer, SocketOpens, pageVars, timerVars,
         audioVars, attemptVars
<1> QED BY <1>1, <1>2, <1>3, <1>4, <1>5, <1>6, <1>7 DEF ExamInv

LEMMA ServerClosesStep ==
    ASSUME Limits, ExamInv, NEW s \in SocketIds, ServerCloses(s)
    PROVE  ExamInv'
<1>1. /\ FlagsTyped' /\ CountsTyped' /\ AttemptsTyped' /\ SocketsTyped' /\ Fresh'
      /\ ReadyWasHeard' /\ EndIsShown' /\ MicInv' /\ GoneInv' /\ AudioIsInvited'
      /\ MicIsOff'
  BY DEF ExamInv, FlagsTyped, CountsTyped, AttemptsTyped, SocketsTyped, Fresh, ReadyWasHeard,
         EndIsShown, MicInv, GoneInv, AudioIsInvited, MicIsOff, ServerCloses, pageVars,
         timerVars, audioVars, attemptVars
<1>2. PhaseTyped'
  BY DEF ExamInv, PhaseTyped, Phases, ServerCloses, pageVars, timerVars, audioVars, attemptVars
<1>3. WayIsShown'
  BY DEF ExamInv, WayIsShown, UnderWayAtAll, UnderWay, Awaits, AttemptsTyped, ServerCloses,
         pageVars, timerVars, audioVars, attemptVars
<1>4. OldIsSettled'
  BY DEF ExamInv, OldIsSettled, WayIsShown, UnderWayAtAll, UnderWay, Settled, MayAnswer,
         ServerCloses, pageVars, timerVars, audioVars, attemptVars
<1>5. OneWay'
  BY DEF ExamInv, OneWay, UnderWay, ServerCloses, pageVars, timerVars, audioVars, attemptVars
<1>6. NeverStuck'
  BY DEF ExamInv, NeverStuck, UnderWay, AttemptsTyped, Awaits, ServerCloses, pageVars,
         timerVars, audioVars, attemptVars
<1>7. LeftInPeace'
  BY DEF ExamInv, LeftInPeace, UnderWay, Awaits, MayAnswer, ServerCloses, pageVars, timerVars,
         audioVars, attemptVars
<1> QED BY <1>1, <1>2, <1>3, <1>4, <1>5, <1>6, <1>7 DEF ExamInv

LEMMA OnReadyStep ==
    ASSUME Limits, ExamInv, NEW s \in SocketIds, OnReady(s)
    PROVE  ExamInv'
<1>1. /\ FlagsTyped' /\ AttemptsTyped' /\ SocketsTyped' /\ Fresh' /\ MicInv'
      /\ GoneInv' /\ MicIsOff'
  BY DEF ExamInv, FlagsTyped, AttemptsTyped, SocketsTyped, Fresh, MicInv, GoneInv, MicIsOff,
         OnReady, Receives, timerVars, audioVars, attemptVars
<1>2. PhaseTyped'
  BY DEF ExamInv, PhaseTyped, Phases, OnReady, Receives, timerVars, audioVars, attemptVars
<1>3. CountsTyped'
  BY DEF ExamInv, CountsTyped, Limits, OnReady, Receives, timerVars, audioVars, attemptVars
<1>4. WayIsShown'
  BY DEF ExamInv, WayIsShown, OldIsSettled, Settled, UnderWayAtAll, MayAnswer, UnderWay,
         SocketIds, OnReady, Receives, timerVars, audioVars, attemptVars
<1>5. OldIsSettled'
  BY DEF ExamInv, OldIsSettled, WayIsShown, UnderWayAtAll, UnderWay, Settled, MayAnswer,
         OnReady, Receives, timerVars, audioVars, attemptVars
<1>6. ReadyWasHeard'
  BY DEF ExamInv, ReadyWasHeard, SocketsTyped, SocketIds, OnReady, Receives, timerVars,
         audioVars, attemptVars
<1>7. EndIsShown'
  BY DEF ExamInv, EndIsShown, OldIsSettled, Settled, MayAnswer, SocketIds, OnReady, Receives,
         timerVars, audioVars, attemptVars
<1>8. OneWay'
  BY DEF ExamInv, OneWay, UnderWay, OnReady, Receives, timerVars, audioVars, attemptVars
<1>9. NeverStuck'
  BY DEF ExamInv, NeverStuck, PhaseTyped, OldIsSettled, Settled, MayAnswer, UnderWay, Phases,
         SocketIds, OnReady, Receives, timerVars, audioVars, attemptVars
<1>10. LeftInPeace'
  BY DEF ExamInv, LeftInPeace, UnderWay, Awaits, MayAnswer, OnReady, Receives, timerVars,
         audioVars, attemptVars
<1>11. AudioIsInvited'
  <2>1. heard \in [SocketIds -> {"nothing", "ready", "over"}] /\ ws' = ws
    BY DEF ExamInv, SocketsTyped, OnReady
  <2>2. CASE ws = s
    <3>1. phase' = "live" /\ ws # 0 /\ heard'[ws] = "ready"
      BY <2>1, <2>2 DEF OnReady, Receives, SocketIds
    <3> QED BY <2>1, <3>1 DEF AudioIsInvited
  <2>3. CASE ws # s
    <3>1. sendsAudio' = sendsAudio /\ phase' = phase /\ heard'[ws] = heard[ws]
      BY <2>1, <2>3 DEF OnReady, Receives
    <3> QED BY <2>1, <3>1 DEF ExamInv, AudioIsInvited
  <2> QED BY <2>2, <2>3
<1> QED BY <1>1, <1>2, <1>3, <1>4, <1>5, <1>6, <1>7, <1>8, <1>9, <1>10, <1>11 DEF ExamInv

LEMMA OnEndedStep ==
    ASSUME Limits, ExamInv, NEW s \in SocketIds, OnEnded(s)
    PROVE  ExamInv'
<1>1. FlagsTyped'
  BY DEF ExamInv, FlagsTyped, OnEnded, Receives, TeardownAudio, audioVars, attemptVars
<1>2. CountsTyped'
  BY DEF ExamInv, CountsTyped, OnEnded, Receives, TeardownAudio, audioVars, attemptVars
<1>3. /\ AttemptsTyped' /\ SocketsTyped'
  BY DEF ExamInv, AttemptsTyped, SocketsTyped, OnEnded, Receives, TeardownAudio, audioVars,
         attemptVars
<1>4. Fresh'
  BY DEF ExamInv, Fresh, OnEnded, Receives, TeardownAudio, audioVars, attemptVars
<1>5. ReadyWasHeard'
  BY DEF ExamInv, ReadyWasHeard, OnEnded, Receives, TeardownAudio, audioVars, attemptVars
<1>6. /\ EndIsShown' /\ GoneInv' /\ MicIsOff'
  BY DEF ExamInv, EndIsShown, GoneInv, MicIsOff, OnEnded, Receives, TeardownAudio, audioVars,
         attemptVars
<1>7. PhaseTyped'
  BY DEF ExamInv, PhaseTyped, Phases, OnEnded, Receives, TeardownAudio, audioVars, attemptVars
<1>8. WayIsShown'
  BY DEF ExamInv, WayIsShown, OldIsSettled, Settled, UnderWayAtAll, MayAnswer, UnderWay,
         SocketIds, OnEnded, Receives, TeardownAudio, audioVars, attemptVars
<1>9. OldIsSettled'
  BY DEF ExamInv, OldIsSettled, UnderWayAtAll, UnderWay, Settled, MayAnswer, SocketsTyped,
         OnEnded, Receives, TeardownAudio, audioVars, attemptVars
<1>10. OneWay'
  BY DEF ExamInv, OneWay, UnderWay, OnEnded, Receives, TeardownAudio, audioVars, attemptVars
<1>11. MicInv'
  BY DEF ExamInv, MicInv, OldIsSettled, Settled, UnderWayAtAll, MayAnswer, UnderWay, Awaits,
         SocketIds, OnEnded, Receives, TeardownAudio, audioVars, attemptVars
<1>12. NeverStuck'
  BY DEF ExamInv, NeverStuck, UnderWay, AttemptsTyped, Awaits, OnEnded, Receives,
         TeardownAudio, audioVars, attemptVars
<1>13. LeftInPeace'
  BY DEF ExamInv, LeftInPeace, UnderWay, Awaits, MayAnswer, OnEnded, Receives, TeardownAudio,
         audioVars, attemptVars
<1>14. AudioIsInvited'
  <2>1. heard \in [SocketIds -> {"nothing", "ready", "over"}] /\ ws' = ws
    BY DEF ExamInv, SocketsTyped, OnEnded
  <2>2. CASE ws = s
    <3>1. ~sendsAudio'
      BY <2>2 DEF ExamInv, AudioIsInvited, OnEnded, TeardownAudio
    <3> QED BY <3>1 DEF AudioIsInvited
  <2>3. CASE ws # s
    <3>1. sendsAudio' = sendsAudio /\ phase' = phase /\ heard'[ws] = heard[ws]
      BY <2>1, <2>3 DEF Receives, OnEnded
    <3> QED BY <2>1, <3>1 DEF ExamInv, AudioIsInvited
  <2> QED BY <2>2, <2>3
<1> QED
  BY <1>1, <1>2, <1>3, <1>4, <1>5, <1>6, <1>7, <1>8, <1>9, <1>10, <1>11, <1>12, <1>13, <1>14
    DEF ExamInv

LEMMA OnNotReadyStep ==
    ASSUME Limits, ExamInv, NEW s \in SocketIds, OnNotReady(s)
    PROVE  ExamInv'
<1>1. FlagsTyped'
  BY DEF ExamInv, FlagsTyped, OnNotReady, Receives, ScheduleRetry, TeardownAudio, audioVars,
         attemptVars
<1>2. /\ AttemptsTyped' /\ SocketsTyped'
  BY DEF ExamInv, AttemptsTyped, SocketsTyped, OnNotReady, Receives, ScheduleRetry,
         TeardownAudio, audioVars, attemptVars
<1>3. Fresh'
  BY DEF ExamInv, Fresh, OnNotReady, Receives, ScheduleRetry, TeardownAudio, audioVars,
         attemptVars
<1>4. ReadyWasHeard'
  BY DEF ExamInv, ReadyWasHeard, OnNotReady, Receives, ScheduleRetry, TeardownAudio, audioVars,
         attemptVars
<1>5. /\ GoneInv' /\ MicIsOff'
  BY DEF ExamInv, GoneInv, MicIsOff, OnNotReady, Receives, ScheduleRetry, TeardownAudio,
         audioVars, attemptVars
<1>6. PhaseTyped'
  BY DEF ExamInv, PhaseTyped, Phases, OnNotReady, Receives, ScheduleRetry, TeardownAudio,
         audioVars, attemptVars
<1>7. CountsTyped'
  BY DEF ExamInv, CountsTyped, Limits, OnNotReady, Receives, ScheduleRetry, TeardownAudio,
         audioVars, attemptVars
<1>8. WayIsShown'
  BY DEF ExamInv, WayIsShown, OldIsSettled, Settled, UnderWayAtAll, MayAnswer, UnderWay,
         SocketIds, OnNotReady, Receives, ScheduleRetry, TeardownAudio, audioVars, attemptVars
<1>9. OldIsSettled'
  BY DEF ExamInv, OldIsSettled, UnderWayAtAll, UnderWay, Settled, MayAnswer, SocketsTyped,
         OnNotReady, Receives, ScheduleRetry, TeardownAudio, audioVars, attemptVars
<1>10. EndIsShown'
  BY DEF ExamInv, EndIsShown, OldIsSettled, Settled, MayAnswer, SocketIds, OnNotReady,
         Receives, ScheduleRetry, TeardownAudio, audioVars, attemptVars
<1>11. OneWay'
  BY DEF ExamInv, OneWay, CountsTyped, OldIsSettled, Settled, UnderWayAtAll, MayAnswer,
         UnderWay, SocketIds, OnNotReady, Receives, ScheduleRetry, TeardownAudio, audioVars,
         attemptVars
<1>12. MicInv'
  BY DEF ExamInv, MicInv, OldIsSettled, Settled, UnderWayAtAll, MayAnswer, UnderWay, Awaits,
         SocketIds, OnNotReady, Receives, ScheduleRetry, TeardownAudio, audioVars, attemptVars
<1>13. NeverStuck'
  BY DEF ExamInv, NeverStuck, FlagsTyped, CountsTyped, SocketsTyped, Fresh, SocketIds,
         OnNotReady, Receives, ScheduleRetry, TeardownAudio, audioVars, attemptVars
<1>14. LeftInPeace'
  BY DEF ExamInv, LeftInPeace, UnderWay, Awaits, MayAnswer, OnNotReady, Receives,
         ScheduleRetry, TeardownAudio, audioVars, attemptVars
<1>15. AudioIsInvited'
  <2>1. heard \in [SocketIds -> {"nothing", "ready", "over"}] /\ ws' = ws
    BY DEF ExamInv, SocketsTyped, OnNotReady
  <2>2. CASE ws = s
    <3>1. ~sendsAudio'
      BY <2>2 DEF ExamInv, AudioIsInvited, OnNotReady, ScheduleRetry, TeardownAudio, audioVars
    <3> QED BY <3>1 DEF AudioIsInvited
  <2>3. CASE ws # s
    <3>1. sendsAudio' = sendsAudio /\ phase' = phase /\ heard'[ws] = heard[ws]
      BY <2>1, <2>3 DEF Receives, OnNotReady
    <3> QED BY <2>1, <3>1 DEF ExamInv, AudioIsInvited
  <2> QED BY <2>2, <2>3
<1> QED
  BY <1>1, <1>2, <1>3, <1>4, <1>5, <1>6, <1>7, <1>8, <1>9, <1>10, <1>11, <1>12, <1>13, <1>14, <1>15
    DEF ExamInv

LEMMA OnErrorStep ==
    ASSUME Limits, ExamInv, NEW s \in SocketIds, NEW o \in {"ended", "failed"}, OnError(s, o)
    PROVE  ExamInv'
<1>1. FlagsTyped'
  BY DEF ExamInv, FlagsTyped, OnError, Receives, TeardownAudio, timerVars, audioVars,
         attemptVars
<1>2. CountsTyped'
  BY DEF ExamInv, CountsTyped, OnError, Receives, TeardownAudio, timerVars, audioVars,
         attemptVars
<1>3. /\ AttemptsTyped' /\ SocketsTyped'
  BY DEF ExamInv, AttemptsTyped, SocketsTyped, OnError, Receives, TeardownAudio, timerVars,
         audioVars, attemptVars
<1>4. Fresh'
  BY DEF ExamInv, Fresh, OnError, Receives, TeardownAudio, timerVars, audioVars, attemptVars
<1>5. ReadyWasHeard'
  BY DEF ExamInv, ReadyWasHeard, OnError, Receives, TeardownAudio, timerVars, audioVars,
         attemptVars
<1>6. /\ GoneInv' /\ MicIsOff'
  BY DEF ExamInv, GoneInv, MicIsOff, OnError, Receives, TeardownAudio, timerVars, audioVars,
         attemptVars
<1>7. PhaseTyped'
  BY DEF ExamInv, PhaseTyped, Phases, OnError, Receives, TeardownAudio, timerVars, audioVars,
         attemptVars
<1>8. WayIsShown'
  BY DEF ExamInv, WayIsShown, OldIsSettled, Settled, UnderWayAtAll, MayAnswer, UnderWay,
         SocketIds, OnError, Receives, TeardownAudio, timerVars, audioVars, attemptVars
<1>9. OldIsSettled'
  BY DEF ExamInv, OldIsSettled, UnderWayAtAll, UnderWay, Settled, MayAnswer, SocketsTyped,
         OnError, Receives, TeardownAudio, timerVars, audioVars, attemptVars
<1>10. EndIsShown'
  BY DEF ExamInv, EndIsShown, OldIsSettled, Settled, MayAnswer, SocketIds, OnError, Receives,
         TeardownAudio, timerVars, audioVars, attemptVars
<1>11. OneWay'
  BY DEF ExamInv, OneWay, UnderWay, OnError, Receives, TeardownAudio, timerVars, audioVars,
         attemptVars
<1>12. MicInv'
  BY DEF ExamInv, MicInv, OldIsSettled, Settled, UnderWayAtAll, MayAnswer, UnderWay, Awaits,
         SocketIds, OnError, Receives, TeardownAudio, timerVars, audioVars, attemptVars
<1>13. NeverStuck'
  BY DEF ExamInv, NeverStuck, UnderWay, AttemptsTyped, Awaits, OnError, Receives,
         TeardownAudio, timerVars, audioVars, attemptVars
<1>14. LeftInPeace'
  BY DEF ExamInv, LeftInPeace, UnderWay, Awaits, MayAnswer, OnError, Receives, TeardownAudio,
         timerVars, audioVars, attemptVars
<1>15. AudioIsInvited'
  <2>1. heard \in [SocketIds -> {"nothing", "ready", "over"}] /\ ws' = ws
    BY DEF ExamInv, SocketsTyped, OnError
  <2>2. CASE ws = s
    <3>1. ~sendsAudio'
      BY <2>2 DEF ExamInv, AudioIsInvited, OnError, TeardownAudio
    <3> QED BY <3>1 DEF AudioIsInvited
  <2>3. CASE ws # s
    <3>1. sendsAudio' = sendsAudio /\ phase' = phase /\ heard'[ws] = heard[ws]
      BY <2>1, <2>3 DEF Receives, OnError
    <3> QED BY <2>1, <3>1 DEF ExamInv, AudioIsInvited
  <2> QED BY <2>2, <2>3
<1> QED
  BY <1>1, <1>2, <1>3, <1>4, <1>5, <1>6, <1>7, <1>8, <1>9, <1>10, <1>11, <1>12, <1>13, <1>14, <1>15
    DEF ExamInv

LEMMA OnCloseStep ==
    ASSUME Limits, ExamInv, NEW s \in SocketIds, OnClose(s)
    PROVE  ExamInv'
<1>1. /\ FlagsTyped' /\ AttemptsTyped' /\ SocketsTyped' /\ Fresh' /\ ReadyWasHeard'
      /\ EndIsShown' /\ GoneInv' /\ AudioIsInvited' /\ MicIsOff'
  BY DEF ExamInv, FlagsTyped, AttemptsTyped, SocketsTyped, Fresh, ReadyWasHeard, EndIsShown,
         GoneInv, AudioIsInvited, MicIsOff, OnClose, ScheduleRetry, TeardownAudio, audioVars,
         attemptVars
<1>2. PhaseTyped'
  BY DEF ExamInv, PhaseTyped, Phases, OnClose, ScheduleRetry, TeardownAudio, audioVars,
         attemptVars
<1>3. CountsTyped'
  BY DEF ExamInv, CountsTyped, Limits, OnClose, ScheduleRetry, TeardownAudio, audioVars,
         attemptVars
<1>4. WayIsShown'
  BY DEF ExamInv, WayIsShown, OldIsSettled, Settled, UnderWayAtAll, UnderWay, SocketIds,
         OnClose, ScheduleRetry, TeardownAudio, audioVars, attemptVars
<1>5. OldIsSettled'
  BY DEF ExamInv, OldIsSettled, UnderWayAtAll, UnderWay, Settled, MayAnswer, SocketsTyped,
         OnClose, ScheduleRetry, TeardownAudio, audioVars, attemptVars
<1>6. OneWay'
  BY DEF ExamInv, OneWay, CountsTyped, OldIsSettled, Settled, UnderWayAtAll, UnderWay,
         SocketIds, OnClose, ScheduleRetry, TeardownAudio, audioVars, attemptVars
<1>7. MicInv'
  BY DEF ExamInv, MicInv, OldIsSettled, Settled, UnderWayAtAll, UnderWay, Awaits, SocketIds,
         OnClose, ScheduleRetry, TeardownAudio, audioVars, attemptVars
<1>8. NeverStuck'
  BY DEF ExamInv, NeverStuck, CountsTyped, UnderWay, OnClose, ScheduleRetry, TeardownAudio,
         audioVars, attemptVars
<1>9. LeftInPeace'
  BY DEF ExamInv, LeftInPeace, GoneInv, UnderWay, Awaits, MayAnswer, OneWay, OnClose,
         ScheduleRetry, TeardownAudio, audioVars, attemptVars
<1> QED BY <1>1, <1>2, <1>3, <1>4, <1>5, <1>6, <1>7, <1>8, <1>9 DEF ExamInv

\* The empty page has the invariant, and each step keeps it.
LEMMA ExamInit_Inv == ASSUME Limits, ExamInit PROVE ExamInv
<1>1. PhaseTyped /\ FlagsTyped
  BY DEF ExamInit, PhaseTyped, Phases, FlagsTyped
<1>2. CountsTyped
  BY DEF Limits, ExamInit, CountsTyped
<1>3. AttemptsTyped /\ SocketsTyped
  BY DEF Limits, ExamInit, AttemptsTyped, SocketsTyped, Awaits
<1>4. Fresh
  BY DEF Limits, ExamInit, Fresh, Attempts, SocketIds
<1>5. \A a \in Attempts : ~UnderWay(a)
  BY DEF ExamInit, UnderWay, Awaits
<1>6. WayIsShown /\ OldIsSettled /\ ReadyWasHeard /\ EndIsShown /\ OneWay
  BY <1>5 DEF ExamInit, WayIsShown, OldIsSettled, ReadyWasHeard, EndIsShown, OneWay,
              UnderWayAtAll, Settled
<1>7. MicInv /\ GoneInv /\ AudioIsInvited /\ MicIsOff /\ NeverStuck /\ LeftInPeace
  BY <1>5 DEF ExamInit, MicInv, GoneInv, AudioIsInvited, MicIsOff, NeverStuck, LeftInPeace
<1> QED BY <1>1, <1>2, <1>3, <1>4, <1>6, <1>7 DEF ExamInv

LEMMA ExamNext_Inv == ASSUME Limits, ExamInv, [ExamNext]_examVars PROVE ExamInv'
<1>1. CASE UNCHANGED examVars
  <2>1. /\ UNCHANGED <<phase, tries, ended, handled, sendsAudio, gone, leftBusy>>
        /\ UNCHANGED <<retryTimers, endTimers, endKnown, context, mic, halfBuilt>>
        /\ UNCHANGED <<attempt, begun, from, ws, socket, heard, opened>>
    BY <1>1 DEF examVars, pageVars, timerVars, audioVars, attemptVars, socketVars
  <2>2. PhaseTyped' /\ FlagsTyped'
    BY <2>1 DEF ExamInv, PhaseTyped, FlagsTyped
  <2>3. CountsTyped' /\ AttemptsTyped' /\ SocketsTyped' /\ Fresh'
    BY <2>1 DEF ExamInv, CountsTyped, AttemptsTyped, SocketsTyped, Fresh
  <2>4. /\ WayIsShown' /\ OldIsSettled' /\ ReadyWasHeard' /\ EndIsShown' /\ OneWay'
        /\ NeverStuck' /\ LeftInPeace'
    BY <2>1 DEF ExamInv, WayIsShown, OldIsSettled, ReadyWasHeard, EndIsShown, OneWay,
                NeverStuck, LeftInPeace, Settled, UnderWayAtAll, UnderWay, MayAnswer
  <2>5. MicInv' /\ GoneInv' /\ AudioIsInvited' /\ MicIsOff'
    BY <2>1 DEF ExamInv, MicInv, GoneInv, AudioIsInvited, MicIsOff
  <2> QED BY <2>2, <2>3, <2>4, <2>5 DEF ExamInv
<1>2. CASE StartExam \/ Retry \/ RetryFires \/ EndExam \/ EndFires \/ Leave
  BY <1>2, StartExamStep, RetryStep, RetryFiresStep, EndExamStep, EndFiresStep, LeaveStep
<1>3. ASSUME NEW a \in Attempts,
             \/ ContextReady(a) \/ ContextFails(a) \/ MicGranted(a) \/ MicDenied(a)
             \/ CaptureFails(a) \/ JoinRefused(a) \/ JoinGranted(a)
      PROVE  ExamInv'
  BY <1>3, ContextReadyStep, ContextFailsStep, MicGrantedStep, MicDeniedStep, CaptureFailsStep,
     JoinRefusedStep, JoinGrantedStep
<1>4. ASSUME NEW s \in SocketIds,
             \/ SocketOpens(s) \/ ServerCloses(s) \/ OnReady(s) \/ OnEnded(s) \/ OnNotReady(s)
             \/ OnClose(s)
      PROVE  ExamInv'
  BY <1>4, SocketOpensStep, ServerClosesStep, OnReadyStep, OnEndedStep, OnNotReadyStep, OnCloseStep
<1>5. ASSUME NEW s \in SocketIds, NEW o \in {"ended", "failed"}, OnError(s, o)
      PROVE  ExamInv'
  BY <1>5, OnErrorStep
<1> QED BY <1>1, <1>2, <1>3, <1>4, <1>5 DEF ExamNext

LEMMA ExamInvHolds == ASSUME Limits PROVE ExamSpec => []ExamInv
<1>1. ExamInit => ExamInv
  BY ExamInit_Inv
<1>2. ExamInv /\ [ExamNext]_examVars => ExamInv'
  BY ExamNext_Inv
<1> QED BY <1>1, <1>2, PTL DEF ExamSpec

\* However its connections fail, the page has one way to the next at a time: an
\* attempt, a timer or a socket that may still answer (connect, scheduleRetry).
THEOREM OneWayToTheInterview == ASSUME Limits PROVE ExamSpec => []OneConnection
<1>1. ExamInv => OneConnection
  <2> SUFFICES ASSUME ExamInv PROVE OneConnection
    OBVIOUS
  <2>1. \A s \in SocketIds : MayAnswer(s) => s = ws
    BY DEF ExamInv, Fresh, SocketsTyped, SocketIds, MayAnswer
  <2>2. \A s \in SocketIds : MayAnswer(s) => ~UnderWayAtAll
    BY <2>1 DEF ExamInv, OldIsSettled, Settled, MayAnswer, SocketIds
  <2>3. \A s \in SocketIds : MayAnswer(s) => retryTimers = 0
    BY <2>2 DEF ExamInv, CountsTyped, UnderWayAtAll
  <2>4. \A s \in SocketIds : MayAnswer(s) => \A a \in Attempts : ~UnderWay(a)
    BY <2>2 DEF UnderWayAtAll
  <2> QED BY <2>1, <2>3, <2>4 DEF ExamInv, OneWay, OneConnection
<1> QED BY <1>1, ExamInvHolds, PTL

\* The microphone is heard by the server that said ready, and it is off where no
\* interview is shown, but for a pipeline that could not be built whole
\* (ensureAudio, teardownAudio).
THEOREM SoundKeepsToTheInterview ==
    ASSUME Limits PROVE ExamSpec => [](AudioIsInvited /\ MicIsOff)
<1>1. ExamInv => AudioIsInvited /\ MicIsOff
  BY DEF ExamInv
<1> QED BY <1>1, ExamInvHolds, PTL

\* A page that shows an interview, or the way to one, waits for something that will
\* change it; and what was left in no attempt stays quiet (unmount).
THEOREM ThePageIsNeverStuck ==
    ASSUME Limits PROVE ExamSpec => [](ExamTypeOK /\ NeverStuck /\ LeftInPeace)
<1>1. ExamInv => ExamTypeOK /\ NeverStuck /\ LeftInPeace
  BY DEF ExamInv, ExamTypeOK, PhaseTyped
<1> QED BY <1>1, ExamInvHolds, PTL

\* An interview that is over is not opened again, whatever its sockets, timers and
\* attempts still come to.
THEOREM TheInterviewStaysOver == ASSUME Limits PROVE ExamSpec => OverIsOver
<1>1. ASSUME ExamInv, [ExamNext]_examVars, phase = "ended"
      PROVE  phase' = "ended"
  <2>1. \A a \in Attempts : ~UnderWay(a)
    BY <1>1 DEF ExamInv, WayIsShown, UnderWayAtAll
  <2>2. Settled
    BY <1>1 DEF ExamInv, OldIsSettled
  <2>3. retryTimers = 0 /\ \A s \in SocketIds : MayAnswer(s) => ws # s
    BY <2>1, <2>2, <1>1 DEF ExamInv, WayIsShown, UnderWayAtAll, CountsTyped, Settled, MayAnswer,
                            SocketIds
  <2>4. CASE StartExam \/ Retry \/ RetryFires \/ EndExam \/ EndFires \/ Leave
    BY <2>3, <2>4, <1>1 DEF StartExam, Retry, RetryFires, EndExam, EndFires, Leave, pageVars
  <2>5. ASSUME NEW a \in Attempts,
               \/ ContextReady(a) \/ ContextFails(a) \/ MicGranted(a) \/ MicDenied(a)
               \/ CaptureFails(a) \/ JoinRefused(a) \/ JoinGranted(a)
        PROVE  FALSE
    BY <2>1, <2>5 DEF ContextReady, ContextFails, MicGranted, MicDenied, CaptureFails, JoinRefused,
                      JoinGranted, UnderWay, Awaits
  <2>6. ASSUME NEW s \in SocketIds, SocketOpens(s) \/ ServerCloses(s) \/ OnEnded(s) \/ OnClose(s)
        PROVE  phase' = "ended"
    BY <2>6, <1>1 DEF SocketOpens, ServerCloses, OnEnded, OnClose, ScheduleRetry, pageVars
  <2>7. ASSUME NEW s \in SocketIds,
               \/ OnReady(s) \/ OnNotReady(s)
               \/ \E o \in {"ended", "failed"} : OnError(s, o)
        PROVE  phase' = "ended"
    <3>1. socket[s] = "open" /\ heard[s] # "over"
      BY <2>7 DEF OnReady, OnNotReady, OnError, Receives
    <3>2. ws # s
      BY <3>1, <2>3 DEF MayAnswer
    <3> QED BY <2>7, <3>2, <1>1 DEF OnReady, OnNotReady, OnError
  <2>8. CASE UNCHANGED examVars
    BY <2>8, <1>1 DEF examVars, pageVars
  <2> QED BY <1>1, <2>4, <2>5, <2>6, <2>7, <2>8 DEF ExamNext
<1> QED BY <1>1, ExamInvHolds, PTL DEF ExamSpec, OverIsOver

=============================================================================
