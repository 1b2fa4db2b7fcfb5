------------------------- MODULE SessionControlProofs -------------------------
(***************************************************************************)
(* Theorems of SessionControl, for any number of workers, any bounds and   *)
(* any faults: what holds whatever requests overlap, and exactly what ends *)
(* its being an implementation of SessionLifecycle.                        *)
(***************************************************************************)
EXTENDS SessionControl, SpeakerGate, TurnHandling, TLAPS

USE DEF Scheduled, InProgress, Completed, Failed

Writers == {"connected", "completed", "hangup", "reap", "peer_hangup",
            "violation_end", "cancel", "expire", "unrecoverable"}

HasStart(copy) == copy.status \in {InProgress, Completed} => copy.started # Never

\* What a request in progress may be, given the step it is at.
StepOK(r) ==
    /\ HasStart(r.copy)
    /\ r.pc = "ready" => r.op \in {"launch", "join"}
    /\ r.pc \in {"post", "posted"} => r.op \in Hangups
    /\ r.pc = "put" => r.op \in Writers
    /\ r.pc \in {"post", "posted", "put"} /\ r.op \in Completers
          => r.copy.status = InProgress
    /\ r.pc = "meta" =>
          \/ r.op = "launch"
          \/ r.op \in Writers /\ r.copy.status = Writes[r.op]
    /\ r.pc = "emit" => r.copy.status \in Terminal

\* A copy read while the row is scheduled is scheduled: the row cannot go back.
CopiesFollow ==
    row.status = Scheduled => \A a \in Actors : act[a].copy.status = Scheduled

\* The meta step of a launch alone may precede the first put.
IInv ==
    /\ TypeOK
    /\ RunningHasStart
    /\ \A a \in Actors : StepOK(act[a])
    /\ CopiesFollow

LEMMA WritesType ==
    ASSUME NEW op \in Writers
    PROVE  Writes[op] \in {InProgress, Completed, Failed}
  BY DEF Writers, Writes

LEMMA IdleOK == Idle \in Request0 /\ StepOK(Idle) /\ Idle.copy.status = Scheduled
  BY ControlAssumption
  DEF Idle, Request0, Row, NewRow, StepOK, HasStart, Steps, Ops, Status, Hangups,
      Completers, Instants

\* One request changes: the invariant's part on requests is kept when the new
\* one is fit and the row did not move.
LEMMA ActKeeps ==
    ASSUME IInv, NEW a \in Actors, NEW r \in Request0, StepOK(r),
           act' = [act EXCEPT ![a] = r], row' = row,
           row.status = Scheduled => r.copy.status = Scheduled
    PROVE  /\ act' \in [Actors -> Request0]
           /\ \A b \in Actors : StepOK(act'[b])
           /\ CopiesFollow'
<1>1. act \in [Actors -> Request0]
  BY DEF IInv, TypeOK
<1>2. \A b \in Actors : act'[b] = IF b = a THEN r ELSE act[b]
  BY <1>1
<1>3. act' \in [Actors -> Request0]
  BY <1>1
<1>4. \A b \in Actors : StepOK(act'[b])
  BY <1>2 DEF IInv
<1>5. CopiesFollow'
  BY <1>2 DEF IInv, CopiesFollow
<1>6. QED
  BY <1>3, <1>4, <1>5

\* A handler that starts leaves its copy in a state its first step accepts.
LEMMA LoadKeeps ==
    ASSUME IInv, NEW a \in Actors, NEW op \in Events \cup Requests \cup Sweeps,
           Load(a, op), mail' \in [Events -> Nat]
    PROVE  IInv'
<1> DEFINE r == [pc |-> FirstStep(op), op |-> op, copy |-> row]
<1>1. TypeOK /\ RunningHasStart
  BY DEF IInv
<1>2. CASE row.status \in Admits[op]
  <2>1. act' = [act EXCEPT ![a] = r]
    BY <1>2 DEF Load
  <2>2. r \in Request0
    BY <1>1 DEF TypeOK, Request0, FirstStep, Steps, Ops, Events, Requests, Sweeps,
       EndEvents
  <2>3. StepOK(r)
    BY <1>1, <1>2
    DEF StepOK, HasStart, RunningHasStart, FirstStep, Hangups, Completers, Writers,
        Admits, Events, Requests, Sweeps, EndEvents, Active
  <2>4. QED
    BY <1>1, <2>1, <2>2, <2>3, ActKeeps
    DEF Load, IInv, TypeOK, RunningHasStart
<1>3. CASE row.status \notin Admits[op]
  BY <1>1, <1>3 DEF Load, IInv, TypeOK, RunningHasStart, CopiesFollow
<1>4. QED
  BY <1>2, <1>3

\* A request that ends leaves nothing behind.
LEMMA DoneKeeps ==
    ASSUME IInv, NEW a \in Actors, Done(a), row' = row
    PROVE  /\ act' \in [Actors -> Request0]
           /\ \A b \in Actors : StepOK(act'[b])
           /\ CopiesFollow'
  BY IdleOK, ActKeeps DEF Done

\* A request that moves on keeps its operation and its copy.
LEMMA GotoKeeps ==
    ASSUME IInv, NEW a \in Actors, NEW step \in Steps, Goto(a, step), row' = row,
           StepOK([act[a] EXCEPT !.pc = step])
    PROVE  /\ act' \in [Actors -> Request0]
           /\ \A b \in Actors : StepOK(act'[b])
           /\ CopiesFollow'
<1> DEFINE r == [act[a] EXCEPT !.pc = step]
<1>1. act \in [Actors -> Request0]
  BY DEF IInv, TypeOK
<1>2. r \in Request0 /\ r.copy = act[a].copy
  BY <1>1 DEF Request0
<1>3. act' = [act EXCEPT ![a] = r]
  BY <1>1 DEF Goto
<1>4. row.status = Scheduled => r.copy.status = Scheduled
  BY <1>2 DEF IInv, CopiesFollow
<1>5. QED
  BY <1>2, <1>3, <1>4, ActKeeps

\* The item a put writes: it has a start if it runs or completed, it is not
\* scheduled, and it is completed only over a copy in progress.
LEMMA UpdatedOK ==
    ASSUME TypeOK, NEW a \in Actors, act[a].pc = "put", StepOK(act[a])
    PROVE  LET new == Updated(act[a].op, act[a].copy)
           IN  /\ new \in Row
               /\ HasStart(new)
               /\ new.status = Writes[act[a].op]
               /\ new.status # Scheduled
               /\ new.status = Completed => act[a].copy.status = InProgress
<1>1. act[a] \in Request0 /\ clock \in Instants
  BY DEF TypeOK
<1>2. act[a].copy \in Row
  BY <1>1 DEF Request0
<1>3. act[a].op \in Writers /\ act[a].op \in Ops /\ HasStart(act[a].copy)
  BY DEF StepOK, Writers, Ops, Events, EndEvents, Requests, Sweeps
<1>4. act[a].op \in Completers => act[a].copy.status = InProgress
  BY DEF StepOK
<1>5. CASE act[a].op = "connected"
  <2> DEFINE start == IF act[a].copy.started = Never THEN clock
                      ELSE act[a].copy.started
  <2>1. Updated(act[a].op, act[a].copy)
          = [act[a].copy EXCEPT !.status = InProgress, !.started = start]
    BY <1>5 DEF Updated
  <2>2. start \in Instants /\ start # Never
    BY <1>1, <1>2, ControlAssumption DEF Row, Instants, Never
  <2> HIDE DEF start
  <2>3. Writes[act[a].op] = InProgress
    BY <1>5 DEF Writes
  <2>4. QED
    BY <1>2, <2>1, <2>2, <2>3 DEF Row, HasStart, Status
<1>6. CASE act[a].op # "connected"
  <2>1. Updated(act[a].op, act[a].copy)
          = [act[a].copy EXCEPT !.status = Writes[act[a].op], !.cause = act[a].op]
    BY <1>6 DEF Updated
  <2>2. Writes[act[a].op] \in {Completed, Failed}
    BY <1>3, <1>6 DEF Writers, Writes
  <2>3. Writes[act[a].op] = Completed => act[a].op \in Completers
    BY <1>3, <1>6 DEF Writers, Writes, Completers, Hangups
  <2>4. QED
    BY <1>2, <1>3, <1>4, <2>1, <2>2, <2>3 DEF Row, HasStart, Status
<1>7. QED
  BY <1>5, <1>6

LEMMA PutRowKeeps ==
    ASSUME IInv, NEW a \in Actors, PutRow(a)
    PROVE  IInv'
<1> DEFINE new == Updated(act[a].op, act[a].copy)
<1>1. TypeOK /\ StepOK(act[a]) /\ act[a].pc = "put"
  BY DEF IInv, PutRow
<1>2. /\ row' = new /\ new \in Row /\ HasStart(new)
      /\ new.status = Writes[act[a].op] /\ new.status # Scheduled
  BY <1>1, UpdatedOK DEF PutRow
<1>3. act[a] \in Request0 /\ act \in [Actors -> Request0]
  BY <1>1 DEF TypeOK
<1>4. /\ act' \in [Actors -> Request0]
      /\ \A b \in Actors : StepOK(act'[b])
  <2>1. CASE act[a].op = "cancel"
    BY <2>1, <1>3, IdleOK DEF PutRow, Done, IInv
  <2>2. CASE act[a].op # "cancel"
    <3> DEFINE r == [act[a] EXCEPT !.pc = "meta", !.copy = new]
    <3>1. act' = [act EXCEPT ![a] = r]
      BY <2>2, <1>2, <1>3 DEF PutRow
    <3>2. r \in Request0 /\ r.pc = "meta" /\ r.op = act[a].op /\ r.copy = new
      BY <1>2, <1>3 DEF Request0, Steps
    <3>3. StepOK(r)
      BY <3>2, <1>1, <1>2 DEF StepOK
    <3>4. QED
      BY <3>1, <3>2, <3>3, <1>3 DEF IInv
  <2>3. QED
    BY <2>1, <2>2
<1>5. TypeOK'
  BY <1>1, <1>2, <1>4 DEF PutRow, TypeOK
<1>6. RunningHasStart' /\ CopiesFollow'
  BY <1>2 DEF RunningHasStart, HasStart, CopiesFollow
<1>7. QED
  BY <1>4, <1>5, <1>6 DEF IInv

LEMMA PutMetaKeeps ==
    ASSUME IInv, NEW a \in Actors, PutMeta(a)
    PROVE  IInv'
<1>1. TypeOK /\ StepOK(act[a]) /\ act[a].pc = "meta" /\ act[a] \in Request0
  BY DEF IInv, PutMeta, TypeOK
<1>2. act[a].copy.status \in Status
  BY <1>1 DEF Request0, Row
<1>3. /\ act' \in [Actors -> Request0]
      /\ \A b \in Actors : StepOK(act'[b])
      /\ CopiesFollow'
  <2>1. CASE act[a].op = "launch"
    <3>1. StepOK([act[a] EXCEPT !.pc = "ready"])
      BY <1>1, <2>1 DEF StepOK, Request0
    <3>2. QED
      BY <3>1, <2>1, GotoKeeps DEF PutMeta, Steps
  <2>2. CASE act[a].op = "connected"
    BY <2>2, DoneKeeps DEF PutMeta
  <2>3. CASE act[a].op \notin {"launch", "connected"}
    <3>1. act[a].copy.status \in Terminal
      BY <1>1, <2>3 DEF StepOK, Writers, Writes, Terminal
    <3>2. StepOK([act[a] EXCEPT !.pc = "emit"])
      BY <1>1, <3>1 DEF StepOK, Request0
    <3>3. QED
      BY <3>2, <2>3, GotoKeeps DEF PutMeta, Steps
  <2>4. QED
    BY <2>1, <2>2, <2>3
<1>4. meta' \in Status \cup {None} /\ triggered' \in BOOLEAN
  BY <1>1, <1>2 DEF PutMeta, TypeOK
<1>5. QED
  BY <1>1, <1>3, <1>4 DEF PutMeta, TypeOK, IInv, RunningHasStart

LEMMA ReadyKeeps ==
    ASSUME IInv, NEW a \in Actors, Ready(a)
    PROVE  IInv'
<1>1. TypeOK /\ StepOK(act[a]) /\ act[a] \in Request0
  BY DEF IInv, TypeOK
<1>2. act[a].copy \in Row /\ HasStart(act[a].copy)
  BY <1>1 DEF Request0, StepOK
<1>3. ConnectDeadline(act[a].copy) \in Nat
  BY <1>2, ControlAssumption DEF ConnectDeadline, HasStart, Row, Instants
<1>4. ctx' \in [stored : Instants, deadline : Nat] \cup {NoContext}
  BY <1>1, <1>3 DEF Ready, TypeOK
<1>5. token' \in BOOLEAN
  BY <1>1 DEF Ready, TypeOK
<1>6. QED
  BY <1>1, <1>4, <1>5, DoneKeeps DEF Ready, TypeOK, IInv, RunningHasStart

LEMMA ReadyFailsKeeps ==
    ASSUME IInv, NEW a \in Actors, ReadyFails(a)
    PROVE  IInv'
<1>1. TypeOK
  BY DEF IInv
<1>2. token' \in BOOLEAN
  BY <1>1 DEF ReadyFails, TypeOK
<1>3. QED
  BY <1>1, <1>2, DoneKeeps DEF ReadyFails, TypeOK, IInv, RunningHasStart

LEMMA HangupKeeps ==
    ASSUME IInv, NEW a \in Actors,
           HangupReaches(a) \/ HangupAnswered(a) \/ HangupUnanswered(a)
    PROVE  IInv'
<1>1. TypeOK /\ StepOK(act[a]) /\ act[a] \in Request0
  BY DEF IInv, TypeOK
<1>2. CASE HangupUnanswered(a)
  BY <1>1, <1>2, DoneKeeps DEF HangupUnanswered, TypeOK, IInv, RunningHasStart
<1>3. ASSUME act[a].pc \in {"post", "posted"}
      PROVE  /\ StepOK([act[a] EXCEPT !.pc = "posted"])
             /\ StepOK([act[a] EXCEPT !.pc = "put"])
  BY <1>1, <1>3 DEF StepOK, Request0, Hangups, Completers, Writers
<1>4. CASE HangupAnswered(a)
  BY <1>1, <1>3, <1>4, GotoKeeps
  DEF HangupAnswered, Steps, TypeOK, IInv, RunningHasStart
<1>5. CASE HangupReaches(a)
  <2>1. media' \in [state : {"idle", "live", "ending"},
                    event : EndEvents \cup {None}]
    BY <1>1, <1>5 DEF HangupReaches, TypeOK, EndEvents
  <2>2. QED
    BY <1>1, <1>3, <1>5, <2>1, GotoKeeps
    DEF HangupReaches, Steps, TypeOK, IInv, RunningHasStart
<1>6. QED
  BY <1>2, <1>4, <1>5

LEMMA EmitKeeps ==
    ASSUME IInv, NEW a \in Actors, Emit(a)
    PROVE  IInv'
<1>1. TypeOK /\ StepOK(act[a])
  BY DEF IInv
<1>2. act[a].copy.status \in {"completed", "failed"}
  BY <1>1 DEF StepOK, Emit, Terminal
<1>3. hooks' \in [{"completed", "failed"} -> Nat]
  BY <1>1, <1>2 DEF Emit, TypeOK
<1>4. QED
  BY <1>1, <1>3, DoneKeeps DEF Emit, TypeOK, IInv, RunningHasStart

LEMMA ArriveKeeps ==
    ASSUME IInv, NEW w \in Workers, Arrive(w)
    PROVE  IInv'
<1>1. w \in Actors /\ mail \in [Events -> Nat]
  BY DEF Actors, IInv, TypeOK
<1>2. CASE \E r \in Requests : Request(w, r)
  BY <1>1, <1>2, LoadKeeps DEF Request
<1>3. CASE \E e \in Events : Receive(w, e)
  <2>1. PICK e \in Events : Receive(w, e)
    BY <1>3
  <2>2. mail' \in [Events -> Nat]
    BY <1>1, <2>1 DEF Receive
  <2>3. QED
    BY <1>1, <2>1, <2>2, LoadKeeps DEF Receive
<1>4. QED
  BY <1>2, <1>3 DEF Arrive

LEMMA SweepKeeps ==
    ASSUME IInv, SweepExpired \/ SweepOverdue
    PROVE  IInv'
<1>1. Tick \in Actors /\ mail' \in [Events -> Nat]
  BY DEF Actors, IInv, TypeOK, SweepExpired, SweepOverdue
<1>2. {"expire", "reap"} \subseteq Events \cup Requests \cup Sweeps
  BY DEF Sweeps
<1>3. QED
  BY <1>1, <1>2, LoadKeeps DEF SweepExpired, SweepOverdue

LEMMA BridgeKeeps ==
    ASSUME IInv, Bridge
    PROVE  IInv'
<1>1. TypeOK
  BY DEF IInv
<1>2. UNCHANGED <<row, act>>
  BY DEF Bridge, ClientConnects, MediaEnds, MediaReports
<1>3. RunningHasStart' /\ CopiesFollow' /\ \A a \in Actors : StepOK(act'[a])
  BY <1>2 DEF IInv, RunningHasStart, CopiesFollow
<1>4. CASE ClientConnects
  <2>1. mail' \in [Events -> Nat] /\ connects' \in Nat
    BY <1>1, <1>4 DEF ClientConnects, TypeOK, Events
  <2>2. QED
    BY <1>1, <1>3, <1>4, <2>1 DEF ClientConnects, TypeOK, IInv
<1>5. CASE \E e \in EndEvents : MediaEnds(e)
  BY <1>1, <1>3, <1>5 DEF MediaEnds, TypeOK, IInv
<1>6. CASE MediaReports
  <2>1. mail' \in [Events -> Nat]
    <3>1. mail' = [e \in Events |-> IF e = media.event THEN mail[e] + 1
                                    ELSE mail[e]]
      BY <1>1, <1>6 DEF MediaReports, TypeOK
    <3>2. QED
      BY <1>1, <3>1 DEF TypeOK
  <2>2. QED
    BY <1>1, <1>3, <1>6, <2>1 DEF MediaReports, TypeOK, IInv
<1>7. QED
  BY <1>4, <1>5, <1>6 DEF Bridge

LEMMA FaultKeeps ==
    ASSUME IInv, Fault
    PROVE  IInv'
<1>1. TypeOK
  BY DEF IInv
<1>2. CASE \E w \in Workers : WorkerAborts(w)
  BY <1>1, <1>2, DoneKeeps DEF WorkerAborts, Actors, TypeOK, IInv, RunningHasStart
<1>3. CASE TickRaises
  <2>1. Tick \in Actors /\ StepOK(act[Tick]) /\ act[Tick] \in Request0
        /\ act \in [Actors -> Request0]
    BY <1>1 DEF Actors, IInv, TypeOK
  <2>2. CASE act[Tick].op = "expire"
    <3> DEFINE r == [act[Tick] EXCEPT !.pc = "put", !.op = "unrecoverable"]
    <3>1. act' = [act EXCEPT ![Tick] = r]
      BY <1>3, <2>1, <2>2 DEF TickRaises
    <3>2. r \in Request0 /\ r.copy = act[Tick].copy
      BY <2>1 DEF Request0, Steps, Ops
    <3>3. StepOK(r)
      BY <2>1, <3>2 DEF StepOK, Writers, Completers, Hangups, Request0
    <3>4. row.status = Scheduled => r.copy.status = Scheduled
      BY <2>1, <3>2 DEF IInv, CopiesFollow
    <3>5. QED
      BY <1>1, <1>3, <2>1, <3>1, <3>2, <3>3, <3>4, ActKeeps
      DEF TickRaises, TypeOK, IInv, RunningHasStart
  <2>3. CASE act[Tick].op # "expire"
    BY <1>1, <1>3, <2>1, <2>3, DoneKeeps
    DEF TickRaises, TypeOK, IInv, RunningHasStart
  <2>4. QED
    BY <2>2, <2>3
<1>4. CASE \E e \in Events : ReportLost(e)
  <2>1. mail' \in [Events -> Nat]
    BY <1>1, <1>4 DEF ReportLost, TypeOK
  <2>2. QED
    BY <1>1, <1>4, <2>1
    DEF ReportLost, TypeOK, IInv, RunningHasStart, CopiesFollow
<1>5. CASE BridgeRestarts
  <2>1. \A a \in Actors : act'[a] = IF act[a].pc = "posted" THEN Idle ELSE act[a]
    BY <1>5 DEF BridgeRestarts
  <2>2. act' \in [Actors -> Request0]
    BY <1>1, <1>5, IdleOK DEF BridgeRestarts, TypeOK
  <2>3. \A a \in Actors : StepOK(act'[a])
    BY <2>1, IdleOK DEF IInv
  <2>4. CopiesFollow'
    BY <1>5, <2>1, IdleOK DEF BridgeRestarts, IInv, CopiesFollow
  <2>5. QED
    BY <1>1, <1>5, <2>2, <2>3, <2>4
    DEF BridgeRestarts, TypeOK, IInv, RunningHasStart
<1>6. QED
  BY <1>2, <1>3, <1>4, <1>5 DEF Fault

LEMMA AdvanceKeeps ==
    ASSUME IInv, Advance
    PROVE  IInv'
<1>1. clock' \in Instants
  BY ControlAssumption DEF IInv, TypeOK, Advance, Instants
<1>2. QED
  BY <1>1 DEF Advance, IInv, TypeOK, RunningHasStart, CopiesFollow

LEMMA InitIInv == Init => IInv
<1> SUFFICES ASSUME Init PROVE IInv
  OBVIOUS
<1> DEFINE r == [Idle EXCEPT !.pc = "meta", !.op = "launch"]
<1>1. r \in Request0 /\ StepOK(r) /\ r.copy.status = Scheduled
  BY ControlAssumption
  DEF Idle, Request0, Row, NewRow, StepOK, HasStart, Steps, Ops, Status, Instants
<1>2. PICK w \in Workers : act = [a \in Actors |-> IF a = w THEN r ELSE Idle]
  BY DEF Init
<1>3. \A a \in Actors : act[a] = r \/ act[a] = Idle
  BY <1>2
<1>4. act \in [Actors -> Request0] /\ CopiesFollow
      /\ \A a \in Actors : StepOK(act[a])
  BY <1>1, <1>2, <1>3, IdleOK DEF CopiesFollow
<1>5. row \in Row
  BY DEF Init, NewRow, Row, Status
<1>6. clock \in Instants
  BY ControlAssumption DEF Init, Instants
<1>7. /\ mail \in [Events -> Nat]
      /\ hooks \in [{"completed", "failed"} -> Nat]
      /\ media \in [state : {"idle", "live", "ending"},
                    event : EndEvents \cup {None}]
      /\ meta \in Status \cup {None}
  BY DEF Init
<1>8. RunningHasStart
  BY DEF Init, RunningHasStart, NewRow
<1>9. QED
  BY <1>4, <1>5, <1>6, <1>7, <1>8 DEF Init, IInv, TypeOK

LEMMA NextIInv == IInv /\ [Next]_vars => IInv'
<1> SUFFICES ASSUME IInv, [Next]_vars PROVE IInv'
  OBVIOUS
<1>1. ASSUME NEW a \in Actors, Serve(a) PROVE IInv'
  BY <1>1, ReadyKeeps, ReadyFailsKeeps, HangupKeeps, PutRowKeeps, PutMetaKeeps,
     EmitKeeps DEF Serve
<1>2. ASSUME NEW w \in Workers, Arrive(w) PROVE IInv'
  BY <1>2, ArriveKeeps
<1>3. CASE UNCHANGED vars
  BY <1>3 DEF vars, IInv, TypeOK, RunningHasStart, CopiesFollow
<1>4. QED
  BY <1>1, <1>2, <1>3, SweepKeeps, BridgeKeeps, FaultKeeps, AdvanceKeeps DEF Next

LEMMA AlwaysIInv == Spec => []IInv
  BY InitIInv, NextIInv, PTL DEF Spec

\* Every variable keeps its type, for any number of workers and any faults.
THEOREM TypeCorrect == Spec => []TypeOK
<1>1. IInv => TypeOK
  BY DEF IInv
<1>2. QED
  BY <1>1, AlwaysIInv, PTL

\* A session in progress or completed always has the instant it started, so
\* the scheduler can always compute its forced end.
THEOREM StartIsKept == Spec => []RunningHasStart
<1>1. IInv => RunningHasStart
  BY DEF IInv
<1>2. QED
  BY <1>1, AlwaysIInv, PTL

\* However requests overlap, a session is never completed straight from
\* scheduled, and never goes back to scheduled.
THEOREM NoUnstartedCompletion == Spec => StartPrecedesCompletion
<1> DEFINE Safe == /\ row'.status # Scheduled
                   /\ row.status = Scheduled => row'.status # Completed
<1>1. IInv /\ [Next]_vars => [Safe]_row
  <2> SUFFICES ASSUME IInv, [Next]_vars, row' # row PROVE Safe
    OBVIOUS
  <2>1. PICK a \in Actors : PutRow(a)
    BY DEF Next, vars, Serve, Ready, ReadyFails, HangupReaches, HangupAnswered,
       HangupUnanswered, PutMeta, Emit, Arrive, Receive, Request, Load,
       SweepExpired, SweepOverdue, Bridge, ClientConnects, MediaEnds,
       MediaReports, Fault, WorkerAborts, TickRaises, ReportLost, BridgeRestarts,
       Advance
  <2>2. TypeOK /\ StepOK(act[a]) /\ act[a].pc = "put"
    BY <2>1 DEF IInv, PutRow
  <2>3. /\ row'.status # Scheduled
        /\ row'.status = Completed => act[a].copy.status = InProgress
    BY <2>1, <2>2, UpdatedOK DEF PutRow
  <2>4. row.status = Scheduled => act[a].copy.status = Scheduled
    BY DEF IInv, CopiesFollow
  <2>5. QED
    BY <2>3, <2>4
<1>2. QED
  BY <1>1, AlwaysIInv, PTL DEF Spec, StartPrecedesCompletion

-------------------------------------------------------------------------------
(* What overlapping requests and crashes may spoil.  Two history variables *)
(* note when it happens; they restrict no step.                            *)

VARIABLES
    overwritten,  \* a put went over a row that had changed since it was read
    missed        \* a completion was cut short, or found no meta row to update

Overwrites(a) == PutRow(a) /\ act[a].copy # row

Misses ==
    \/ \E w \in Workers : WorkerAborts(w) /\ Scoring(w)
    \/ TickRaises /\ Scoring(Tick)
    \/ \E a \in Actors : PutMeta(a) /\ Scoring(a) /\ meta = None

Notes ==
    /\ overwritten' = IF \E a \in Actors : Overwrites(a) THEN TRUE ELSE overwritten
    /\ missed' = IF Misses THEN TRUE ELSE missed

notedVars == <<vars, overwritten, missed>>
NotedSpec ==
    /\ Init /\ overwritten = FALSE /\ missed = FALSE
    /\ [][Next /\ Notes]_notedVars

\* Each step is one of the lifecycle, until a put overwrites what its handler
\* had not read.
LifecycleUntilOverwritten ==
    [][~overwritten' => [Lifecycle!Next]_(Lifecycle!vars)]_notedVars

\* A completed session reaches the evaluator, or the handler that completed it
\* stopped before the meta row, or found none.
CompletedIsScoredOrMissed == CompletedIsScored \/ missed

NoHooks == [completed |-> 0, failed |-> 0]

\* What the copy of a request may be, given the operation it is to perform.
CopyFits(r) ==
    /\ r.pc \in {"post", "posted", "put"} =>
          \/ r.op # "unrecoverable" /\ r.copy.status \in Admits[r.op]
          \/ r.op = "unrecoverable" /\ r.copy.status \in {Scheduled, Failed}
    /\ r.op = "unrecoverable" => r.pc \in {"put", "meta", "emit"}
    /\ r.op = "launch" => r.copy.status = Scheduled

\* The request has put the session down as over and will announce it.
Announces(r) ==
    \/ r.pc = "meta" /\ r.op \notin {"launch", "connected"}
    \/ r.pc = "emit"
    \/ r.pc = "put" /\ r.copy.status \in Terminal

\* While nothing was overwritten: the row is as the one request wrote it that
\* announces the end, and before that nobody has.
Calm ==
    /\ \A a \in Actors : CopyFits(act[a])
    /\ \A a \in Actors : Announces(act[a]) => act[a].copy = row /\ hooks = NoHooks
    /\ \A a, b \in Actors : Announces(act[a]) /\ Announces(act[b]) => a = b
    /\ hooks # NoHooks \/ (\E a \in Actors : Announces(act[a])) => row.status \in Terminal

\* The request of one actor changes and announces nothing new; the rest stays.
LEMMA CalmAct ==
    ASSUME IInv, Calm, NEW a \in Actors, NEW r, CopyFits(r),
           act' = [act EXCEPT ![a] = r], row' = row, hooks' = hooks,
           Announces(r) => Announces(act[a]) /\ r.copy = act[a].copy
    PROVE  Calm'
<1>1. act \in [Actors -> Request0]
  BY DEF IInv, TypeOK
<1>2. \A b \in Actors : act'[b] = IF b = a THEN r ELSE act[b]
  BY <1>1
<1>3. \A b \in Actors : Announces(act'[b])
        => Announces(act[b]) /\ act'[b].copy = act[b].copy
  BY <1>2
<1>4. \A b \in Actors : CopyFits(act'[b])
  BY <1>2 DEF Calm
<1>5. NoHooks' = NoHooks
  BY DEF NoHooks
<1> HIDE DEF NoHooks
<1>6. QED
  BY <1>3, <1>4, <1>5 DEF Calm

LEMMA IdleFits == CopyFits(Idle) /\ ~Announces(Idle)
  BY DEF CopyFits, Announces, Idle, None

LEMMA CalmDone ==
    ASSUME IInv, Calm, NEW a \in Actors, Done(a), row' = row, hooks' = hooks
    PROVE  Calm'
  BY IdleFits, CalmAct DEF Done

LEMMA CalmGoto ==
    ASSUME IInv, Calm, NEW a \in Actors, NEW step \in Steps,
           Goto(a, step), row' = row, hooks' = hooks,
           CopyFits([act[a] EXCEPT !.pc = step]),
           Announces([act[a] EXCEPT !.pc = step]) => Announces(act[a])
    PROVE  Calm'
<1> DEFINE r == [act[a] EXCEPT !.pc = step]
<1>1. act \in [Actors -> Request0] /\ act[a] \in Request0
  BY DEF IInv, TypeOK
<1>2. r.copy = act[a].copy
  BY <1>1 DEF Request0
<1>3. act' = [act EXCEPT ![a] = r]
  BY <1>1 DEF Goto
<1> HIDE DEF r
<1>4. CopyFits(r) /\ (Announces(r) => Announces(act[a]))
  BY DEF r
<1>5. QED
  BY <1>2, <1>3, <1>4, CalmAct

LEMMA CalmLoad ==
    ASSUME IInv, Calm, NEW a \in Actors,
           NEW op \in Events \cup Requests \cup Sweeps, Load(a, op)
    PROVE  Calm'
<1> DEFINE r == [pc |-> FirstStep(op), op |-> op, copy |-> row]
<1>1. UNCHANGED <<row, hooks>>
  BY DEF Load
<1>2. CASE row.status \in Admits[op]
  <2>1. act' = [act EXCEPT ![a] = r]
    BY <1>2 DEF Load
  <2>2. op \notin {"unrecoverable", "launch"}
    BY DEF Events, EndEvents, Requests, Sweeps
  <2>3. CopyFits(r)
    BY <1>2, <2>2 DEF CopyFits
  <2>4. row.status \notin Terminal
    BY <1>2 DEF Admits, Active, Events, EndEvents, Requests, Sweeps, Terminal
  <2>5. ~Announces(r)
    BY <2>4 DEF Announces, FirstStep
  <2> HIDE DEF r
  <2>6. QED
    BY <1>1, <2>1, <2>3, <2>5, CalmAct
<1>3. CASE row.status \notin Admits[op]
  BY <1>1, <1>3 DEF Load, Calm, NoHooks
<1>4. QED
  BY <1>2, <1>3

\* A put of what was read: it ends the session for the first time, or it is the
\* retry of an expiry, whose handler has ended it before.
LEMMA CalmPutRow ==
    ASSUME IInv, Calm, NEW a \in Actors, PutRow(a), act[a].copy = row
    PROVE  Calm'
<1> DEFINE new == Updated(act[a].op, act[a].copy)
           r == IF act[a].op = "cancel" THEN Idle
                ELSE [act[a] EXCEPT !.pc = "meta", !.copy = new]
<1>1. /\ act \in [Actors -> Request0] /\ act[a] \in Request0
      /\ StepOK(act[a]) /\ TypeOK /\ act[a].pc = "put"
      /\ CopyFits(act[a]) /\ act[a].op \in Writers
  BY DEF IInv, TypeOK, PutRow, Calm, StepOK
<1>2. row' = new /\ new \in Row /\ new.status = Writes[act[a].op] /\ hooks' = hooks
  BY <1>1, UpdatedOK DEF PutRow
<1>3. \A b \in Actors : act'[b] = IF b = a THEN r ELSE act[b]
  BY <1>1, <1>2 DEF PutRow, Done
<1>4. CopyFits(r) /\ (Announces(r) => r.copy = row')
  <2>1. CASE act[a].op = "cancel"
    BY <2>1, IdleFits
  <2>2. CASE act[a].op # "cancel"
    <3>1. r.pc = "meta" /\ r.copy = new /\ r.op = act[a].op
      BY <1>1, <2>2 DEF Request0
    <3>2. act[a].op # "launch"
      BY <1>1 DEF Writers
    <3> HIDE DEF r, new
    <3>3. QED
      BY <1>2, <3>1, <3>2 DEF CopyFits
  <2>3. QED
    BY <2>1, <2>2
<1>5. Announces(r) => row'.status \in Terminal
  <2>1. Announces(r) => act[a].op # "cancel" /\ act[a].op # "connected"
    BY <1>1, IdleFits DEF Announces, Request0
  <2>2. QED
    BY <1>1, <1>2, <2>1 DEF Writers, Writes, Terminal
<1> HIDE DEF r, new
<1>6. CASE row.status \in Terminal
  <2>1. Announces(act[a])
    BY <1>1, <1>6 DEF Announces
  <2>2. hooks = NoHooks /\ \A b \in Actors : Announces(act[b]) => b = a
    BY <2>1 DEF Calm
  <2>3. \A b \in Actors : Announces(act'[b]) => b = a /\ act'[b].copy = row'
    BY <1>3, <1>4, <2>2
  <2>4. (\E b \in Actors : Announces(act'[b])) => row'.status \in Terminal
    BY <1>3, <1>5, <2>3
  <2>5. \A b \in Actors : CopyFits(act'[b])
    BY <1>3, <1>4 DEF Calm
  <2>6. hooks' = NoHooks' /\ NoHooks' = NoHooks
    BY <1>2, <2>2 DEF NoHooks
  <2>7. QED
    BY <2>2, <2>3, <2>4, <2>5, <2>6 DEF Calm
<1>7. CASE row.status \notin Terminal
  <2>1. hooks = NoHooks /\ \A b \in Actors : ~Announces(act[b])
    BY <1>7 DEF Calm
  <2>2. \A b \in Actors : Announces(act'[b]) => b = a /\ act'[b].copy = row'
    BY <1>3, <1>4, <2>1
  <2>3. (\E b \in Actors : Announces(act'[b])) => row'.status \in Terminal
    BY <1>3, <1>5, <2>2
  <2>4. \A b \in Actors : CopyFits(act'[b])
    BY <1>3, <1>4 DEF Calm
  <2>5. hooks' = NoHooks' /\ NoHooks' = NoHooks
    BY <1>2, <2>1 DEF NoHooks
  <2>6. QED
    BY <2>1, <2>2, <2>3, <2>4, <2>5 DEF Calm
<1>8. QED
  BY <1>6, <1>7

LEMMA CalmPutMeta ==
    ASSUME IInv, Calm, NEW a \in Actors, PutMeta(a)
    PROVE  Calm'
<1>1. act[a] \in Request0 /\ act[a].pc = "meta" /\ CopyFits(act[a])
      /\ row' = row /\ hooks' = hooks
  BY DEF IInv, TypeOK, PutMeta, Calm
<1>2. CASE act[a].op = "launch"
  <2>1. /\ CopyFits([act[a] EXCEPT !.pc = "ready"])
        /\ ~Announces([act[a] EXCEPT !.pc = "ready"])
    BY <1>1, <1>2 DEF CopyFits, Announces, Request0
  <2>2. QED
    BY <1>1, <1>2, <2>1, CalmGoto DEF PutMeta, Steps
<1>3. CASE act[a].op = "connected"
  BY <1>1, <1>3, CalmDone DEF PutMeta
<1>4. CASE act[a].op \notin {"launch", "connected"}
  <2>1. CopyFits([act[a] EXCEPT !.pc = "emit"]) /\ Announces(act[a])
    BY <1>1, <1>4 DEF CopyFits, Announces, Request0
  <2>2. QED
    BY <1>1, <1>4, <2>1, CalmGoto DEF PutMeta, Steps
<1>5. QED
  BY <1>2, <1>3, <1>4

LEMMA CalmHangup ==
    ASSUME IInv, Calm, NEW a \in Actors,
           HangupReaches(a) \/ HangupAnswered(a) \/ HangupUnanswered(a)
    PROVE  Calm'
<1>1. /\ act[a] \in Request0 /\ act[a].pc \in {"post", "posted"}
      /\ CopyFits(act[a]) /\ act[a].op \in Hangups
      /\ row' = row /\ hooks' = hooks
  BY DEF IInv, TypeOK, HangupReaches, HangupAnswered, HangupUnanswered, Calm, StepOK
<1>2. CASE HangupUnanswered(a)
  BY <1>1, <1>2, CalmDone DEF HangupUnanswered
<1>3. act[a].copy.status = InProgress
  BY <1>1 DEF CopyFits, Hangups, Admits
<1>4. /\ CopyFits([act[a] EXCEPT !.pc = "posted"]) /\ CopyFits([act[a] EXCEPT !.pc = "put"])
      /\ ~Announces([act[a] EXCEPT !.pc = "posted"])
      /\ ~Announces([act[a] EXCEPT !.pc = "put"])
  BY <1>1, <1>3 DEF CopyFits, Announces, Request0, Terminal
<1>5. CASE HangupReaches(a) \/ HangupAnswered(a)
  BY <1>1, <1>4, <1>5, CalmGoto DEF HangupReaches, HangupAnswered, Steps
<1>6. QED
  BY <1>2, <1>5

\* The webhook goes out once, and as the outcome that was put.
LEMMA CalmEmit ==
    ASSUME IInv, Calm, NEW a \in Actors, Emit(a)
    PROVE  /\ Calm'
           /\ hooks = NoHooks
           /\ row.status \in Terminal
           /\ hooks' = [hooks EXCEPT ![row.status] = 1]
<1>1. act \in [Actors -> Request0] /\ act[a].pc = "emit" /\ Announces(act[a]) /\ row' = row
  BY DEF IInv, TypeOK, Emit, Announces
<1>2. /\ hooks = NoHooks /\ act[a].copy = row /\ row.status \in Terminal
      /\ \A b \in Actors \ {a} : ~Announces(act[b])
  BY <1>1 DEF Calm
<1>3. hooks' = [hooks EXCEPT ![row.status] = 1]
  <2>1. hooks' = [hooks EXCEPT ![row.status] = hooks[row.status] + 1]
    BY <1>2 DEF Emit
  <2>2. hooks[row.status] = 0
    BY <1>2 DEF NoHooks, Terminal
  <2>3. QED
    BY <2>1, <2>2
<1>4. \A b \in Actors : act'[b] = IF b = a THEN Idle ELSE act[b]
  BY <1>1 DEF Emit, Done
<1>5. \A b \in Actors : ~Announces(act'[b]) /\ CopyFits(act'[b])
  BY <1>2, <1>4, IdleFits DEF Calm
<1>6. QED
  BY <1>1, <1>2, <1>3, <1>5 DEF Calm

LEMMA CalmFault ==
    ASSUME IInv, Calm, Fault
    PROVE  Calm'
<1>1. /\ act \in [Actors -> Request0] /\ Tick \in Actors /\ act[Tick] \in Request0
      /\ Workers \subseteq Actors
  BY DEF IInv, TypeOK, Actors
<1>2. CASE \E w \in Workers : WorkerAborts(w)
  BY <1>1, <1>2, CalmDone DEF WorkerAborts
<1>3. CASE TickRaises
  <2>1. act[Tick].pc \in {"put", "meta"} /\ StepOK(act[Tick]) /\ CopyFits(act[Tick])
        /\ row' = row /\ hooks' = hooks
    BY <1>1, <1>3 DEF TickRaises, IInv, Calm
  <2>2. CASE act[Tick].op = "expire"
    <3> DEFINE r == [act[Tick] EXCEPT !.pc = "put", !.op = "unrecoverable"]
    <3>1. act' = [act EXCEPT ![Tick] = r]
      BY <1>1, <1>3, <2>2 DEF TickRaises
    <3>2. r.copy = act[Tick].copy /\ r.pc = "put" /\ r.op = "unrecoverable"
      BY <1>1 DEF Request0
    <3>3. /\ act[Tick].copy.status \in {Scheduled, Failed}
          /\ act[Tick].pc = "put" => act[Tick].copy.status = Scheduled
      <4>1. Admits["expire"] = {Scheduled} /\ Writes["expire"] = Failed
        BY DEF Admits, Writes
      <4>2. QED
        BY <2>1, <2>2, <4>1 DEF CopyFits, StepOK
    <3>4. CopyFits(r)
      BY <3>2, <3>3 DEF CopyFits
    <3>5. Announces(r) => Announces(act[Tick])
      BY <2>1, <2>2, <3>2, <3>3 DEF Announces, Terminal
    <3> HIDE DEF r
    <3>6. QED
      BY <1>1, <2>1, <3>1, <3>2, <3>4, <3>5, CalmAct
  <2>3. CASE act[Tick].op # "expire"
    BY <1>1, <1>3, <2>1, <2>3, CalmDone DEF TickRaises
  <2>4. QED
    BY <2>2, <2>3
<1>4. CASE \E e \in Events : ReportLost(e)
  BY <1>4 DEF ReportLost, Calm, NoHooks
<1>5. CASE BridgeRestarts
  <2>1. \A a \in Actors : act'[a] = IF act[a].pc = "posted" THEN Idle ELSE act[a]
    BY <1>5 DEF BridgeRestarts
  <2>2. \A a \in Actors : /\ CopyFits(act'[a])
                          /\ Announces(act'[a]) => Announces(act[a]) /\ act'[a] = act[a]
    BY <2>1, IdleFits DEF Calm
  <2>3. row' = row /\ hooks' = hooks /\ NoHooks' = NoHooks
    BY <1>5 DEF BridgeRestarts, NoHooks
  <2>4. QED
    BY <2>2, <2>3 DEF Calm
<1>6. QED
  BY <1>2, <1>3, <1>4, <1>5 DEF Fault

LEMMA CalmArrive ==
    ASSUME IInv, Calm,
           (\E w \in Workers : Arrive(w)) \/ SweepExpired \/ SweepOverdue
    PROVE  Calm'
<1>1. Workers \subseteq Actors /\ Tick \in Actors /\ "expire" \in Sweeps /\ "reap" \in Sweeps
  BY DEF Actors, Sweeps
<1>2. QED
  BY <1>1, CalmLoad DEF Arrive, Receive, Request, SweepExpired, SweepOverdue

LEMMA CalmOther ==
    ASSUME Calm, Bridge \/ Advance \/ UNCHANGED vars
    PROVE  Calm'
<1>1. UNCHANGED <<row, act, hooks>>
  BY DEF Bridge, ClientConnects, MediaEnds, MediaReports, Advance, vars
<1>2. QED
  BY <1>1 DEF Calm, NoHooks

LEMMA CalmInit == Init => Calm
<1> SUFFICES ASSUME Init PROVE Calm
  OBVIOUS
<1> DEFINE r == [Idle EXCEPT !.pc = "meta", !.op = "launch"]
<1>1. CopyFits(r) /\ ~Announces(r)
  BY DEF CopyFits, Announces, Idle, NewRow
<1>2. PICK w \in Workers : act = [a \in Actors |-> IF a = w THEN r ELSE Idle]
  BY DEF Init
<1>3. \A a \in Actors : CopyFits(act[a]) /\ ~Announces(act[a])
  BY <1>1, <1>2, IdleFits
<1>4. hooks = NoHooks
  BY DEF Init, NoHooks
<1>5. QED
  BY <1>3, <1>4 DEF Calm

LEMMA CalmNext ==
    ASSUME IInv, Calm, [Next]_vars, ~ \E a \in Actors : Overwrites(a)
    PROVE  Calm'
<1>1. ASSUME NEW a \in Actors, Serve(a) PROVE Calm'
  <2>1. CASE PutRow(a)
    BY <2>1, CalmPutRow DEF Overwrites
  <2>2. CASE Ready(a) \/ ReadyFails(a)
    BY <2>2, CalmDone DEF Ready, ReadyFails
  <2>3. QED
    BY <1>1, <2>1, <2>2, CalmHangup, CalmPutMeta, CalmEmit DEF Serve
<1>2. QED
  BY <1>1, CalmArrive, CalmFault, CalmOther DEF Next

-------------------------------------------------------------------------------

\* A put of what was read takes the row along a legal transition, or leaves its
\* status alone.
LEMMA PutRowMoves ==
    ASSUME IInv, Calm, NEW a \in Actors, PutRow(a), act[a].copy = row
    PROVE  row'.status = row.status \/ CanTransition(row.status, row'.status)
<1>1. /\ TypeOK /\ StepOK(act[a]) /\ act[a].pc = "put"
      /\ CopyFits(act[a])
  BY DEF IInv, PutRow, Calm
<1>2. row'.status = Writes[act[a].op] /\ act[a].op \in Writers
  BY <1>1, UpdatedOK DEF PutRow, StepOK
<1>3. CASE act[a].op = "unrecoverable"
  BY <1>1, <1>2, <1>3 DEF CopyFits, Writes, CanTransition, Transitions
<1>4. CASE act[a].op # "unrecoverable"
  <2>1. row.status \in Admits[act[a].op]
    BY <1>1, <1>4 DEF CopyFits
  <2>2. QED
    BY <1>2, <1>4, <2>1
    DEF Writers, Writes, Admits, Active, CanTransition, Transitions
<1>5. QED
  BY <1>3, <1>4

\* Every step that overwrites nothing is a step of the lifecycle, or a stutter.
LEMMA StepRefines ==
    ASSUME IInv, Calm, [Next]_vars, ~ \E a \in Actors : Overwrites(a)
    PROVE  [Lifecycle!Next]_(Lifecycle!vars)
<1> USE DEF Lifecycle!Next, Lifecycle!vars
<1>1. CASE \E a \in Actors : PutRow(a)
  <2>1. PICK a \in Actors : PutRow(a) /\ act[a].copy = row
    BY <1>1 DEF Overwrites
  <2>2. row'.status \in Lifecycle!Status
    <3>1. row' \in Row
      BY <2>1, UpdatedOK DEF PutRow, IInv
    <3>2. QED
      BY <3>1 DEF Row, Status, Lifecycle!Status, Lifecycle!Scheduled,
         Lifecycle!InProgress, Lifecycle!Completed, Lifecycle!Failed
  <2>3. UNCHANGED <<hooks, triggered>>
    BY <2>1 DEF PutRow
  <2>4. CASE CanTransition(row.status, row'.status)
    <3>1. Lifecycle!CanTransition(row.status, row'.status)
      BY <2>4 DEF CanTransition, Transitions, Lifecycle!CanTransition,
         Lifecycle!Transitions, Lifecycle!Scheduled, Lifecycle!InProgress,
         Lifecycle!Completed, Lifecycle!Failed
    <3>2. QED
      BY <2>2, <2>3, <3>1 DEF Lifecycle!Move
  <2>5. CASE row'.status = row.status
    BY <2>3, <2>5
  <2>6. QED
    BY <2>1, <2>4, <2>5, PutRowMoves
<1>2. CASE \E a \in Actors : PutMeta(a)
  <2>1. PICK a \in Actors : PutMeta(a)
    BY <1>2
  <2>2. /\ act[a].pc = "meta" /\ CopyFits(act[a]) /\ StepOK(act[a])
        /\ triggered \in BOOLEAN /\ UNCHANGED <<row, hooks>>
        /\ meta' \in {None, act[a].copy.status}
        /\ triggered' = (triggered \/ meta' = Completed)
    BY <2>1 DEF PutMeta, Calm, IInv, TypeOK
  <2>3. act[a].copy.status = Completed => row.status = Completed
    <3>1. CASE act[a].op \in {"launch", "connected"}
      BY <2>2, <3>1 DEF CopyFits, StepOK, Writes
    <3>2. CASE act[a].op \notin {"launch", "connected"}
      BY <2>2, <3>2 DEF Announces, Calm
    <3>3. QED
      BY <3>1, <3>2
  <2>4. triggered' = triggered \/ (row.status = Completed /\ triggered' = TRUE)
    BY <2>2, <2>3 DEF None
  <2>5. QED
    BY <2>2, <2>4 DEF Lifecycle!Score, Lifecycle!Completed
<1>3. CASE \E a \in Actors : Emit(a)
  <2>1. PICK a \in Actors : Emit(a)
    BY <1>3
  <2>2. UNCHANGED <<row, triggered>>
    BY <2>1 DEF Emit
  <2>3. QED
    BY <2>1, <2>2, CalmEmit
    DEF Lifecycle!Announce, Lifecycle!NoHooks, NoHooks, Terminal,
        Lifecycle!Terminal, Lifecycle!Completed, Lifecycle!Failed
<1>4. CASE /\ ~ \E a \in Actors : PutRow(a) \/ PutMeta(a) \/ Emit(a)
  <2>1. UNCHANGED <<row, hooks, triggered>>
    BY <1>4
    DEF Next, vars, Serve, Ready, ReadyFails, HangupReaches, HangupAnswered,
       HangupUnanswered, Arrive, Receive, Request, Load,
       SweepExpired, SweepOverdue, Bridge, ClientConnects, MediaEnds,
       MediaReports, Fault, WorkerAborts, TickRaises, ReportLost, BridgeRestarts,
       Advance
  <2>2. QED
    BY <2>1
<1>5. QED
  BY <1>1, <1>2, <1>3, <1>4

\* However requests overlap, the control plane follows the transition graph,
\* announces the outcome once and as what it is, and requests an evaluation of
\* completed sessions only, until a handler puts back a copy of a row that has
\* changed since: crashes, lost reports and restarts alone break nothing of it.
THEOREM OverwritesAlone == NotedSpec => LifecycleUntilOverwritten
<1> DEFINE CalmYet == overwritten \in BOOLEAN /\ (~overwritten => Calm)
<1>1. Init /\ overwritten = FALSE => IInv /\ CalmYet
  BY InitIInv, CalmInit
<1>2. IInv /\ CalmYet /\ [Next /\ Notes]_notedVars
        => IInv' /\ CalmYet' /\ (~overwritten' => [Lifecycle!Next]_(Lifecycle!vars))
  <2> SUFFICES ASSUME IInv, CalmYet, [Next /\ Notes]_notedVars
               PROVE  IInv' /\ CalmYet' /\ (~overwritten' => [Lifecycle!Next]_(Lifecycle!vars))
    OBVIOUS
  <2>1. [Next]_vars
    BY DEF notedVars
  <2>2. CASE \E a \in Actors : Overwrites(a)
    <3>1. overwritten' = TRUE \/ (UNCHANGED notedVars /\ overwritten' = overwritten)
      BY <2>2 DEF Notes, notedVars
    <3>2. UNCHANGED notedVars => Calm' = Calm
      BY DEF notedVars, vars, Calm, NoHooks
    <3>3. UNCHANGED notedVars => [Lifecycle!Next]_(Lifecycle!vars)
      BY DEF notedVars, vars, Lifecycle!vars
    <3>4. QED
      BY <2>1, <3>1, <3>2, <3>3, NextIInv
  <2>3. CASE ~ \E a \in Actors : Overwrites(a)
    <3>1. overwritten' = overwritten
      BY <2>3 DEF Notes, notedVars
    <3>2. QED
      BY <2>1, <2>3, <3>1, NextIInv, CalmNext, StepRefines
  <2>4. QED
    BY <2>2, <2>3
<1>3. QED
  BY <1>1, <1>2, PTL DEF NotedSpec, LifecycleUntilOverwritten

-------------------------------------------------------------------------------

\* A step that leaves the row and the evaluation alone, and the handlers that are
\* about to hand a session over where they are.
LEMMA ScoreKept ==
    ASSUME CompletedIsScored, UNCHANGED <<row, triggered>>,
           \A a \in Actors : Scoring(a) => act'[a] = act[a]
    PROVE  CompletedIsScored'
  BY DEF CompletedIsScored, Scoring

LEMMA ScorePutRow ==
    ASSUME IInv, CompletedIsScored, NEW a \in Actors, PutRow(a)
    PROVE  CompletedIsScored'
<1>1. /\ act \in [Actors -> Request0] /\ StepOK(act[a]) /\ TypeOK /\ act[a].pc = "put"
  BY DEF IInv, TypeOK, PutRow
<1>2. row'.status = Writes[act[a].op] /\ act[a].op \in Writers
  BY <1>1, UpdatedOK DEF PutRow, StepOK
<1>3. ASSUME row'.status = Completed
      PROVE  act'[a].pc = "meta" /\ act'[a].op \in Completers
  <2>1. act[a].op \in Completers /\ act[a].op # "cancel"
    BY <1>2, <1>3 DEF Writes, Writers, Completers, Hangups
  <2>2. act' = [act EXCEPT ![a].pc = "meta", ![a].copy = row']
    BY <2>1 DEF PutRow
  <2>3. QED
    BY <1>1, <2>1, <2>2 DEF Request0
<1>4. QED
  BY <1>3 DEF CompletedIsScored, Scoring

LEMMA ScorePutMeta ==
    ASSUME IInv, CompletedIsScored, NEW a \in Actors, PutMeta(a), ~Misses
    PROVE  CompletedIsScored'
<1>1. act \in [Actors -> Request0] /\ StepOK(act[a]) /\ TypeOK /\ row' = row
  BY DEF IInv, TypeOK, PutMeta
<1>2. \A b \in Actors \ {a} : act'[b] = act[b]
  BY <1>1 DEF PutMeta, Goto, Done
<1>3. triggered => triggered'
  BY <1>1 DEF PutMeta, TypeOK
<1>4. CASE Scoring(a)
  <2>1. act[a].op # "launch" /\ act[a].copy.status = Completed
    BY <1>1, <1>4 DEF Scoring, StepOK, Completers, Hangups, Writes
  <2>2. meta # None
    BY <1>4 DEF Misses
  <2>3. triggered'
    BY <2>1, <2>2 DEF PutMeta
  <2>4. QED
    BY <2>3 DEF CompletedIsScored
<1>5. CASE ~Scoring(a)
  BY <1>1, <1>2, <1>3, <1>5 DEF CompletedIsScored, Scoring
<1>6. QED
  BY <1>4, <1>5

LEMMA ScoreNext ==
    ASSUME IInv, CompletedIsScored, [Next]_vars, ~Misses
    PROVE  CompletedIsScored'
<1> USE DEF Done, Goto
<1>1. act \in [Actors -> Request0] /\ Workers \subseteq Actors /\ Tick \in Actors
  BY DEF IInv, TypeOK, Actors
<1>2. ASSUME NEW a \in Actors, Serve(a) PROVE CompletedIsScored'
  <2>1. CASE PutRow(a) \/ PutMeta(a)
    BY <2>1, ScorePutRow, ScorePutMeta
  <2>2. CASE ~(PutRow(a) \/ PutMeta(a))
    <3>1. /\ act[a].pc # "meta"
          /\ UNCHANGED <<row, triggered>>
          /\ \A b \in Actors \ {a} : act'[b] = act[b]
      BY <1>1, <1>2, <2>2
      DEF Serve, Ready, ReadyFails, HangupReaches, HangupAnswered,
          HangupUnanswered, Emit
    <3>2. QED
      BY <3>1, ScoreKept DEF Scoring
  <2>3. QED
    BY <2>1, <2>2
<1>3. ASSUME NEW a \in Actors, NEW op, Load(a, op) PROVE CompletedIsScored'
  <2>1. act[a].pc = "idle" /\ UNCHANGED <<row, triggered>>
        /\ \A b \in Actors \ {a} : act'[b] = act[b]
    BY <1>1, <1>3 DEF Load, Free
  <2>2. QED
    BY <2>1, ScoreKept DEF Scoring
<1>4. CASE (\E w \in Workers : Arrive(w)) \/ SweepExpired \/ SweepOverdue
  BY <1>1, <1>3, <1>4 DEF Arrive, Receive, Request, SweepExpired, SweepOverdue
<1>5. CASE Fault
  <2>1. CASE BridgeRestarts
    BY <2>1, ScoreKept DEF BridgeRestarts, Scoring
  <2>2. CASE \E e \in Events : ReportLost(e)
    BY <2>2, ScoreKept DEF ReportLost
  <2>3. ASSUME NEW w \in Workers, WorkerAborts(w) PROVE CompletedIsScored'
    <3>1. ~Scoring(w) /\ UNCHANGED <<row, triggered>>
          /\ \A b \in Actors \ {w} : act'[b] = act[b]
      BY <1>1, <2>3 DEF WorkerAborts, Misses
    <3>2. QED
      BY <3>1, ScoreKept
  <2>4. CASE TickRaises
    <3>1. ~Scoring(Tick) /\ UNCHANGED <<row, triggered>>
          /\ \A b \in Actors \ {Tick} : act'[b] = act[b]
      BY <1>1, <2>4 DEF TickRaises, Misses
    <3>2. QED
      BY <3>1, ScoreKept
  <2>5. QED
    BY <1>5, <2>1, <2>2, <2>3, <2>4 DEF Fault
<1>6. CASE Bridge \/ Advance \/ UNCHANGED vars
  BY <1>6, ScoreKept
  DEF Bridge, ClientConnects, MediaEnds, MediaReports, Advance, vars
<1>7. QED
  BY <1>2, <1>4, <1>5, <1>6 DEF Next

\* However requests overlap and whatever is lost, a session put down as completed
\* reaches the evaluator, unless the handler that put it is cut short before the
\* meta row, or finds none there, because the launch never wrote it.
THEOREM CompletionsAreScored == NotedSpec => []CompletedIsScoredOrMissed
<1> DEFINE ScoreInv == missed \in BOOLEAN /\ CompletedIsScoredOrMissed
<1>1. Init /\ missed = FALSE => IInv /\ ScoreInv
  <2> SUFFICES ASSUME Init, missed = FALSE PROVE IInv /\ ScoreInv
    OBVIOUS
  <2>1. row = NewRow /\ NewRow.status # Completed
    BY DEF Init, NewRow
  <2>2. CompletedIsScored
    BY <2>1 DEF CompletedIsScored
  <2>3. QED
    BY <2>2, InitIInv DEF CompletedIsScoredOrMissed
<1>2. IInv /\ ScoreInv /\ [Next /\ Notes]_notedVars => IInv' /\ ScoreInv'
  <2> SUFFICES ASSUME IInv, ScoreInv, [Next /\ Notes]_notedVars PROVE IInv' /\ ScoreInv'
    OBVIOUS
  <2>1. [Next]_vars /\ (missed' = missed \/ missed' = TRUE)
    BY DEF notedVars, Notes
  <2>2. CASE missed' = TRUE
    BY <2>1, <2>2, NextIInv DEF CompletedIsScoredOrMissed
  <2>3. CASE missed' = FALSE
    <3>1. missed = FALSE /\ CompletedIsScored
      BY <2>1, <2>3 DEF CompletedIsScoredOrMissed
    <3>2. CASE UNCHANGED vars
      BY <2>1, <2>3, <3>1, <3>2, NextIInv, ScoreKept
      DEF vars, CompletedIsScoredOrMissed
    <3>3. CASE ~UNCHANGED vars
      <4>1. ~Misses
        BY <2>3, <3>3 DEF Notes, notedVars
      <4>2. QED
        BY <2>1, <2>3, <3>1, <4>1, NextIInv, ScoreNext DEF CompletedIsScoredOrMissed
    <3>4. QED
      BY <3>2, <3>3
  <2>4. QED
    BY <2>1, <2>2, <2>3
<1>3. QED
  BY <1>1, <1>2, PTL DEF NotedSpec


(***************************************************************************)
(* Whose voice interrupts (SpeakerGate).  An episode is the sound gathered  *)
(* for one interruption; what keeps a comparison with the pause it was made *)
(* in is that an episode ends whenever a pause does.                        *)
(***************************************************************************)

\* What the configuration is taken to be.
GateConfig ==
    /\ EnrollFrames \in Nat /\ EnrollGap \in Nat /\ MinVerify \in Nat /\ VerifyWindow \in Nat
    /\ Confirm \in Nat /\ Takeover \in Nat /\ Hangover \in Nat /\ Decay \in Nat
    /\ One \in Nat /\ Low \in Int /\ High \in Int /\ Levels \subseteq Nat
    /\ MaxSegments \in Nat /\ MaxPauses \in Nat

GateFlags ==
    /\ lock \in BOOLEAN /\ closed \in BOOLEAN /\ speaking \in BOOLEAN /\ awaiting \in BOOLEAN
    /\ pausing \in BOOLEAN /\ bystander \in BOOLEAN /\ verifyDone \in BOOLEAN
    /\ pending \in BOOLEAN /\ verifying \in BOOLEAN /\ current \in BOOLEAN /\ left \in BOOLEAN
EnrolCounts ==
    accum \in Nat /\ gap \in Nat /\ submitted \in Nat /\ enrolling \in Nat /\ kept \in Nat /\ quiet \in Nat
GateCounts ==
    /\ evidence \in Nat /\ dip \in Nat /\ window \in Nat
    /\ pauses \in Nat /\ asked \in Nat /\ asksFor \in Nat /\ heardFor \in Nat
ReferenceTyped == reference \in {<<>>} \cup ((1..submitted) \X (1..submitted))

\* The silence since a segment was sent counts from nothing.
GapIsQuiet == awaiting => gap <= quiet /\ accum = 0

\* The segment on its way is the last one sent, later than the one kept.
SegmentsInOrder ==
    /\ enrolling <= submitted /\ kept <= submitted
    /\ enrolling # 0 => kept < enrolling /\ reference = <<>>

GateIsSound == (window > 0 => lock) /\ (lock => ThresholdsValid)
EpisodeIsAPause == (verifying /\ current => pausing) /\ (pausing => pauses > 0)

EnrolInv == EnrolCounts /\ ReferenceTyped /\ GapIsQuiet /\ SegmentsInOrder /\ SegmentsLieApart
EpisodeInv ==
    /\ GateCounts /\ GateIsSound /\ EpisodeIsAPause /\ VerdictIsOfThisPause
    /\ PausesAreCheckedOnce /\ NobodyIsShutOut /\ SoundIsOfThisBurst
GateInv == GateFlags /\ EnrolInv /\ EpisodeInv /\ OneVoiceAtATime /\ OwnVoicePasses

LEMMA CapturedIsSound ==
    ASSUME GateConfig, GateInv
    PROVE  Captured \in Nat /\ (Captured > 0 => lock)
BY DEF GateConfig, GateInv, EpisodeInv, GateCounts, GateFlags, Captured

LEMMA EnrolmentStays ==
    ASSUME GateInv, UNCHANGED <<lock, enrolVars>>
    PROVE  EnrolInv' /\ OwnVoicePasses' /\ (verifying' /\ Enrolled => OneVoiceAtATime')
BY DEF GateInv, EnrolInv, EnrolCounts, ReferenceTyped, GapIsQuiet, SegmentsInOrder,
       SegmentsLieApart, OwnVoicePasses, OneVoiceAtATime, Enrolled, Verdict, enrolVars

LEMMA EpisodeStays ==
    ASSUME GateInv, UNCHANGED <<lock, soundVars, pauseVars, checkVars>>
    PROVE  EpisodeInv' /\ OwnVoicePasses'
BY DEF GateInv, EpisodeInv, GateCounts, GateIsSound, EpisodeIsAPause, PausesAreCheckedOnce,
       VerdictIsOfThisPause, NobodyIsShutOut, SoundIsOfThisBurst, OwnVoicePasses,
       ThresholdsValid, Verdict, Heeded, soundVars, pauseVars, checkVars

\* However a pause or a burst ends, its episode ends with it.
LEMMA EpisodeEnds ==
    ASSUME GateInv, pausing' = FALSE, NoEvidence, EndSpeakerEpisode, speaking' \in BOOLEAN,
           UNCHANGED <<lock, closed, enrolVars, bystander, verifyDone, pauses, asked, asksFor,
                       heardFor>>,
           verifying' \in BOOLEAN, verifying' => verifying
    PROVE  GateInv'
<1>1. GateFlags'
  BY DEF GateInv, GateFlags, enrolVars, EndSpeakerEpisode
<1>2. EnrolInv' /\ OwnVoicePasses' /\ OneVoiceAtATime'
  BY EnrolmentStays DEF GateInv, OneVoiceAtATime, Enrolled, enrolVars
<1>3. GateCounts' /\ GateIsSound' /\ EpisodeIsAPause' /\ SoundIsOfThisBurst'
  BY DEF GateInv, EpisodeInv, GateCounts, GateIsSound, EpisodeIsAPause, SoundIsOfThisBurst,
         ThresholdsValid, NoEvidence, EndSpeakerEpisode
<1>4. VerdictIsOfThisPause' /\ NobodyIsShutOut' /\ PausesAreCheckedOnce'
  BY DEF GateInv, EpisodeInv, VerdictIsOfThisPause, Heeded, NobodyIsShutOut,
         PausesAreCheckedOnce
<1> QED BY <1>1, <1>2, <1>3, <1>4 DEF GateInv, EpisodeInv

LEMMA SpeechFrameStep ==
    ASSUME GateConfig, GateInv, NEW rms \in Levels, SpeechFrame(rms)
    PROVE  GateInv'
<1>1. GateFlags' /\ EpisodeInv' /\ OwnVoicePasses'
  BY EpisodeStays DEF GateInv, GateFlags, SpeechFrame, soundVars, pauseVars, checkVars
<1>2. EnrolCounts' /\ ReferenceTyped'
  BY DEF GateInv, EnrolInv, EnrolCounts, ReferenceTyped, SpeechFrame
<1>3. GapIsQuiet'
  <2>1. ~awaiting' \/ (gap' = 0 /\ accum' = 0 /\ quiet' = 0)
    BY DEF SpeechFrame
  <2> QED BY <2>1 DEF GapIsQuiet
<1>4. SegmentsInOrder' /\ OneVoiceAtATime'
  BY DEF GateInv, EnrolInv, EnrolCounts, SegmentsInOrder, OneVoiceAtATime, Enrolled,
         SpeechFrame, MayEnrol, checkVars
<1>5. SegmentsLieApart'
  BY DEF GateInv, EnrolInv, EnrolCounts, GateConfig, GateFlags, SegmentsLieApart, SpeechFrame
<1> QED BY <1>1, <1>2, <1>3, <1>4, <1>5 DEF GateInv, EnrolInv

LEMMA SilentFrameStep ==
    ASSUME GateConfig, GateInv, NEW rms \in Levels, SilentFrame(rms)
    PROVE  GateInv'
<1>1. GateFlags' /\ EpisodeInv' /\ OwnVoicePasses'
  BY EpisodeStays DEF GateInv, GateFlags, SilentFrame, soundVars, pauseVars, checkVars
<1>2. EnrolCounts' /\ ReferenceTyped' /\ SegmentsInOrder' /\ OneVoiceAtATime'
  BY DEF GateInv, EnrolInv, EnrolCounts, ReferenceTyped, SegmentsInOrder, OneVoiceAtATime,
         Enrolled, SilentFrame, checkVars
<1>3. GapIsQuiet'
  <2>1. quiet' = quiet + 1
    BY DEF SilentFrame
  <2>2. ~awaiting' \/ (gap' = gap + 1 /\ accum' = accum /\ awaiting' = awaiting)
    BY DEF SilentFrame
  <2>3. CASE ~awaiting'
    BY <2>3 DEF GapIsQuiet
  <2>4. CASE gap' = gap + 1 /\ accum' = accum /\ awaiting' = awaiting
    BY <2>1, <2>4 DEF GateInv, EnrolInv, GapIsQuiet, EnrolCounts
  <2> QED BY <2>2, <2>3, <2>4
<1>4. SegmentsLieApart'
  BY DEF GateInv, EnrolInv, EnrolCounts, GateConfig, GateFlags, GapIsQuiet, SegmentsLieApart,
         SilentFrame
<1> QED BY <1>1, <1>2, <1>3, <1>4 DEF GateInv, EnrolInv

LEMMA SegmentAnswered ==
    ASSUME GateInv, (\E agrees \in BOOLEAN : SegmentEmbedded(agrees)) \/ SegmentFails
    PROVE  GateInv'
<1>0. enrolling # 0 /\ enrolling' = 0
      /\ UNCHANGED <<lock, closed, speaking, accum, gap, awaiting, submitted, quiet, soundVars,
                     pauseVars, checkVars>>
  BY DEF SegmentEmbedded, SegmentFails
<1>1. \/ UNCHANGED <<kept, reference>>
      \/ kept # 0 /\ reference' = <<kept, enrolling>> /\ kept' = kept
      \/ kept' = enrolling /\ UNCHANGED reference
  BY DEF SegmentEmbedded, AddSegment, SegmentFails
<1>2. GateFlags' /\ EpisodeInv' /\ OwnVoicePasses'
  BY <1>0, EpisodeStays DEF GateInv, GateFlags, soundVars, pauseVars, checkVars
<1>3. EnrolCounts' /\ GapIsQuiet' /\ SegmentsInOrder' /\ SegmentsLieApart'
  BY <1>0, <1>1 DEF GateInv, EnrolInv, EnrolCounts, GapIsQuiet, SegmentsInOrder, SegmentsLieApart
<1>4. ReferenceTyped' /\ OneVoiceAtATime'
  BY <1>0, <1>1 DEF GateInv, EnrolInv, EnrolCounts, SegmentsInOrder, ReferenceTyped,
                    OneVoiceAtATime, Enrolled, checkVars
<1> QED BY <1>2, <1>3, <1>4 DEF GateInv, EnrolInv

LEMMA LoudFrameStep ==
    ASSUME GateConfig, GateInv, NEW rms \in Levels, NEW peak \in Levels, NEW noise \in Levels,
           NEW percent \in Adjustments, NEW canPause \in BOOLEAN,
           LoudFrame(rms, peak, noise, percent, canPause)
    PROVE  GateInv'
<1> DEFINE Gathers == /\ evidence' = evidence + 1 /\ dip' = 0 /\ window' = Captured
                      /\ UNCHANGED <<speaking, pausing, bystander, verifyDone, pauses, asked,
                                     pending, current, left>>
           Suspects == /\ BeginTentativePause
                       /\ evidence' = evidence + 1 /\ dip' = 0 /\ window' = Captured
                       /\ UNCHANGED <<speaking, pending, current, left>>
<1>1. speaking /\ ~pausing /\ UNCHANGED <<lock, closed, enrolVars, verifying, asksFor, heardFor>>
  BY DEF LoudFrame, Hears
<1>2. Gathers \/ Suspects \/ (CutOff /\ UNCHANGED <<bystander, verifyDone, pauses, asked>>)
  BY DEF LoudFrame
<1>3. CASE CutOff /\ UNCHANGED <<bystander, verifyDone, pauses, asked>>
  BY <1>1, <1>3, EpisodeEnds DEF CutOff, GateInv, GateFlags
<1>4. CASE Gathers \/ Suspects
  <2>0. Captured \in Nat /\ (Captured > 0 => lock)
    BY CapturedIsSound
  <2>1. GateFlags'
    BY <1>1, <1>4 DEF GateInv, GateFlags, enrolVars, BeginTentativePause
  <2>2. EnrolInv' /\ OwnVoicePasses' /\ OneVoiceAtATime'
    BY <1>1, EnrolmentStays DEF GateInv, OneVoiceAtATime, Enrolled, enrolVars
  <2>3. /\ evidence' = evidence + 1 /\ dip' = 0 /\ window' = Captured
        /\ UNCHANGED <<current, left>>
        /\ \/ UNCHANGED <<pausing, bystander, verifyDone, pauses, asked>>
           \/ /\ pausing' = TRUE /\ bystander' = FALSE /\ verifyDone' = FALSE
              /\ pauses' = pauses + 1 /\ asked' = 0
    BY <1>4 DEF BeginTentativePause
  <2>4. GateCounts' /\ GateIsSound'
    BY <1>1, <2>0, <2>3 DEF GateInv, EpisodeInv, GateCounts, GateIsSound, ThresholdsValid
  <2>5. EpisodeIsAPause' /\ VerdictIsOfThisPause' /\ NobodyIsShutOut'
    <3>1. ~(verifying /\ current) /\ verifying' = verifying /\ current' = current
      BY <1>1, <2>3 DEF GateInv, EpisodeInv, EpisodeIsAPause
    <3>2. VerdictIsOfThisPause' /\ NobodyIsShutOut'
      BY <1>1, <2>3, <3>1 DEF VerdictIsOfThisPause, NobodyIsShutOut, Heeded
    <3>3. pauses' = pauses + 1 \/ ~pausing'
      BY <1>1, <2>3
    <3> QED BY <3>1, <3>2, <3>3 DEF GateInv, EpisodeInv, EpisodeIsAPause, GateCounts
  <2>6. PausesAreCheckedOnce'
    <3>1. CASE UNCHANGED <<verifyDone, asked>>
      BY <1>1, <3>1 DEF GateInv, EpisodeInv, PausesAreCheckedOnce
    <3>2. CASE verifyDone' = FALSE /\ asked' = 0
      BY <1>1, <3>2 DEF GateInv, EpisodeInv, PausesAreCheckedOnce
    <3> QED BY <2>3, <3>1, <3>2
  <2>7. SoundIsOfThisBurst'
    BY <2>3 DEF GateInv, EpisodeInv, SoundIsOfThisBurst, GateCounts
  <2> QED BY <2>1, <2>2, <2>4, <2>5, <2>6, <2>7 DEF GateInv, EpisodeInv
<1> QED BY <1>2, <1>3, <1>4

LEMMA LoudInPauseStep ==
    ASSUME GateConfig, GateInv, NEW rms \in Levels, NEW peak \in Levels, NEW noise \in Levels,
           LoudInPause(rms, peak, noise)
    PROVE  GateInv'
<1> DEFINE asks == Asks
<1>1. /\ speaking /\ pausing
      /\ UNCHANGED <<lock, closed, enrolVars, bystander, pauses>>
      /\ verifyDone' = (verifyDone \/ asks) /\ verifying' = (verifying \/ asks)
      /\ asked' = IF asks THEN asked + 1 ELSE asked
      /\ asksFor' = IF asks THEN pauses ELSE asksFor
      /\ heardFor' = IF asks THEN Captured ELSE heardFor
  BY DEF LoudInPause, Hears
<1>2. asks \in BOOLEAN /\ (asks => Enrolled /\ ~verifyDone /\ ~verifying /\ Captured >= MinVerify)
  BY DEF Asks
<1>3. \/ CutOff
      \/ /\ evidence' = evidence + 1 /\ dip' = 0 /\ window' = Captured
         /\ pending' = (pending \/ asks) /\ current' = (current \/ asks)
         /\ UNCHANGED <<speaking, pausing, left>>
  BY DEF LoudInPause
<1> HIDE DEF asks
<1>4. GateFlags'
  BY <1>1, <1>2, <1>3 DEF GateInv, GateFlags, enrolVars, CutOff, EndSpeakerEpisode
<1>5. EnrolInv' /\ OwnVoicePasses' /\ OneVoiceAtATime'
  BY <1>1, <1>2, EnrolmentStays DEF GateInv, OneVoiceAtATime, Enrolled, enrolVars
<1>6. Captured \in Nat /\ (Captured > 0 => lock)
  BY CapturedIsSound
<1>7. GateCounts' /\ GateIsSound'
  <2>1. \/ evidence' = 0 /\ dip' = 0 /\ window' = 0
        \/ evidence' = evidence + 1 /\ dip' = 0 /\ window' = Captured
    BY <1>3 DEF CutOff, NoEvidence, EndSpeakerEpisode
  <2>2. GateIsSound'
    BY <1>1, <1>6, <2>1 DEF GateInv, EpisodeInv, GateIsSound, ThresholdsValid
  <2> QED BY <1>1, <1>2, <1>6, <2>1, <2>2 DEF GateInv, EpisodeInv, GateCounts
<1>8. EpisodeIsAPause' /\ VerdictIsOfThisPause' /\ NobodyIsShutOut'
  BY <1>1, <1>2, <1>3 DEF GateInv, EpisodeInv, EpisodeIsAPause, VerdictIsOfThisPause,
                          NobodyIsShutOut, Heeded, CutOff, EndSpeakerEpisode
<1>9. PausesAreCheckedOnce'
  <2>1. CASE asks
    <3>1. verifyDone' /\ asked' = asked + 1 /\ asksFor' = pauses /\ heardFor' = Captured
      BY <1>1, <2>1
    <3>2. asked = 0 /\ pauses > 0
      BY <1>1, <1>2, <2>1 DEF GateInv, EpisodeInv, PausesAreCheckedOnce, GateCounts,
                              EpisodeIsAPause
    <3> QED BY <1>2, <2>1, <3>1, <3>2 DEF PausesAreCheckedOnce
  <2>2. CASE ~asks
    BY <1>1, <2>2 DEF GateInv, EpisodeInv, PausesAreCheckedOnce, GateFlags
  <2> QED BY <2>1, <2>2
<1>10. SoundIsOfThisBurst'
  <2>1. pausing' \/ window' = 0
    BY <1>1, <1>3 DEF CutOff, EndSpeakerEpisode
  <2> QED BY <2>1 DEF SoundIsOfThisBurst
<1> QED BY <1>4, <1>5, <1>7, <1>8, <1>9, <1>10 DEF GateInv, EpisodeInv

LEMMA WeakFrameStep ==
    ASSUME GateConfig, GateInv, NEW rms \in Levels, NEW peak \in Levels, NEW noise \in Levels,
           NEW percent \in Adjustments, WeakFrame(rms, peak, noise, percent)
    PROVE  GateInv'
<1>1. /\ ~pausing
      /\ UNCHANGED <<lock, closed, speaking, enrolVars, pauseVars, verifying, asksFor, heardFor>>
  BY DEF WeakFrame
<1>2. \/ dip' = dip + 1 /\ UNCHANGED <<evidence, window, left, pending, current>>
      \/ NoEvidence /\ EndSpeakerEpisode
      \/ NoEvidence /\ ~(lock /\ window > 0) /\ UNCHANGED <<window, left, pending, current>>
  BY DEF WeakFrame
<1>3. CASE NoEvidence /\ EndSpeakerEpisode
  BY <1>1, <1>3, EpisodeEnds DEF GateInv, GateFlags, pauseVars
<1>4. CASE ~(NoEvidence /\ EndSpeakerEpisode)
  <2>1. GateFlags'
    BY <1>1, <1>2, <1>4 DEF GateInv, GateFlags, enrolVars, pauseVars
  <2>2. EnrolInv' /\ OwnVoicePasses' /\ OneVoiceAtATime'
    BY <1>1, EnrolmentStays DEF GateInv, OneVoiceAtATime, Enrolled, enrolVars
  <2>3. GateCounts' /\ GateIsSound' /\ PausesAreCheckedOnce'
    BY <1>1, <1>2, <1>4 DEF GateInv, EpisodeInv, GateCounts, GateIsSound, ThresholdsValid,
                            PausesAreCheckedOnce, NoEvidence, pauseVars
  <2>4. EpisodeIsAPause' /\ VerdictIsOfThisPause' /\ NobodyIsShutOut'
    BY <1>1, <1>2, <1>4 DEF GateInv, EpisodeInv, EpisodeIsAPause, VerdictIsOfThisPause,
                            NobodyIsShutOut, Heeded, pauseVars
  <2>5. SoundIsOfThisBurst'
    BY <1>1, <1>2, <1>4 DEF GateInv, EpisodeInv, SoundIsOfThisBurst, GateCounts, GateIsSound,
                            pauseVars
  <2> QED BY <2>1, <2>2, <2>3, <2>4, <2>5 DEF GateInv, EpisodeInv
<1> QED BY <1>3, <1>4

LEMMA WeakInPauseStep ==
    ASSUME GateConfig, GateInv, NEW rms \in Levels, NEW peak \in Levels, NEW noise \in Levels,
           WeakInPause(rms, peak, noise)
    PROVE  GateInv'
<1>1. evidence' = Larger(0, evidence - Decay) /\ pausing
      /\ UNCHANGED <<lock, closed, speaking, enrolVars, dip, window, left, pauseVars, checkVars>>
  BY DEF WeakInPause
<1>2. GateFlags'
  BY <1>1 DEF GateInv, GateFlags, enrolVars, pauseVars, checkVars
<1>3. EnrolInv' /\ OwnVoicePasses' /\ OneVoiceAtATime'
  BY <1>1, EnrolmentStays DEF GateInv, OneVoiceAtATime, Enrolled, enrolVars, checkVars
<1>4. GateCounts'
  BY <1>1 DEF GateInv, EpisodeInv, GateCounts, GateConfig, Larger, pauseVars, checkVars
<1>5. GateIsSound' /\ EpisodeIsAPause' /\ VerdictIsOfThisPause' /\ NobodyIsShutOut'
      /\ PausesAreCheckedOnce' /\ SoundIsOfThisBurst'
  BY <1>1 DEF GateInv, EpisodeInv, GateIsSound, ThresholdsValid, EpisodeIsAPause,
              VerdictIsOfThisPause, Heeded, NobodyIsShutOut, PausesAreCheckedOnce,
              SoundIsOfThisBurst, pauseVars, checkVars
<1> QED BY <1>2, <1>3, <1>4, <1>5 DEF GateInv, EpisodeInv

LEMMA OnSpeakerVerdictStep ==
    ASSUME GateInv, NEW verdict, OnSpeakerVerdict(verdict)
    PROVE  GateInv'
<1>1. verifying' = FALSE /\ UNCHANGED <<lock, closed, enrolVars, asksFor, heardFor>>
  BY DEF OnSpeakerVerdict
<1>2. CASE CutOff /\ UNCHANGED <<bystander, verifyDone, pauses, asked>>
  BY <1>1, <1>2, EpisodeEnds DEF CutOff, GateInv, GateFlags
<1>3. CASE /\ UNCHANGED <<evidence, dip, window, bystander, verifyDone, pauses, asked, speaking>>
           /\ \/ UNCHANGED <<pausing, left, pending, current>>
              \/ pausing' = FALSE /\ pending' = FALSE /\ left' = TRUE /\ current' = current
              \/ pending' = FALSE /\ UNCHANGED <<pausing, left, current>>
  <2>1. GateFlags'
    BY <1>1, <1>3 DEF GateInv, GateFlags, enrolVars
  <2>2. EnrolInv' /\ OwnVoicePasses' /\ OneVoiceAtATime'
    BY <1>1, EnrolmentStays DEF GateInv, OneVoiceAtATime, Enrolled, enrolVars
  <2>3. GateCounts' /\ GateIsSound' /\ PausesAreCheckedOnce' /\ SoundIsOfThisBurst'
    BY <1>1, <1>3 DEF GateInv, EpisodeInv, GateCounts, GateIsSound, ThresholdsValid,
                      PausesAreCheckedOnce, SoundIsOfThisBurst
  <2>4. EpisodeIsAPause' /\ VerdictIsOfThisPause' /\ NobodyIsShutOut'
    BY <1>1, <1>3 DEF GateInv, EpisodeInv, EpisodeIsAPause, VerdictIsOfThisPause, Heeded,
                      NobodyIsShutOut
  <2> QED BY <2>1, <2>2, <2>3, <2>4 DEF GateInv, EpisodeInv
<1>4. CASE bystander' = TRUE /\ Resume /\ UNCHANGED <<speaking, verifyDone, pauses, asked>>
  <2>1. GateFlags'
    BY <1>1, <1>4 DEF GateInv, GateFlags, enrolVars, Resume, EndSpeakerEpisode
  <2>2. EnrolInv' /\ OwnVoicePasses' /\ OneVoiceAtATime'
    BY <1>1, EnrolmentStays DEF GateInv, OneVoiceAtATime, Enrolled, enrolVars
  <2>3. GateCounts' /\ GateIsSound' /\ PausesAreCheckedOnce' /\ SoundIsOfThisBurst'
    BY <1>1, <1>4 DEF GateInv, EpisodeInv, GateCounts, GateIsSound, ThresholdsValid,
                      PausesAreCheckedOnce, SoundIsOfThisBurst, Resume, NoEvidence, EndSpeakerEpisode
  <2>4. EpisodeIsAPause' /\ VerdictIsOfThisPause' /\ NobodyIsShutOut'
    BY <1>1, <1>4 DEF EpisodeIsAPause, VerdictIsOfThisPause, Heeded, NobodyIsShutOut, Resume
  <2> QED BY <2>1, <2>2, <2>3, <2>4 DEF GateInv, EpisodeInv
<1> QED BY <1>2, <1>3, <1>4 DEF OnSpeakerVerdict, soundVars, pauseVars

LEMMA AroundStep ==
    ASSUME GateInv, RecoveryElapsed \/ AiSpeaks \/ AiDone \/ Interrupt \/ ResetTurn \/ Teardown
    PROVE  GateInv'
<1>1. CASE RecoveryElapsed \/ Interrupt \/ ResetTurn
  <2>1. /\ pausing' = FALSE /\ NoEvidence /\ EndSpeakerEpisode
        /\ UNCHANGED <<lock, closed, enrolVars, bystander, verifyDone, pauses, asked, verifying,
                       asksFor, heardFor>>
    BY <1>1 DEF RecoveryElapsed, Resume, Interrupt, CutOff, ResetTurn
  <2>2. speaking' \in BOOLEAN /\ verifying' \in BOOLEAN
    BY <1>1, <2>1 DEF RecoveryElapsed, Interrupt, CutOff, ResetTurn, GateInv, GateFlags
  <2> QED BY <2>1, <2>2, EpisodeEnds
<1>2. CASE AiSpeaks \/ AiDone \/ Teardown
  <2>1. UNCHANGED <<lock, enrolVars, soundVars, pauseVars, checkVars>>
    BY <1>2 DEF AiSpeaks, AiDone, Teardown
  <2>2. GateFlags'
    <3>1. closed' \in BOOLEAN /\ speaking' \in BOOLEAN
      BY <1>2 DEF AiSpeaks, AiDone, Teardown, GateInv, GateFlags
    <3> QED BY <2>1, <3>1 DEF GateInv, GateFlags, enrolVars, soundVars, pauseVars, checkVars
  <2>3. EnrolInv' /\ OwnVoicePasses' /\ OneVoiceAtATime' /\ EpisodeInv'
    BY <2>1, EnrolmentStays, EpisodeStays DEF GateInv, OneVoiceAtATime, Enrolled, enrolVars, checkVars
  <2> QED BY <2>2, <2>3 DEF GateInv
<1> QED BY <1>1, <1>2

LEMMA GateInvHolds ==
    ASSUME GateConfig
    PROVE  GateSpec => []GateInv
<1>1. GateInit => GateInv
  <2> SUFFICES ASSUME GateInit PROVE GateInv
    OBVIOUS
  <2>0. GateFlags
    BY DEF GateInit, GateFlags
  <2>1. EnrolInv
    BY DEF GateInit, EnrolInv, EnrolCounts, ReferenceTyped, GapIsQuiet, SegmentsInOrder,
           SegmentsLieApart
  <2>2. EpisodeInv /\ OneVoiceAtATime
    BY DEF GateInit, EpisodeInv, GateCounts, GateIsSound, EpisodeIsAPause, PausesAreCheckedOnce,
           VerdictIsOfThisPause, NobodyIsShutOut, SoundIsOfThisBurst, OneVoiceAtATime, Enrolled,
           Heeded
  <2>3. OwnVoicePasses
    BY DEF GateConfig, GateInit, OwnVoicePasses, Verdict, ThresholdsValid
  <2> QED BY <2>0, <2>1, <2>2, <2>3 DEF GateInv
<1>2. GateInv /\ [GateNext]_gateVars => GateInv'
  <2> SUFFICES ASSUME GateInv, [GateNext]_gateVars PROVE GateInv'
    OBVIOUS
  <2>1. CASE UNCHANGED gateVars
    BY <2>1, EnrolmentStays, EpisodeStays
    DEF GateInv, GateFlags, OneVoiceAtATime, Enrolled, gateVars, enrolVars, soundVars, pauseVars,
        checkVars
  <2>2. CASE \E rms \in Levels : SpeechFrame(rms) \/ SilentFrame(rms)
    BY <2>2, SpeechFrameStep, SilentFrameStep
  <2>3. CASE \E rms, peak, noise \in Levels :
                \/ \E percent \in Adjustments :
                      \/ \E canPause \in BOOLEAN :
                            LoudFrame(rms, peak, noise, percent, canPause)
                      \/ WeakFrame(rms, peak, noise, percent)
                \/ LoudInPause(rms, peak, noise)
                \/ WeakInPause(rms, peak, noise)
    BY <2>3, LoudFrameStep, LoudInPauseStep, WeakFrameStep, WeakInPauseStep
  <2>4. CASE (\E cosine \in -One..One : Compared(cosine)) \/ NotCompared
    BY <2>4, OnSpeakerVerdictStep DEF Compared, NotCompared
  <2> QED BY <2>1, <2>2, <2>3, <2>4, SegmentAnswered, AroundStep DEF GateNext
<1> QED BY <1>1, <1>2, PTL DEF GateSpec

\* Two segments of the reference are never one utterance cut in two: between
\* them silence was observed for the length of a boundary (updateEnrollment).
THEOREM SegmentsAreApart == ASSUME GateConfig PROVE GateSpec => []SegmentsLieApart
<1>1. GateInv => SegmentsLieApart
  BY DEF GateInv, EnrolInv
<1> QED BY <1>1, GateInvHolds, PTL

\* A verdict that is still heeded was asked for in the pause it decides, once in
\* that pause, and whoever is judged somebody else is not kept out of the next
\* (maybeVerifySpeaker, onSpeakerVerdict, beginTentativePause).
THEOREM VerdictsStayInTheirPause ==
    ASSUME GateConfig
    PROVE  GateSpec => [](VerdictIsOfThisPause /\ PausesAreCheckedOnce /\ NobodyIsShutOut)
<1>1. GateInv => VerdictIsOfThisPause /\ PausesAreCheckedOnce /\ NobodyIsShutOut
  BY DEF GateInv, EpisodeInv
<1> QED BY <1>1, GateInvHolds, PTL

\* The voice of the reference passes whatever the thresholds, the reference is of
\* two segments, and what is compared is the sound of this burst.
THEOREM TheGateIsSound ==
    ASSUME GateConfig
    PROVE  GateSpec => [](GateTypeOK /\ OneVoiceAtATime /\ OwnVoicePasses /\ SoundIsOfThisBurst)
<1>1. GateInv => GateTypeOK
  BY DEF GateInv, EnrolInv, EpisodeInv, GateFlags, EnrolCounts, GateCounts, ReferenceTyped, GateTypeOK
<1>2. GateInv => OneVoiceAtATime /\ OwnVoicePasses /\ SoundIsOfThisBurst
  BY DEF GateInv, EpisodeInv
<1> QED BY <1>1, <1>2, GateInvHolds, PTL

(***************************************************************************)
(* What is made of the environment (TurnHandling).                          *)
(***************************************************************************)

\* num and numBounded give a number, within its bounds.
LEMMA NumReads ==
    ASSUME Unset \notin Int, NEW raw \in Number, NEW default \in Int
    PROVE  Num(raw, default) \in Int
BY DEF Num, Number

LEMMA BoundedReads ==
    ASSUME NEW raw, NEW low \in Int, NEW high \in Int, NEW default \in Within(low, high)
    PROVE  Bounded(raw, default, low, high) \in Within(low, high)
BY DEF Bounded, Within

\* clampTimeout, of the verdicts on answers.
LEMMA TimeoutReads ==
    ASSUME NEW env \in Environments
    PROVE  EouTimeout(env) \in Within(500, 8000)
<1> DEFINE raw == env.AIM_EOU_VERDICT_TIMEOUT_MS
<1> HIDE DEF raw
<1>1. CASE raw \notin Int \/ raw <= 0
  <2>1. EouTimeout(env) = 6000
    BY <1>1 DEF EouTimeout, ClampTimeout, raw
  <2> QED BY <2>1 DEF Within
<1>2. CASE raw \in Int /\ ~(raw <= 0)
  <2>1. EouTimeout(env) = IF raw < 500 THEN 500 ELSE IF raw > 8000 THEN 8000 ELSE raw
    BY <1>2 DEF EouTimeout, ClampTimeout, raw
  <2> QED BY <1>2, <2>1 DEF Within
<1> QED BY <1>1, <1>2

\* The sections of the configuration.
LEMMA EndpointingIsTyped ==
    ASSUME Unset \notin Int, NEW env \in Environments
    PROVE  Endpointing(env) \in EndpointingConfig
<1>1. /\ Num(env.AIM_ENDPOINT_RMS_THRESHOLD, 500) \in Int
      /\ Num(env.AIM_ENDPOINT_SILENCE_GAP_MS, 1500) \in Int
      /\ Num(env.AIM_ENDPOINT_MIN_SPEECH_MS, 300) \in Int
  <2>1. /\ env.AIM_ENDPOINT_RMS_THRESHOLD \in Number
        /\ env.AIM_ENDPOINT_SILENCE_GAP_MS \in Number
        /\ env.AIM_ENDPOINT_MIN_SPEECH_MS \in Number
    BY DEF Environments
  <2> QED BY <2>1, NumReads
<1> QED BY <1>1 DEF Endpointing, EndpointingConfig

LEMMA InterruptionIsTyped ==
    ASSUME Unset \notin Int, NEW env \in Environments
    PROVE  Interruption(env) \in InterruptionConfig
<1>1. /\ Num(env.AIM_BARGE_RMS_THRESHOLD, 1500) \in Int
      /\ Num(env.AIM_BARGE_CONFIRM_MS, 200) \in Int
      /\ Num(env.AIM_BARGE_HANGOVER_MS, 60) \in Int
      /\ Num(env.AIM_BARGE_DTD_FLOOR, 700) \in Int
  <2>1. /\ env.AIM_BARGE_RMS_THRESHOLD \in Number
        /\ env.AIM_BARGE_CONFIRM_MS \in Number
        /\ env.AIM_BARGE_HANGOVER_MS \in Number
        /\ env.AIM_BARGE_DTD_FLOOR \in Number
    BY DEF Environments
  <2> QED BY <2>1, NumReads
<1>2. /\ Num(env.AIM_BARGE_DTD_ECHO_GAIN, 30) \in Int
      /\ Num(env.AIM_BARGE_DYN_FLOOR_WINDOW_MS, 3000) \in Int
      /\ Num(env.AIM_BARGE_DYN_FLOOR_K, 150) \in Int
      /\ Num(env.AIM_FALSE_INTERRUPTION_WINDOW_MS, 2000) \in Int
  <2>1. /\ env.AIM_BARGE_DTD_ECHO_GAIN \in Number
        /\ env.AIM_BARGE_DYN_FLOOR_WINDOW_MS \in Number
        /\ env.AIM_BARGE_DYN_FLOOR_K \in Number
        /\ env.AIM_FALSE_INTERRUPTION_WINDOW_MS \in Number
    BY DEF Environments
  <2> QED BY <2>1, NumReads
<1>3. /\ Num(env.AIM_FALSE_INTERRUPTION_TAKEOVER_MS, 700) \in Int
      /\ Num(env.AIM_RECOVERY_TAKEOVER_DECAY, 50) \in Int
      /\ Num(env.AIM_FALSE_INTERRUPTION_MAX_HOLD_MS, 5000) \in Int
      /\ Num(env.AIM_BARGE_OPEN_COOLDOWN_MS, 0) \in Int
  <2>1. /\ env.AIM_FALSE_INTERRUPTION_TAKEOVER_MS \in Number
        /\ env.AIM_RECOVERY_TAKEOVER_DECAY \in Number
        /\ env.AIM_FALSE_INTERRUPTION_MAX_HOLD_MS \in Number
        /\ env.AIM_BARGE_OPEN_COOLDOWN_MS \in Number
    BY DEF Environments
  <2> QED BY <2>1, NumReads
<1>4. /\ Num(env.AIM_BARGE_OPEN_COOLDOWN_MULT, 150) \in Int
  <2>1. /\ env.AIM_BARGE_OPEN_COOLDOWN_MULT \in Number
    BY DEF Environments
  <2> QED BY <2>1, NumReads
<1>5. MinWords(env) \in Int
  <2>1. env.AIM_INTERRUPTION_MIN_WORDS \in Number
    BY DEF Environments
  <2>2. Num(env.AIM_INTERRUPTION_MIN_WORDS, 0) \in Int
    BY <2>1, NumReads
  <2> QED BY <2>2 DEF MinWords
<1>6. /\ OnUnlessZero(env.AIM_BARGE_DTD) \in BOOLEAN
      /\ OnUnlessZero(env.AIM_BARGE_DYN_FLOOR) \in BOOLEAN
      /\ KillSwitch(env.AIM_FALSE_INTERRUPTION_RECOVERY) \in BOOLEAN
  BY DEF OnUnlessZero, KillSwitch
<1> QED BY <1>1, <1>2, <1>3, <1>4, <1>5, <1>6 DEF Interruption, InterruptionConfig

\* The window is a number, and with the correction on it is not shorter than the
\* timeout, be it as it was wished for or mended.
LEMMA CorrelationReads ==
    ASSUME Unset \notin Int, NEW env \in Environments
    PROVE  /\ Correlation(env) \in Int
           /\ EouEnabled(env) => Correlation(env) >= EouTimeout(env)
<1> DEFINE wished == Num(env.AIM_EOU_CORRELATION_MS, EouTimeout(env) + Margin)
<1>1. EouTimeout(env) \in Int /\ EouTimeout(env) + Margin \in Int
  <2>1. EouTimeout(env) \in Within(500, 8000)
    BY TimeoutReads
  <2> QED BY <2>1 DEF Margin, Within
<1>2. env.AIM_EOU_CORRELATION_MS \in Number
  BY DEF Environments
<1>3. wished \in Int
  BY <1>1, <1>2, NumReads
<1>4. Correlation(env) = IF EouEnabled(env) /\ wished < EouTimeout(env)
                         THEN EouTimeout(env) + Margin ELSE wished
  BY DEF Correlation
<1> HIDE DEF wished
<1> QED BY <1>1, <1>3, <1>4 DEF Margin

LEMMA EouCorrectionIsTyped ==
    ASSUME Unset \notin Int, NEW env \in Environments
    PROVE  EouCorrection(env) \in EouCorrectionConfig
<1>1. /\ Num(env.AIM_EOU_SUB_THRESHOLD_WINDOW_MS, 2500) \in Int
  <2>1. /\ env.AIM_EOU_SUB_THRESHOLD_WINDOW_MS \in Number
    BY DEF Environments
  <2> QED BY <2>1, NumReads
<1>2. /\ Bounded(env.AIM_EOU_SUB_THRESHOLD_MULT, 60, 1, 100) \in Within(1, 100)
  BY DEF Bounded, Within
<1>3. EouEnabled(env) \in BOOLEAN
  BY DEF EouEnabled, KillSwitch
<1>4. Correlation(env) \in Int
  BY CorrelationReads
<1> QED BY <1>1, <1>2, <1>3, <1>4 DEF EouCorrection, EouCorrectionConfig

LEMMA PacingIsTyped ==
    ASSUME Unset \notin Int, NEW env \in Environments
    PROVE  Pacing(env) \in PacingConfig
<1>1. /\ Num(env.AIM_MIN_INPUT_CHARS, 2) \in Int
      /\ Num(env.AIM_PROACTIVE_OPENING_SILENCE_MS, 3000) \in Int
      /\ Num(env.AIM_AI_SPEAKING_MAX_IDLE_MS, 8000) \in Int
  <2>1. /\ env.AIM_MIN_INPUT_CHARS \in Number
        /\ env.AIM_PROACTIVE_OPENING_SILENCE_MS \in Number
        /\ env.AIM_AI_SPEAKING_MAX_IDLE_MS \in Number
    BY DEF Environments
  <2> QED BY <2>1, NumReads
<1>2. /\ Bounded(env.AIM_MAX_PLAYBACK_LEAD_MS, 35000, 0, 120000) \in Within(0, 120000)
      /\ Bounded(env.AIM_PLAYBACK_LEAD_MARGIN_MS, 1000, 0, 5000) \in Within(0, 5000)
      /\ Bounded(env.AIM_ANSWER_GRACE_MS, 4000, 0, 10000) \in Within(0, 10000)
      /\ Bounded(env.AIM_AUTO_NEXT_GRACE_MS, 800, 0, 10000) \in Within(0, 10000)
  BY DEF Bounded, Within
<1>3. OnUnlessZero(env.AIM_PROACTIVE_OPENING) \in BOOLEAN
  BY DEF OnUnlessZero
<1> QED BY <1>1, <1>2, <1>3 DEF Pacing, PacingConfig

LEMMA ProgressionIsTyped ==
    ASSUME Unset \notin Int, NEW env \in Environments
    PROVE  QuestionProgression(env) \in QuestionProgressionConfig
<1>1. /\ Num(env.AIM_QUESTION_MIN_ANSWER_CHARS, 4) \in Int
  <2>1. /\ env.AIM_QUESTION_MIN_ANSWER_CHARS \in Number
    BY DEF Environments
  <2> QED BY <2>1, NumReads
<1>2. /\ Bounded(env.AIM_QUESTION_MAX_FOLLOW_UPS, 2, 0, 5) \in Within(0, 5)
      /\ Bounded(env.AIM_QUESTION_FORCE_CLOSURE_TIMEOUT_MS, 15000, 1000, 60000) \in Within(1000, 60000)
  BY DEF Bounded, Within
<1>3. MaxRetry(env) \in Int
  <2>1. env.AIM_QUESTION_MAX_RETRY \in Number
    BY DEF Environments
  <2>2. Num(env.AIM_QUESTION_MAX_RETRY, 3) \in Int
    BY <2>1, NumReads
  <2> QED BY <2>2 DEF MaxRetry
<1> QED BY <1>1, <1>2, <1>3 DEF QuestionProgression, QuestionProgressionConfig

LEMMA InterruptionFields ==
    ASSUME NEW i \in InterruptionConfig
    PROVE  /\ i.recoveryTakeoverMs \in Int /\ i.recoveryWindowMs \in Int
           /\ i.confirmMs \in Int /\ i.recoveryTakeoverDecay \in Int
BY DEF InterruptionConfig

\* Whatever the environment holds, what the bridge starts with is of its type; a
\* pause can be decided before it runs out and before the watchdog strikes; and a
\* verdict that comes before its timeout is not too late (loadTurnHandling).
THEOREM LoadedIsSound ==
    ASSUME Unset \notin Int, NEW env \in Environments
    PROVE  /\ LoadsTyped(env)
           /\ ~Refused(env) => PausesCanBeDecided(env)
           /\ VerdictsCanBeInTime(env)
<1>1. Interruption(env) \in InterruptionConfig /\ Pacing(env) \in PacingConfig
  BY InterruptionIsTyped, PacingIsTyped
<1>2. LoadsTyped(env)
  BY <1>1, EndpointingIsTyped, EouCorrectionIsTyped, ProgressionIsTyped
    DEF LoadsTyped, LoadTurnHandling
<1>3. ~Refused(env) => PausesCanBeDecided(env)
  <2>1. /\ LoadTurnHandling(env).interruption = Interruption(env)
        /\ LoadTurnHandling(env).pacing = Pacing(env)
    BY DEF LoadTurnHandling
  <2>2. /\ Interruption(env).recoveryTakeoverMs \in Int /\ Interruption(env).recoveryWindowMs \in Int
        /\ Interruption(env).confirmMs \in Int /\ Interruption(env).recoveryTakeoverDecay \in Int
    BY <1>1, InterruptionFields
  <2>3. Pacing(env).maxIdleMs \in Int
    BY <1>1 DEF PacingConfig
  <2> QED BY <2>1, <2>2, <2>3 DEF Refused, PausesCanBeDecided, Within
<1>4. VerdictsCanBeInTime(env)
  <2>1. /\ LoadTurnHandling(env).eouCorrection.enabled = EouEnabled(env)
        /\ LoadTurnHandling(env).eouCorrection.correlationMs = Correlation(env)
    BY DEF LoadTurnHandling, EouCorrection
  <2> QED BY <2>1, CorrelationReads DEF VerdictsCanBeInTime
<1> QED BY <1>2, <1>3, <1>4

===============================================================================
