---------------------------- MODULE SessionControl ----------------------------
(***************************************************************************)
(* The life of one session in the control plane (backend/app), between the *)
(* requests that change it and the realtime bridge that runs it.           *)
(*                                                                         *)
(* Every handler reads the session row, judges the copy it read, may call  *)
(* the bridge, and writes the WHOLE copy back with an unconditional put,   *)
(* then the status of the meta row, then the webhook.  Each of these is a  *)
(* step of its own here, so that handlers interleave as they do in the     *)
(* deployment.  Rows of different sessions never meet, hence one session.  *)
(***************************************************************************)
EXTENDS SessionStates, Integers

CONSTANTS
    Workers,      \* API workers, each serving one request at a time
    Faults,       \* the faults that may happen, a subset of FaultKinds
    JoinExpire,   \* session_join_expire_min
    MaxDuration,  \* engine.max_duration_s
    MaxClock,     \* bound: the last instant modelled
    MaxConnects   \* bound: client connections

FaultKinds == {"abort", "lost", "restart"}

ASSUME ControlAssumption ==
    /\ "tick" \notin Workers
    /\ Faults \subseteq FaultKinds
    /\ JoinExpire \in Nat
    /\ MaxDuration \in Nat
    /\ MaxClock \in Nat
    /\ MaxClock >= MaxDuration
    /\ MaxConnects \in Nat

VARIABLES
    row,        \* the session item: status, start instant, what ended it
    meta,       \* status of the SessionEvents meta row, None before it exists
    act,        \* per actor: the request in progress and the copy it read
    ctx,        \* the bridge's stored session context, or NoContext
    media,      \* the bridge's media session and the event its end reports
    mail,       \* status reports of the bridge on their way, per event
    token,      \* whether a client holds a join token
    clock,
    connects,   \* client connections so far
    triggered,  \* whether the evaluator saw a completed meta row
    hooks       \* terminal webhooks emitted, by kind

vars == <<row, meta, act, ctx, media, mail, token, clock, connects,
          triggered, hooks>>

-------------------------------------------------------------------------------

None == "none"
Never == -1                         \* an instant that has not come
Tick == "tick"                      \* the scheduler Lambda, one run at a time
Actors == Workers \cup {Tick}

EndEvents == {"completed", "peer_hangup", "violation_end"}
Events == {"connected"} \cup EndEvents
Requests == {"cancel", "hangup", "join"}
Sweeps == {"expire", "reap"}
Ops == Events \cup Requests \cup Sweeps \cup {"launch", "unrecoverable"}

Instants == 0..MaxClock
\* A session connects early enough for its forced end to lie in the bound.
Horizon == MaxClock - MaxDuration

Row == [status : Status, started : Instants \cup {Never},
        cause : Ops \cup {None}]
NewRow == [status |-> Scheduled, started |-> Never, cause |-> None]

NoContext == [stored |-> Never, deadline |-> Never]

\* The bridge keeps a context as long as the control plane waits for a client.
CtxTtl == JoinExpire

\* Mutant of Admits: complete_from_media without its assert_transition.
AdmitsAnyCompletion ==
    [connected |-> {Scheduled}, completed |-> Active, peer_hangup |-> Active,
     violation_end |-> Active, cancel |-> {Scheduled}, hangup |-> {InProgress},
     join |-> Active, expire |-> {Scheduled}, reap |-> {InProgress}]

\* The statuses of the copy read that let a handler go on; on any other it
\* returns early or answers 409.
Admits == [connected |-> {Scheduled},
           completed |-> {InProgress},
           peer_hangup |-> Active,
           violation_end |-> Active,
           cancel |-> {Scheduled},
           hangup |-> {InProgress},
           join |-> Active,
           expire |-> {Scheduled},
           reap |-> {InProgress}]

\* The status a handler writes.
Writes == [connected |-> InProgress,
           completed |-> Completed,
           hangup |-> Completed,
           reap |-> Completed,
           peer_hangup |-> Failed,
           violation_end |-> Failed,
           cancel |-> Failed,
           expire |-> Failed,
           unrecoverable |-> Failed]

Hangups == {"hangup", "reap"}       \* the bridge is told first
Completers == {"completed"} \cup Hangups
Steps == {"idle", "ready", "post", "posted", "put", "meta", "emit"}

Idle == [pc |-> "idle", op |-> None, copy |-> NewRow]

FirstStep(op) ==
    CASE op \in Hangups -> "post"
      [] op = "join" -> "ready"
      [] OTHER -> "put"

\* The item as the handler writes it back: its copy, updated.
Updated(op, copy) ==
    IF op = "connected"
    THEN [copy EXCEPT !.status = InProgress,
                      !.started = IF copy.started = Never THEN clock
                                  ELSE copy.started]
    ELSE [copy EXCEPT !.status = Writes[op], !.cause = op]

\* connect_deadline_for_session, of the copy a join or launch read.
ConnectDeadline(copy) ==
    IF copy.status = InProgress THEN copy.started + MaxDuration
    ELSE JoinExpire

Free(a) == act[a].pc = "idle"

Goto(a, step) == act' = [act EXCEPT ![a].pc = step]
Done(a) == act' = [act EXCEPT ![a] = Idle]

-------------------------------------------------------------------------------

Init ==
    /\ row = NewRow
    /\ meta = None
    \* POST /sessions has put the row and goes on with SessionService.launch
    /\ \E w \in Workers :
          act = [a \in Actors |-> IF a = w THEN [Idle EXCEPT !.pc = "meta",
                                                             !.op = "launch"]
                                  ELSE Idle]
    /\ ctx = NoContext
    /\ media = [state |-> "idle", event |-> None]
    /\ mail = [e \in Events |-> 0]
    /\ token = FALSE
    /\ clock = 0
    /\ connects = 0
    /\ triggered = FALSE
    /\ hooks = [completed |-> 0, failed |-> 0]

\* A handler reads the row and judges it; a copy it does not admit ends it.
Load(a, op) ==
    /\ Free(a)
    /\ act' = IF row.status \in Admits[op]
              THEN [act EXCEPT ![a] = [pc |-> FirstStep(op), op |-> op,
                                       copy |-> row]]
              ELSE act
    /\ UNCHANGED <<row, meta, ctx, media, token, clock, connects, triggered,
                   hooks>>

\* media_event: a report of the bridge arrives.
Receive(w, e) ==
    /\ mail[e] > 0
    /\ e = "connected" => clock <= Horizon
    /\ mail' = [mail EXCEPT ![e] = @ - 1]
    /\ Load(w, e)

\* A user cancels, an admin hangs up, a client asks for a join token.
Request(w, r) ==
    /\ r \in Requests
    /\ Load(w, r)
    /\ UNCHANGED mail

\* The scheduler lists the rows: a scheduled one may have expired.
SweepExpired ==
    /\ row.status = Scheduled
    /\ clock >= JoinExpire
    /\ Load(Tick, "expire")
    /\ UNCHANGED mail

\* Mutant of SweepOverdue: only sessions the bridge still runs are ended.
SweepOverdueLive ==
    /\ row.status = InProgress
    /\ media.state = "live"
    /\ clock >= row.started + MaxDuration
    /\ Load(Tick, "reap")
    /\ UNCHANGED mail

\* The scheduler lists the rows: one in progress may have run too long.
SweepOverdue ==
    /\ row.status = InProgress
    /\ row.started # Never
    /\ clock >= row.started + MaxDuration
    /\ Load(Tick, "reap")
    /\ UNCHANGED mail

\* POST .../ready: the context is stored, and a join answers with a token.
Ready(a) ==
    /\ act[a].pc = "ready"
    /\ ctx' = [stored |-> clock, deadline |-> ConnectDeadline(act[a].copy)]
    /\ token' = (token \/ act[a].op = "join")
    /\ Done(a)
    /\ UNCHANGED <<row, meta, media, mail, clock, connects, triggered, hooks>>

\* The context cannot be pushed: best effort, a join answers all the same.
ReadyFails(a) ==
    /\ act[a].pc = "ready"
    /\ token' = (token \/ act[a].op = "join")
    /\ Done(a)
    /\ UNCHANGED <<row, meta, ctx, media, mail, clock, connects, triggered,
                   hooks>>

\* POST .../hangup reaches the bridge: a live session starts its teardown and
\* the answer waits for it; otherwise the bridge answers 200 at once.
HangupReaches(a) ==
    /\ act[a].pc = "post"
    /\ IF media.state = "live"
       THEN /\ media' = [state |-> "ending", event |-> "completed"]
            /\ Goto(a, "posted")
       ELSE /\ UNCHANGED media
            /\ Goto(a, "put")
    /\ UNCHANGED <<row, meta, ctx, mail, token, clock, connects, triggered,
                   hooks>>

\* The teardown is over and the hangup is answered.
HangupAnswered(a) ==
    /\ act[a].pc = "posted"
    /\ media.state # "ending"
    /\ Goto(a, "put")
    /\ UNCHANGED <<row, meta, ctx, media, mail, token, clock, connects,
                   triggered, hooks>>

\* No answer in 5 s: 502 to the admin, and the scheduler tries again later.
HangupUnanswered(a) ==
    /\ act[a].pc \in {"post", "posted"}
    /\ Done(a)
    /\ UNCHANGED <<row, meta, ctx, media, mail, token, clock, connects,
                   triggered, hooks>>

\* put_session: the whole copy, unconditionally.  cancel_session stops here.
PutRow(a) ==
    /\ act[a].pc = "put"
    /\ row' = Updated(act[a].op, act[a].copy)
    /\ IF act[a].op = "cancel" THEN Done(a)
       ELSE act' = [act EXCEPT ![a].pc = "meta", ![a].copy = row']
    /\ UNCHANGED <<meta, ctx, media, mail, token, clock, connects, triggered,
                   hooks>>

\* put_session_meta creates the row; set_session_meta_status leaves a missing
\* one missing.  A completed meta row reaches the evaluator by its stream.
PutMeta(a) ==
    /\ act[a].pc = "meta"
    /\ IF act[a].op = "launch"
       THEN /\ meta' = act[a].copy.status
            /\ Goto(a, "ready")
       ELSE /\ meta' = IF meta = None THEN None ELSE act[a].copy.status
            /\ IF act[a].op = "connected" THEN Done(a) ELSE Goto(a, "emit")
    /\ triggered' = (triggered \/ meta' = Completed)
    /\ UNCHANGED <<row, ctx, media, mail, token, clock, connects, hooks>>

\* The terminal webhook, named for the status written.
Emit(a) ==
    /\ act[a].pc = "emit"
    /\ hooks' = [hooks EXCEPT ![act[a].copy.status] = @ + 1]
    /\ Done(a)
    /\ UNCHANGED <<row, meta, ctx, media, mail, token, clock, connects,
                   triggered>>

-------------------------------------------------------------------------------

\* A client passes the auth frame and its core takes the session over: a live
\* one is detached without a report, one being torn down loses its authority
\* to report.
ClientConnects ==
    /\ token
    /\ connects < MaxConnects
    /\ ctx # NoContext
    /\ clock <= ctx.deadline
    /\ clock - ctx.stored <= CtxTtl
    /\ connects' = connects + 1
    /\ media' = [state |-> "live", event |-> None]
    /\ mail' = [mail EXCEPT !["connected"] = @ + 1]
    /\ UNCHANGED <<row, meta, act, ctx, token, clock, triggered, hooks>>

\* The interview ends, the peer disconnects, or a violation ends it.
MediaEnds(e) ==
    /\ media.state = "live"
    /\ e \in EndEvents
    /\ media' = [state |-> "ending", event |-> e]
    /\ UNCHANGED <<row, meta, act, ctx, mail, token, clock, connects,
                   triggered, hooks>>

\* onEnded, after the teardown: the context goes and the end is reported.
MediaReports ==
    /\ media.state = "ending"
    /\ media' = [state |-> "idle", event |-> None]
    /\ ctx' = NoContext
    /\ mail' = [mail EXCEPT ![media.event] = @ + 1]
    /\ UNCHANGED <<row, meta, act, token, clock, connects, triggered, hooks>>

-------------------------------------------------------------------------------

\* A worker dies or its store call raises: the rest of the handler is lost.
WorkerAborts(w) ==
    /\ "abort" \in Faults
    /\ act[w].pc # "idle"
    /\ Done(w)
    /\ UNCHANGED <<row, meta, ctx, media, mail, token, clock, connects,
                   triggered, hooks>>

\* The scheduler's store call raises: a forced end is skipped, an expiry is
\* retried once as unrecoverable, and then given up until the next tick.
TickRaises ==
    /\ "abort" \in Faults
    /\ act[Tick].pc \in {"put", "meta"}
    /\ IF act[Tick].op = "expire"
       THEN act' = [act EXCEPT ![Tick].pc = "put",
                               ![Tick].op = "unrecoverable"]
       ELSE Done(Tick)
    /\ UNCHANGED <<row, meta, ctx, media, mail, token, clock, connects,
                   triggered, hooks>>

\* reportEvent is sent once: a failed request is not retried.
ReportLost(e) ==
    /\ "lost" \in Faults
    /\ mail[e] > 0
    /\ mail' = [mail EXCEPT ![e] = @ - 1]
    /\ UNCHANGED <<row, meta, act, ctx, media, token, clock, connects,
                   triggered, hooks>>

\* The bridge process restarts: its sessions, contexts and unsent reports go,
\* and the hangups waiting for it get no answer.
BridgeRestarts ==
    /\ "restart" \in Faults
    /\ ctx # NoContext \/ media.state # "idle"
    /\ ctx' = NoContext
    /\ media' = [state |-> "idle", event |-> None]
    /\ mail' = [e \in Events |-> 0]
    /\ act' = [a \in Actors |-> IF act[a].pc = "posted" THEN Idle ELSE act[a]]
    /\ UNCHANGED <<row, meta, token, clock, connects, triggered, hooks>>

\* Time passes; a report of a connection is put down before the horizon.
Advance ==
    /\ clock < MaxClock
    /\ clock = Horizon =>
          \A a \in Actors : act[a].op = "connected" => act[a].pc # "put"
    /\ clock' = clock + 1
    /\ UNCHANGED <<row, meta, act, ctx, media, mail, token, connects,
                   triggered, hooks>>

-------------------------------------------------------------------------------

Serve(a) ==
    \/ Ready(a)
    \/ ReadyFails(a)
    \/ HangupReaches(a)
    \/ HangupAnswered(a)
    \/ HangupUnanswered(a)
    \/ PutRow(a)
    \/ PutMeta(a)
    \/ Emit(a)

Arrive(w) ==
    \/ \E e \in Events : Receive(w, e)
    \/ \E r \in Requests : Request(w, r)

Bridge ==
    \/ ClientConnects
    \/ \E e \in EndEvents : MediaEnds(e)
    \/ MediaReports

Fault ==
    \/ \E w \in Workers : WorkerAborts(w)
    \/ TickRaises
    \/ \E e \in Events : ReportLost(e)
    \/ BridgeRestarts

Next ==
    \/ \E a \in Actors : Serve(a)
    \/ \E w \in Workers : Arrive(w)
    \/ SweepExpired
    \/ SweepOverdue
    \/ Bridge
    \/ Fault
    \/ Advance

Spec == Init /\ [][Next]_vars

\* EventBridge runs the scheduler every minute, whatever the API does, and the
\* bridge answers a hangup now and then; a started teardown ends.
Fairness ==
    /\ WF_vars(Advance)
    /\ WF_vars(MediaReports)
    /\ SF_vars(SweepExpired)
    /\ SF_vars(SweepOverdue)
    /\ SF_vars(HangupReaches(Tick))
    /\ SF_vars(HangupAnswered(Tick))
    /\ SF_vars(PutRow(Tick))
    /\ SF_vars(PutMeta(Tick))
    /\ WF_vars(Emit(Tick))

FairSpec == Spec /\ Fairness

-------------------------------------------------------------------------------

Request0 == [pc : Steps, op : Ops \cup {None}, copy : Row]

\* Every variable keeps its type.
TypeOK ==
    /\ row \in Row
    /\ meta \in Status \cup {None}
    /\ act \in [Actors -> Request0]
    /\ ctx \in [stored : Instants, deadline : Nat] \cup {NoContext}
    /\ media \in [state : {"idle", "live", "ending"},
                  event : EndEvents \cup {None}]
    /\ mail \in [Events -> Nat]
    /\ token \in BOOLEAN
    /\ clock \in Instants
    /\ connects \in Nat
    /\ triggered \in BOOLEAN
    /\ hooks \in [{"completed", "failed"} -> Nat]

\* Whatever requests overlap and whatever is lost, a session in progress or
\* completed has a start instant, the one the forced end is counted from
\* (_enforce_max_duration skips a row without one): no stale put loses it.
RunningHasStart ==
    row.status \in {InProgress, Completed} => row.started # Never

\* Even with stale puts a session is never completed without having been in
\* progress, and never goes back to scheduled once it left.
StartPrecedesCompletion ==
    [][/\ row'.status # Scheduled
       /\ row.status = Scheduled => row'.status # Completed]_row

\* The rows, the webhooks and the evaluation as the lifecycle of
\* state_machine.py: each step is one of it, unless a put was stale.
Lifecycle == INSTANCE SessionLifecycle
                WITH status <- row.status, scored <- triggered

\* The handler has put the session down as completed and has yet to write its
\* meta row.
Scoring(a) == act[a].pc = "meta" /\ act[a].op \in Completers

\* A completed session was handed to the evaluator, or the handler that
\* completed it is about to do it.
CompletedIsScored ==
    row.status = Completed => triggered \/ \E a \in Actors : Scoring(a)

\* The scheduler is the backstop of every race and every loss: in the end the
\* session is over for good.
EventuallyOver == <>[](row.status \in Terminal)

\* state_machine.py's _TRANSITIONS give a terminal status no successor, and
\* fail_from_media promises that a late report changes nothing.
TerminalIsFinal ==
    [][row.status \in Terminal => row'.status = row.status]_row

===============================================================================
