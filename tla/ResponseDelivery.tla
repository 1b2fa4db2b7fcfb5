-------------------------- MODULE ResponseDelivery --------------------------
(***************************************************************************)
(* How a spoken response reaches a client of the Realtime API, and how the *)
(* dialogue learns that it did.  Four objects of one connection:           *)
(*                                                                         *)
(*   engine   bridge/src/three-stage-engine.ts: the turn, its segments and *)
(*            the settlement that waits until response.done was handed off *)
(*   media    bridge/src/media-session.ts: the gate that holds a           *)
(*            response's output back while the writer is full, and lets    *)
(*            one response at a time through                               *)
(*   adapter  bridge/src/openai-realtime/adapter.ts, session-state.ts: the *)
(*            protocol state of the responses, timers, the end             *)
(*   writer   openai-realtime/ordered-writer.ts: the FIFO to the socket    *)
(*            (module OrderedWriter has its insides)                       *)
(*                                                                         *)
(* They call each other in the middle of their handlers, downwards with    *)
(* output and upwards with handoffs and flow changes.  As in Conduct, a    *)
(* handler is a function of the composite c = [e, m, a, w] and an action   *)
(* installs the result.  Two calls are moved to the end of the event that  *)
(* makes them, because they would call back into the running handler: the  *)
(* failure of the connection (m.fail), and "resume" of a writer whose      *)
(* handoff callback enqueued.                                              *)
(*                                                                         *)
(* A message stands for the events that are sent together: "text" for the  *)
(* item and a transcript delta, "done" for what closes the item and        *)
(* response.done.  Bytes are counted in messages; samples, transcripts and *)
(* truncation are left out, and so is what a closed session's engine still *)
(* says to itself.                                                         *)
(***************************************************************************)
EXTENDS Naturals, Sequences, Functions

CONSTANTS
    MaxTurns,    \* bound: turns of the engine
    MaxSegments, \* bound: segments of a turn
    MaxAudio,    \* bound: audio frames of a segment
    Low, High,   \* water marks of the writer, in messages
    Room,        \* MAX_PENDING_BYTES of the gate, in audio frames
    Notes        \* bound: other output finds at most so many messages queued

ASSUME DeliveryAssumption ==
    /\ {MaxTurns, MaxSegments, MaxAudio, High, Room} \subseteq Nat \ {0}
    /\ Low \in Nat /\ Low < High /\ Notes \in Nat

VARIABLES
    engine, media, adapter, writer,
    client    \* observer: what the messages handed to the socket tell the client

deliveryVars == <<engine, media, adapter, writer, client>>

Turns == 1..MaxTurns
NoTurn == 0            \* no turn
Settled == [g |-> NoTurn, ok |-> FALSE, phase |-> "none"]

EngineInit ==
    [turn |-> NoTurn, next |-> 1, stream |-> FALSE, direct |-> FALSE, said |-> 0, left |-> 0,
     heard |-> FALSE, held |-> FALSE, interrupted |-> FALSE, fired |-> {}, settle |-> Settled,
     gpu |-> <<>>, voiced |-> 0]
MediaInit ==
    [closed |-> FALSE, tearing |-> FALSE, speaking |-> FALSE, active |-> NoTurn, flow |-> NoTurn,
     paused |-> FALSE, by |-> NoTurn, queue |-> <<>>, retired |-> 0, fail |-> NoTurn,
     ending |-> FALSE, feedback |-> [g \in Turns |-> [st |-> "none", next |-> 0]]]
AdapterInit ==
    [active |-> NoTurn, cancelled |-> FALSE, opened |-> FALSE, produced |-> 0,
     pausedGen |-> NoTurn, timers |-> {}, close |-> "open", soon |-> FALSE, fatal |-> FALSE,
     tripped |-> FALSE]
DeliveryInit ==
    /\ engine = EngineInit /\ media = MediaInit /\ adapter = AdapterInit
    /\ writer = [q |-> <<>>, paused |-> FALSE, failed |-> FALSE]
    /\ client = [open |-> NoTurn, last |-> 0, next |-> 0]

Now == [e |-> engine, m |-> media, a |-> adapter, w |-> writer]
Become(c) ==
    engine' = c.e /\ media' = c.m /\ adapter' = c.a /\ writer' = c.w

Message(t, g, k) == [t |-> t, g |-> g, k |-> k]   \* of the writer
Output(t, g, ok) == [t |-> t, g |-> g, ok |-> ok] \* of the media session

-----------------------------------------------------------------------------
(* Downwards: writer and adapter                                           *)

(* set_output_flow with paused = true.                                     *)
PauseFlow(c, g) ==
    IF c.a.fatal \/ c.m.closed \/ g # c.m.flow THEN c
    ELSE [c EXCEPT !.m.paused = TRUE, !.m.by = g]

(* pauseOutputGeneration *)
PauseGeneration(c, g) ==
    IF c.a.pausedGen = g THEN c ELSE PauseFlow([c EXCEPT !.a.pausedGen = g], g)

(* The part of updateFlow that pauses, with the adapter's observer.        *)
CheckHigh(c) ==
    IF c.w.paused \/ Len(c.w.q) < High THEN c
    ELSE IF c.a.active = NoTurn THEN [c EXCEPT !.w.paused = TRUE]
    ELSE PauseGeneration([c EXCEPT !.w.paused = TRUE], c.a.active)

RequestClose(c) ==
    IF c.a.close \in {"requested", "closed"} THEN c
    ELSE [c EXCEPT !.a.close = "requested", !.a.timers = {}]

(* enqueueServerEvent and the writer's enqueue; on a failed writer the     *)
(* delivery's onFailure runs instead.                                      *)
Enqueue(c, msg) ==
    IF c.a.close \in {"requested", "closed"} THEN c
    ELSE IF ~c.w.failed THEN CheckHigh([c EXCEPT !.w.q = Append(@, msg)])
    ELSE IF msg.t = "ended" THEN RequestClose(c)
    ELSE IF msg.t = "done" THEN [c EXCEPT !.a.timers = @ \ {msg.g}]
    ELSE c

(* handleDispatchFailure: an error event, and the close after this event.  *)
ReportInternal(c) == [Enqueue(c, Message("error", 0, 0)) EXCEPT !.a.soon = TRUE]

(* A response that starts while the writer is full is held back at once.   *)
CheckStarted(c, g) ==
    IF c.w.paused /\ c.a.pausedGen = NoTurn THEN PauseGeneration(c, g) ELSE c

ResponseStarted(c, g) ==
    IF c.a.active # NoTurn
    THEN [ReportInternal(c) EXCEPT !.a.tripped = TRUE]
    ELSE CheckStarted(Enqueue([c EXCEPT !.a.active = g, !.a.cancelled = FALSE,
                                        !.a.opened = FALSE, !.a.produced = 0],
                              Message("created", g, 0)),
                      g)

(* matchActiveResponse *)
Matches(c, g) == c.a.active = g /\ ~c.a.cancelled

SegmentDeclared(c, g) ==
    IF ~Matches(c, g) THEN c
    ELSE Enqueue([c EXCEPT !.a.opened = TRUE], Message("text", g, 0))

ResponseAudio(c, g) ==
    IF ~Matches(c, g) \/ ~c.a.opened THEN c
    ELSE Enqueue([c EXCEPT !.a.produced = @ + 1], Message("audio", g, c.a.produced))

\* Mutant of ResponseTerminal: a cancelled response is not matched either.
TerminalUnlessCancelled(c, g) ==
    IF ~Matches(c, g) THEN c
    ELSE [Enqueue([c EXCEPT !.a.timers = @ \cup {g}], Message("done", g, 0))
              EXCEPT !.a.active = NoTurn]
(* dispatchResponseTerminal with handleResponseCoreTerminal                *)
ResponseTerminal(c, g) ==
    IF c.a.active # g THEN c
    ELSE [Enqueue([c EXCEPT !.a.timers = @ \cup {g}], Message("done", g, 0))
              EXCEPT !.a.active = NoTurn, !.a.cancelled = FALSE,
                     !.a.opened = FALSE, !.a.produced = 0]

(* emit *)
Emit(c, out) ==
    IF c.a.close \in {"requested", "closed"} THEN c
    ELSE CASE out.t = "started"   -> ResponseStarted(c, out.g)
           [] out.t = "declared"  -> SegmentDeclared(c, out.g)
           [] out.t = "audio"     -> ResponseAudio(c, out.g)
           [] out.t = "completed" -> c
           [] out.t = "terminal"  -> ResponseTerminal(c, out.g)
           [] out.t = "note"      -> Enqueue(c, Message("note", 0, 0))

(* close: the terminal event of the connection, whose handoff closes it.   *)
CloseTransport(c) ==
    IF c.a.close # "open" THEN c
    ELSE Enqueue(Enqueue([c EXCEPT !.a.close = "terminal"], Message("note", 0, 0)),
                 Message("ended", 0, 0))

-----------------------------------------------------------------------------
(* The gate of the media session                                           *)

Retired(c, g) == g <= c.m.retired
Retire(c, g) == [c EXCEPT !.m.retired = IF g > @ THEN g ELSE @]

(* failPendingResponseOutput; the failure runs at the end of the event.    *)
FailPending(c, g) ==
    [Retire(c, g) EXCEPT
        !.m.queue = <<>>, !.m.paused = FALSE, !.m.by = NoTurn, !.m.flow = NoTurn,
        !.m.fail = IF c.a.close \in {"requested", "closed"} THEN @ ELSE g]

(* deliverResponseOutput, but for the flush that follows a terminal.       *)
FreeFlow(c, g) ==
    [Retire(c, g) EXCEPT !.m.active = IF @ = g THEN NoTurn ELSE @, !.m.flow = NoTurn]
Deliver(c, out) ==
    IF out.t = "terminal" THEN FreeFlow(Emit(c, out), out.g) ELSE Emit(c, out)

(* One round of flushPendingResponseOutput's loop.                         *)
FlushHead(c) ==
    IF c.m.queue = <<>> \/ c.m.paused THEN c
    ELSE LET out  == Head(c.m.queue)
             rest == [c EXCEPT !.m.queue = Tail(@)]
         IN IF Retired(c, out.g) THEN rest
            ELSE IF c.m.flow = NoTurn /\ out.t # "started" THEN FailPending(c, out.g)
            ELSE IF c.m.flow \notin {NoTurn, out.g} THEN c
            ELSE Deliver([rest EXCEPT !.m.flow = out.g], out)

(* A round that stops leaves its input as it is, and so do the next ones.  *)
Flush(c) ==
    LET Rounds[n \in 0..Len(c.m.queue)] ==
            IF n = 0 THEN c ELSE FlushHead(Rounds[n - 1])
    IN Rounds[Len(c.m.queue)]

Frames(outputs) == Len(SelectSeq(outputs, LAMBDA out : out.t = "audio"))

(* queueResponseOutput: of audio there is room for a bounded amount.       *)
QueueOutput(c, out) ==
    IF out.t = "audio" /\ Frames(c.m.queue) = Room
    THEN FailPending(c, out.g)
    ELSE [c EXCEPT !.m.queue = Append(@, out)]

Destructive(out) == out.t = "terminal" /\ ~out.ok

(* dropPendingResponseGeneration and retireResponseGeneration              *)
Without(outputs, g) ==
    LET Kept[n \in 0..Len(outputs)] ==
            IF n = 0 THEN <<>>
            ELSE IF outputs[n].g = g THEN Kept[n - 1]
            ELSE Append(Kept[n - 1], outputs[n])
    IN Kept[Len(outputs)]
Drop(c, g) == Retire([c EXCEPT !.m.queue = Without(@, g)], g)

(* deliverResponseOutput *)
Pass(c, out) ==
    IF out.t = "terminal" THEN Flush(Deliver(c, out)) ELSE Emit(c, out)

(* emitResponseOutput: only a destructive end passes a closed gate.        *)
Gate(c, out) ==
    IF Retired(c, out.g) THEN c
    ELSE IF c.m.flow = NoTurn /\ out.t # "started" THEN FailPending(c, out.g)
    ELSE LET d == [c EXCEPT !.m.flow = IF @ = NoTurn THEN out.g ELSE @]
         IN IF out.g # d.m.flow \/ (d.m.paused /\ ~Destructive(out))
            THEN QueueOutput(d, out)
            ELSE Pass(IF Destructive(out) THEN Drop(d, out.g) ELSE d, out)

(* set_output_flow with paused = false, from handleOutputFlowChange.       *)
\* Mutant of ResumeFlow: the adapter forgets whom it paused.
ResumeFlowOfActive(c) ==
    LET g == c.a.active
        d == [c EXCEPT !.a.pausedGen = NoTurn]
    IN IF g = NoTurn \/ c.a.fatal \/ c.m.closed \/ g # c.m.by THEN d
       ELSE Flush([d EXCEPT !.m.paused = FALSE, !.m.by = NoTurn])
ResumeFlow(c) ==
    LET g == c.a.pausedGen
        d == [c EXCEPT !.a.pausedGen = NoTurn]
    IN IF g = NoTurn \/ c.a.fatal \/ c.m.closed \/ g # c.m.by THEN d
       ELSE Flush([d EXCEPT !.m.paused = FALSE, !.m.by = NoTurn])

(* The part of updateFlow that resumes.                                    *)
CheckLow(c) ==
    IF c.w.paused /\ Len(c.w.q) <= Low
    THEN ResumeFlow([c EXCEPT !.w.paused = FALSE])
    ELSE c

Note(c) == IF c.m.closed THEN c ELSE Emit(c, Output("note", 0, FALSE))

-----------------------------------------------------------------------------
(* The engine and the media session's observers of it                      *)

Busy(c) ==
    \/ c.e.settle.phase = "wire"
    \/ c.e.turn # NoTurn /\ (c.e.stream \/ (c.e.direct /\ c.e.turn \notin c.e.fired))

CurrentSegment(c) == c.e.said - c.e.left + 1
IsCurrent(c, item) ==
    c.e.turn = item.g /\ c.e.left > 0 /\ item.k = CurrentSegment(c)

(* activeTurn = null                                                       *)
Idle(c) == [c EXCEPT !.e.turn = NoTurn, !.e.stream = FALSE, !.e.direct = FALSE,
                     !.e.said = 0, !.e.left = 0, !.e.heard = FALSE]

(* dispatchTtsText and onResponseSegmentDeclared                           *)
Dispatch(c) ==
    LET g == c.e.turn
        d == IF c.m.closed THEN c ELSE Gate(c, Output("declared", g, FALSE))
    IN [d EXCEPT !.e.said = @ + 1, !.e.left = @ + 1,
                 !.e.gpu = Append(@, [g |-> g, k |-> c.e.said + 1, cut |-> FALSE])]

(* onResponseStarted of the media session                                  *)
StartResponse(c, g) ==
    IF c.m.closed \/ Retired(c, g) THEN c
    ELSE Gate([c EXCEPT !.m.active = g,
                        !.m.feedback[g] = [st |-> "live", next |-> 0]],
              Output("started", g, FALSE))

(* runLlmTurn up to the stream, and startDirectCurrentQuestion.  A turn    *)
(* whose text is complete but still being spoken is replaced.              *)
NewTurn(c, kind) ==
    [c EXCEPT !.e.turn = c.e.next, !.e.next = @ + 1, !.e.stream = kind # "direct",
              !.e.direct = kind = "direct", !.e.said = 0, !.e.left = 0,
              !.e.heard = FALSE, !.e.held = @ /\ kind # "user"]
StartTurn(c, kind) ==
    IF c.e.next > MaxTurns THEN c
    ELSE CASE kind = "user"   -> StartResponse(NewTurn(Note(c), kind), c.e.next)
           [] kind = "system" -> StartResponse(NewTurn(c, kind), c.e.next)
           [] kind = "direct" ->
                 Dispatch(StartResponse(NewTurn(c, kind), c.e.next))

(* fireAiDone: the settlement waits for the wire.                          *)
Fire(c, g, ok) ==
    LET d == [c EXCEPT !.e.fired = @ \cup {g},
                       !.e.settle = [g |-> g, ok |-> ok, phase |-> "wire"]]
    IN IF c.m.closed /\ ~c.m.tearing THEN d
       ELSE Gate(d, Output("terminal", g, ok))

(* maybeFireAiDone *)
MaybeFire(c) ==
    IF c.e.turn \in c.e.fired \/ c.e.left > 0 \/ c.e.stream THEN c
    ELSE Fire(c, c.e.turn, TRUE)

(* settleResponse: held input goes before the question that follows.       *)
SettleResponse(c, auto) ==
    LET s == c.e.settle
        d == [(IF c.e.turn = s.g THEN Idle(c) ELSE c)
                  EXCEPT !.e.settle = Settled, !.m.speaking = FALSE]
    IN IF d.e.interrupted \/ ~(d.e.held \/ (auto /\ s.ok)) THEN d
       ELSE StartTurn(d, IF d.e.held THEN "user" ELSE "direct")

(* noteResponseWireDrained: a completed response settles when the client   *)
(* should have played it, which may be now.                                *)
WireDrained(c, g, later, auto) ==
    IF c.e.settle.phase # "wire" \/ c.e.settle.g # g THEN c
    ELSE LET d == [(IF c.e.turn = g THEN Idle(c) ELSE c)
                       EXCEPT !.m.speaking = FALSE]
         IN IF c.e.settle.ok /\ later
            THEN [d EXCEPT !.e.settle.phase = "playback"]
            ELSE SettleResponse(d, auto)

(* abandonPlaybackSettlementForUserSpeech *)
Abandon(c) ==
    IF c.e.settle.phase # "playback" THEN c
    ELSE [c EXCEPT !.e.settle = Settled, !.m.speaking = FALSE]

(* cancel: the turn's end is fired unless it was; the GPU is asked to drop *)
(* all it has.                                                             *)
CancelTurn(c) ==
    LET g == c.e.turn
        d == [Idle(c) EXCEPT !.e.interrupted = TRUE, !.e.settle = Settled,
                             !.e.gpu = [i \in DOMAIN @ |-> [@[i] EXCEPT !.cut = TRUE]]]
    IN IF g = NoTurn \/ g \in c.e.fired THEN d ELSE Fire(d, g, FALSE)

-----------------------------------------------------------------------------
(* The end of the session                                                  *)

(* teardown: the engine's turn is ended, then what is at the gate.  A      *)
(* takeover closes the connection at once, a normal end after the upload.  *)
EndAtGate(c, wire) ==
    IF wire = NoTurn \/ Retired(c, wire) THEN c
    ELSE Gate(c, Output("terminal", wire, FALSE))
Ended(c) == [c EXCEPT !.m.tearing = FALSE, !.m.ending = TRUE]
Teardown(c, takeover) ==
    IF c.m.closed THEN c
    ELSE LET d == Ended(EndAtGate(CancelTurn([c EXCEPT !.m.closed = TRUE,
                                                       !.m.tearing = TRUE,
                                                       !.m.queue = <<>>]),
                                  c.m.flow))
         IN IF takeover THEN CloseTransport(d) ELSE d

(* failInternal: the core is told and ends, then the client.               *)
Fatal(c, g) ==
    [c EXCEPT !.a.fatal = TRUE, !.a.timers = {},
              !.m.feedback = [h \in Turns |-> IF h = g /\ ~c.m.closed
                                              THEN [@[h] EXCEPT !.st = "failed"]
                                              ELSE @[h]]]
FailInternal(c, g) ==
    IF c.a.fatal \/ c.a.close = "closed" THEN [c EXCEPT !.m.fail = NoTurn]
    ELSE ReportInternal([Teardown(Fatal(c, g), FALSE) EXCEPT !.m.fail = NoTurn])

(* The end of every event: a failure that came up in it.                   *)
Done(c) == IF c.m.fail = NoTurn THEN c ELSE FailInternal(c, c.m.fail)

Completes(c) ==
    /\ \E d \in {c} : \E f \in {Done(d)} : Become(f)
    /\ UNCHANGED client

-----------------------------------------------------------------------------
(* What happens to the engine                                              *)

\* A turn of the system's own: a nudge or the opening, or the question itself.
SystemTurn ==
    /\ ~media.closed /\ engine.next <= MaxTurns
    /\ engine.turn = NoTurn /\ engine.settle.phase = "none"
    /\ \E kind \in {"system", "direct"} :
          /\ kind = "direct" => ~engine.interrupted /\ ~engine.held
          /\ Completes(StartTurn(Now, kind))

\* asr_partial: the candidate starts to speak.
UserSpeaks ==
    /\ ~media.closed /\ engine.settle.phase = "playback"
    /\ Completes(Abandon(Now))

\* asr_final and turn_end: input of a busy engine is held, other input starts a turn.
UserTurnEnds ==
    /\ ~media.closed /\ engine.next <= MaxTurns
    /\ LET c == [Abandon(Now) EXCEPT !.e.interrupted = FALSE]
       IN Completes(IF Busy(c) THEN [c EXCEPT !.e.held = TRUE] ELSE StartTurn(c, "user"))

Declare ==
    /\ engine.turn # NoTurn /\ engine.stream /\ engine.said < MaxSegments
    /\ Completes(Dispatch(Now))

StreamEnds ==
    /\ engine.turn # NoTurn /\ engine.stream
    /\ Completes(MaybeFire([Now EXCEPT !.e.stream = FALSE]))

StreamFails ==
    /\ engine.turn # NoTurn /\ engine.stream
    /\ Completes(Fire([Now EXCEPT !.e.stream = FALSE, !.e.left = 0], engine.turn, FALSE))

\* onTtsTimeout: a turn of which the GPU said nothing.
TtsTimeout ==
    /\ engine.turn # NoTurn /\ engine.turn \notin engine.fired
    /\ engine.said > 0 /\ ~engine.heard
    /\ Completes(Fire(Idle(Now), engine.turn, FALSE))

\* gpu.onAudio and onAudioOut; what is not of the response at the gate's end is dropped.
GpuAudio ==
    /\ engine.gpu # <<>> /\ engine.voiced < MaxAudio
    /\ LET item == Head(engine.gpu)
           c == [Now EXCEPT !.e.voiced = @ + 1,
                            !.e.heard = @ \/ (~engine.interrupted /\ IsCurrent(Now, item))]
       IN Completes(IF engine.interrupted \/ item.g # media.active \/ Retired(c, item.g)
                 THEN c
                 ELSE Gate([c EXCEPT !.m.speaking = TRUE],
                           Output("audio", item.g, FALSE)))

\* tts_done
GpuDone ==
    /\ engine.gpu # <<>>
    /\ LET item == Head(engine.gpu)
           c == [Now EXCEPT !.e.gpu = Tail(@), !.e.voiced = 0]
           d == [c EXCEPT !.e.left = @ - 1, !.e.heard = TRUE]
       IN Completes(IF ~IsCurrent(Now, item) THEN c
                 ELSE MaybeFire(IF media.closed THEN d
                                ELSE Gate(d, Output("completed", item.g, FALSE))))

\* The GPU service drops what was cancelled, without a tts_done: the first n
\* segments, as a cancellation takes all there are.
GpuDrops ==
    \E n \in DOMAIN engine.gpu :
        /\ \A i \in DOMAIN engine.gpu : engine.gpu[i].cut <=> i <= n
        /\ Completes([Now EXCEPT !.e.gpu = SubSeq(@, n + 1, Len(@)),
                                 !.e.voiced = 0])

\* The timer of the estimated end of playback.
PlaybackEnds ==
    /\ engine.settle.phase = "playback"
    /\ \E auto \in BOOLEAN : Completes(SettleResponse(Now, auto))

\* detectBargeIn while the AI speaks.
BargeIn ==
    /\ ~media.closed /\ media.speaking
    /\ Completes(CancelTurn(Note([Now EXCEPT !.m.speaking = FALSE])))

-----------------------------------------------------------------------------
(* What happens to the connection                                          *)

\* Mutant of ClientCancels: a cancelled response is ended at once.
ClientCancelsAtOnce ==
    /\ adapter.close \in {"open", "terminal"}
    /\ adapter.active # NoTurn /\ ~adapter.cancelled
    /\ LET c == Enqueue([Now EXCEPT !.a.cancelled = TRUE],
                        Message("done", adapter.active, 0))
       IN Completes(IF adapter.fatal \/ media.closed \/ adapter.active # media.active
                 THEN c
                 ELSE CancelTurn(Note([c EXCEPT !.m.speaking = FALSE])))
\* response.cancel, and a truncation of the active response: cancel_response.
ClientCancels ==
    /\ adapter.close \in {"open", "terminal"}
    /\ adapter.active # NoTurn /\ ~adapter.cancelled
    /\ LET c == [Now EXCEPT !.a.cancelled = TRUE]
       IN Completes(IF adapter.fatal \/ media.closed \/ adapter.active # media.active
                 THEN c
                 ELSE CancelTurn(Note([c EXCEPT !.m.speaking = FALSE])))

\* Output that belongs to no response.
OtherOutput ==
    /\ ~media.closed /\ ~writer.failed /\ Len(writer.q) < Notes
    /\ adapter.close = "open"
    /\ Completes(Note(Now))

(* note_output_handoff: the media session counts the frames, too.          *)
CountFrame(c, msg) ==
    LET fb == c.m.feedback[msg.g]
    IN IF c.a.fatal \/ c.m.closed \/ fb.st # "live" THEN c
       ELSE IF msg.k # fb.next
       THEN [c EXCEPT !.m.fail = msg.g, !.a.tripped = TRUE]
       ELSE [c EXCEPT !.m.feedback[msg.g].next = @ + 1]

(* note_response_wire_drained *)
NoteDrained(c, g, later, auto) ==
    IF c.a.fatal \/ c.m.closed \/ c.m.feedback[g].st # "live" THEN c
    ELSE WireDrained([c EXCEPT !.m.feedback[g].st = "drained"], g, later, auto)

\* The observer's account of a message.
After(seen, msg) ==
    CASE msg.t = "created" -> [open |-> msg.g, last |-> msg.g, next |-> 0]
      [] msg.t = "audio"   -> [seen EXCEPT !.next = @ + 1]
      [] msg.t = "done"    -> [seen EXCEPT !.open = NoTurn, !.next = 0]
      [] OTHER             -> seen

(* onHandoff of a message.                                                 *)
OnHandoff(c, msg, later, auto) ==
    CASE msg.t = "audio" -> CountFrame(c, msg)
      [] msg.t = "done"  -> NoteDrained([c EXCEPT !.a.timers = @ \ {msg.g}],
                                        msg.g, later, auto)
      [] msg.t = "ended" -> RequestClose(c)
      [] OTHER           -> c

\* The send callback of the message that is with the socket.
Handoff ==
    /\ writer.q # <<>> /\ adapter.close # "closed"
    /\ \E later, auto \in BOOLEAN :
          LET msg == Head(writer.q)
              c == OnHandoff([Now EXCEPT !.w.q = Tail(@)], msg, later, auto)
          IN /\ \E d \in {Done(CheckLow(c))} : Become(d)
             /\ client' = After(client, msg)

(* The writer fails: a send error, a frame too old.  Each delivery is told *)
(* first, then the adapter.                                                *)
Queued(t) == {msg.g : msg \in {x \in Range(writer.q) : x.t = t}}
LostWriter ==
    [Now EXCEPT !.w.failed = TRUE, !.w.q = <<>>, !.a.timers = @ \ Queued("done")]
LoseWriter ==
    LET told == IF Queued("done") # {}
                THEN FailInternal(LostWriter, CHOOSE g \in Queued("done") : TRUE)
                ELSE IF Queued("ended") = {} /\ adapter.close # "requested"
                THEN FailInternal(LostWriter, adapter.active)
                ELSE LostWriter
    IN IF Queued("ended") = {} THEN told ELSE RequestClose(told)

WriterFails ==
    /\ writer.q # <<>> /\ ~writer.failed
    /\ Completes(LoseWriter)

\* A response's drain timer: response.done is not handed off in time.
DrainTimeout ==
    \E g \in adapter.timers :
        Completes(FailInternal([Now EXCEPT !.a.timers = @ \ {g}], g))

\* Mutant of QueueTimeout: a response that waited too long behind another is dropped.
QueueTimeoutDrops ==
    /\ media.queue # <<>>
    /\ LET g == Head(media.queue).g
       IN Completes(IF g = media.flow THEN FailPending(Now, g) ELSE Drop(Now, g))
\* The timer of the gate's queue: its head waited for MAX_QUEUE_AGE_MS.
QueueTimeout ==
    /\ media.queue # <<>>
    /\ Completes(FailPending(Now, Head(media.queue).g))

\* end() by the session, and detach() for a successor's connection.
SessionEnds == ~media.closed /\ Completes(Teardown(Now, FALSE))
Takeover == ~media.closed /\ Completes(Teardown(Now, TRUE))

\* The recording is uploaded, the engine stopped and its GPU connection ended;
\* then the connection is closed, unless it is.
UploadDone ==
    /\ media.ending
    /\ LET c == [CancelTurn(Now) EXCEPT !.m.ending = FALSE, !.e.gpu = <<>>, !.e.voiced = 0]
       IN Completes(CloseTransport(c))

\* scheduleTerminalDeliveryTimeout
TerminalTimeout ==
    /\ adapter.close = "terminal"
    /\ Completes(RequestClose(Now))

\* setImmediate of handleProtocolError
CloseSoon ==
    /\ adapter.soon
    /\ Completes(RequestClose([Now EXCEPT !.a.soon = FALSE]))

\* handleSocketClose: asked for, or the client is gone.  The session ends with it.
CloseSocket(c) ==
    Teardown([c EXCEPT !.a.close = "closed", !.a.timers = {},
                       !.w.failed = TRUE, !.w.q = <<>>], FALSE)
SocketClosed ==
    /\ adapter.close = "requested"
    /\ Completes(CloseSocket(Now))
ClientLeaves ==
    /\ adapter.close \in {"open", "terminal"}
    /\ Completes(CloseSocket(Now))

-----------------------------------------------------------------------------
DeliveryNext ==
    \/ SystemTurn \/ UserSpeaks \/ UserTurnEnds \/ Declare \/ StreamEnds
    \/ StreamFails \/ TtsTimeout \/ GpuAudio \/ GpuDone \/ GpuDrops
    \/ PlaybackEnds \/ BargeIn
    \/ ClientCancels \/ OtherOutput \/ Handoff \/ WriterFails \/ DrainTimeout
    \/ QueueTimeout \/ SessionEnds \/ Takeover \/ UploadDone
    \/ TerminalTimeout \/ CloseSoon \/ SocketClosed \/ ClientLeaves

(* The wire: the writer hands its oldest message off, or fails.            *)
Wire == Handoff \/ WriterFails
WireWaits == writer.q # <<>>

(* The rest of what cannot be put off for ever: a stream ends (the LLM has *)
(* its timeouts), the GPU finishes a segment or drops it, timers fire, and *)
(* an end runs to its end.  Nothing makes the candidate speak, the client  *)
(* cancel or leave.                                                        *)
Rest ==
    \/ StreamEnds \/ StreamFails \/ GpuDone \/ GpuDrops \/ PlaybackEnds
    \/ DrainTimeout \/ QueueTimeout \/ UploadDone \/ TerminalTimeout
    \/ CloseSoon \/ SocketClosed
RestWaits ==
    \/ engine.stream \/ engine.gpu # <<>> \/ engine.settle.phase = "playback"
    \/ media.queue # <<>> \/ media.ending \/ adapter.timers # {}
    \/ adapter.soon \/ adapter.close \in {"terminal", "requested"}

(* Weak fairness of Wire and of Rest, with ENABLED spelled out: each is    *)
(* enabled exactly when it waits, and its steps always change something.   *)
DeliveryFairness ==
    /\ []<>~WireWaits \/ []<><<Wire>>_deliveryVars
    /\ []<>~RestWaits \/ []<><<Rest>>_deliveryVars

DeliverySpec == DeliveryInit /\ [][DeliveryNext]_deliveryVars /\ DeliveryFairness

-----------------------------------------------------------------------------
(* Properties                                                              *)

Outputs == {"started", "declared", "audio", "completed", "terminal"}
Messages == {"created", "text", "audio", "done", "note", "error", "ended"}

\* The gate lets at most one response through, and what it knows of responses
\* is of responses the engine has started.
DeliveryTypeOK ==
    /\ engine.turn \in Turns \cup {NoTurn} /\ engine.turn < engine.next
    /\ engine.left \in 0..engine.said /\ engine.said \in 0..MaxSegments
    /\ engine.settle.phase \in {"none", "wire", "playback"}
    /\ engine.settle.phase # "none" => engine.settle.g \in engine.fired
    /\ \A item \in Range(engine.gpu) : item.g < engine.next
    /\ {media.active, media.flow, media.by, media.retired} \subseteq 0..engine.next - 1
    /\ \A out \in Range(media.queue) : out.t \in Outputs /\ out.g < engine.next
    /\ Frames(media.queue) <= Room
    /\ media.fail = NoTurn /\ ~media.tearing
    /\ adapter.close \in {"open", "terminal", "requested", "closed"}
    /\ {adapter.active, adapter.pausedGen} \subseteq 0..engine.next - 1
    /\ adapter.timers \subseteq Turns
    /\ \A msg \in Range(writer.q) : msg.t \in Messages
    /\ client.open \in {NoTurn, client.last}

\* What the client has been told after each of the messages.
Told(seen, messages) ==
    LET Seen[n \in 0..Len(messages)] ==
            IF n = 0 THEN seen ELSE After(Seen[n - 1], messages[n])
    IN Seen

Legal(seen, msg) ==
    CASE msg.t = "created" -> seen.open = NoTurn /\ msg.g > seen.last
      [] msg.t = "text"    -> seen.open = msg.g
      [] msg.t = "audio"   -> seen.open = msg.g /\ msg.k = seen.next
      [] msg.t = "done"    -> seen.open = msg.g
      [] OTHER             -> TRUE

\* What is sent tells the client of one response after the other: each is
\* created once, has its text and all its audio before its one end, and
\* nothing of it after, whatever arrives late from the GPU, is held back at
\* the gate or is overtaken by a cancellation; and the adapter's two checks of
\* itself never fail ("cannot start a concurrent realtime response",
\* "out-of-order realtime output handoff").
WireIsWellFormed ==
    /\ \A i \in DOMAIN writer.q : Legal(Told(client, writer.q)[i - 1], writer.q[i])
    /\ ~adapter.tripped

\* A gate that is shut will be opened: the writer is above its low-water mark
\* and the adapter remembers for which response it paused the gate.
GateFollowsWriter ==
    (media.paused /\ ~media.closed /\ ~adapter.fatal /\ adapter.close = "open")
        => writer.paused /\ adapter.pausedGen = media.by

\* The response was announced to the client, or is about to be.
Announced(g) ==
    \/ g <= client.last \/ Message("created", g, 0) \in Range(writer.q)
    \/ Output("started", g, FALSE) \in Range(media.queue)

\* A settlement that waits for the wire has its response.done on the way: at the
\* gate, or with the writer under a drain timer.
EndIsOnItsWay ==
    \/ \E out \in Range(media.queue) : out.t = "terminal" /\ out.g = engine.settle.g
    \/ /\ Message("done", engine.settle.g, 0) \in Range(writer.q)
       /\ engine.settle.g \in adapter.timers
SettlementIsOnItsWay ==
    (engine.settle.phase = "wire" /\ Announced(engine.settle.g)
        /\ ~media.closed /\ ~adapter.fatal /\ adapter.close = "open")
        => EndIsOnItsWay

\* Each response the client was told of is ended, or its connection is.
ResponsesEnd ==
    \A g \in Turns : client.open = g ~> client.open # g \/ adapter.close = "closed"

\* speech-turn.ts says of onAiDone that it is called "exactly once, and always":
\* here, that a turn whose end waits for the wire has its response.done on the way,
\* announced or not.
EveryTurnEnds ==
    (engine.settle.phase = "wire" /\ ~media.closed /\ ~adapter.fatal
        /\ adapter.close = "open")
        => EndIsOnItsWay

=============================================================================
