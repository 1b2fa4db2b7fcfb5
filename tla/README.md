# VivaVoce: specification and proofs

TLA+ models of the VivaVoce voice-interview system, checked with TLC on small
instances and, where marked, proved with TLAPS for every value of the constants.
The specifications are translated from the source; names follow the source.
`PROJECT.json` lists the runs, the lines each definition models, the hazards the
properties are for, and the theorems.

## 1. The system

A *session* is one voice conversation (an interview) between a browser client
and an AI agent. The control plane (`backend/`, FastAPI and Lambda on DynamoDB)
books and launches it, the realtime bridge (`bridge/`, one Node process) runs
it, a GPU service (`gpu/`) recognises and synthesises speech, and a Lambda
evaluates it when it is over.

| Component | State it keeps | Operations | Correct when |
|---|---|---|---|
| Control plane, session lifecycle: `backend/app/session_service.py`, `routers/sessions.py`, `scheduler.py`, `state_machine.py`, `db.py` | the session row, the meta row of SessionEvents | launch, join, cancel, hangup, media events, the scheduler's tick | the status follows `state_machine.py`, each session is over in the end, each completed one is scored |
| Bridge process: `bridge/src/index.ts`, `session-context.ts`, `callback.ts` | session contexts, the table of live sessions, authority to report the end; memory only | `/ready`, `/hangup`, authentication of a WebSocket, takeover, status reports | one live session per id, reachable by hangup; its end reported once and final |
| Connection ownership: `openai-realtime/connection-owner.ts` | per session: the owner, its lease, a queue of serialized operations | replace, release, revoke, cleanup | one core commands the session; a takeover is always decided |
| Ordered writer: `openai-realtime/ordered-writer.ts` | queue, frame in flight, flow state, stall timer | enqueue, pump, send callback, timer, fail | frames in order, each with one fate; memory bounded; no pause for ever |
| Realtime protocol: `adapter.ts`, `session-state.ts`, `upgrade-*.ts`, `client-secret.ts`, `protocol.ts` | conversation items, responses, input epochs, paused generation | client events, core events, upgrade | events of a response in order, nothing of a retired response |
| Media session: `media-session.ts`, `turn-handling.ts`, `speaker-lock.ts`, ports | turn, silence, violation, farewell and output-flow state | audio in and out, watchdog, end, detach | no end while the AI still speaks; one forced end; output of one response at a time |
| Playback settlement: `playback-settlement.ts` | phase and deadline of each AI turn | begin, end, ACK, barge-in, timeouts | each turn settled once, neither early nor never |
| Dialogue engine: `three-stage-engine.ts`, `gpu-client.ts`, `fallback-llm.ts`, model clients | turn generations, question cursor, GPU connection and input epoch | utterance, LLM stream, TTS, cancel, reconnect | nothing of an old turn or epoch acts on the new one |
| Candidate portal: `candidate_service.py`, `routers/candidate.py` | slots, and the session rows that hold them | book, join, reschedule, cancel | a slot is held by exactly the session that names it |
| Integration API: `integration_service.py`, `events.py`, `webhook.py` | idempotency records, webhook subscriptions, dead letters | idempotent launch, dispatch, deliver | one session per key; each event delivered or recorded |
| GPU capacity: `capacity_*.py`, `routers/admin_capacity.py` | configuration with versions, live item, lifecycle tokens | edit, reconcile, drain | no edit is lost; the count stays bounded and is not lowered at once; no instance goes with sessions on it |
| GPU speech service: `gpu/gpu_service/*.py` | ASR executor, per-connection session | ASR and TTS jobs, epochs, VAD | one job on the model at a time; results of the right epoch |
| Evaluator: `infrastructure/lambda/evaluator/handler.py`, `routers/results.py` | results and reviews | score on a stream record, review | each completed session scored, no review replaced |
| Model routing: `llm_config_service.py`, `routers/admin_llm.py`, `engine-factory.ts`, `fallback-llm.ts` | one secret; the command of each session | edit, resolve, connect, fall back | a turn never waits for a model its route cannot reach |
| Metrics: `turn-metrics.ts`, with `media-session.ts` and the engine | maps of recent turns, one row for each turn, what was sampled | report, merge, write, sample | a row never goes back or loses a figure; a figure is sampled once |
| Web client: `frontend/` (`pcm-playback-worklet.js`, `playback-*.ts`, `Exam.tsx`) | playback ring, ledger of turns, pause, acknowledgements, views | play, pause, flush, ACK | an ACK means heard; the player never stays frozen |

How they interact. The control plane calls the bridge over HTTP (`/ready` stores
the context, `/hangup` ends a session). The bridge reports `connected`,
`completed`, `peer_hangup` and `violation_end` back, each in one HTTP request that
is never repeated. A client comes to the bridge with a token and, when it comes
again, takes the session over from its old connection. The media session drives
the engine and its callbacks drive the transport; for a Realtime API connection
that is the adapter and its ordered writer, whose flow changes come back to
the media session as commands. The row of the control plane is written by API
workers, the scheduler Lambda and the bridge's reports, always as a whole, and
without a condition; the meta row starts the evaluator by its stream.

What is hard here: whole-row writes of stale copies; reports sent once, by a
process that keeps nothing over a restart; takeover while the old connection
still uploads its recording; callbacks that re-enter the code that calls them;
timers beside late answers; sequences of database calls without a transaction;
three queues in a row (engine, media gate, writer) each of which can stop; two
ends of a socket that each number epochs and turns; a pause that the server, the
page and the audio thread must leave together.

The modules and what they cover:

```
 control plane          bridge                                    client
 SessionLifecycle       TerminalAuthority   (connections, ends)
   ^ implements         ConnectionOwner     (its serialized section)
 SessionControl         Conduct             (what a turn is for)
 SlotBooking            ResponseDelivery  --> OrderedWriter -->   wire
 Integration              (engine, gate,        | implements
 LlmRoute                  adapter, writer)     v
 GpuCapacity                                 OrderedDelivery
                        PlaybackSettlement                   PlaybackQueue
                        TurnMetrics  (engine, media, store)  ExamConnection
                        SpeakerGate, TurnHandling, Transcripts
 GPU service            VoiceLoop  (engine, media, frames) EXTENDS ClientPlayback
 SpeechService          SpeechInput (client, bridge, gpu-client, GPU session)
```

## 2. What is modelled

### SessionStates, SessionLifecycle, SessionControl

`SessionLifecycle` is the abstract specification: the status moves along
`_TRANSITIONS` of `state_machine.py`, and a webhook announces a final status
once. `SessionControl` has one `act` record for each API worker and for the
scheduler's tick: the request it serves, its next step, and the *copy* of the row
it read. `Load` is the read with the status check (`Admits` is the table of those
checks), `PutRow` the unconditional whole-row put, `PutMeta` the meta row,
`Emit` the webhook, `HangupReaches`, `HangupAnswered` and `HangupUnanswered` the
call to the bridge, whose answer waits for the teardown. The bridge is its
context, one media session and the reports in flight (`mail`), which may be lost
(`reportEvent` is best effort), reordered, and late. Faults are values of the
constant `Faults`: a handler cut short at any step, a lost report, a restart of
the bridge. Requests of a session overlap as they like. The model has immediate sessions; a session of a booked slot only
differs in the instant the scheduler expires it.

### ConnectionOwner

`RealtimeConnectionOwners` for one session. `queue` is the chain of serialized
operations, `pc` the `await` the running one is suspended at; each `await` ends
the action, so socket events and revocations come between any two. `revocation`
is the memoized promise of `lease.revoke()`; a revoker may confirm late, never
(`"hang"`) or fail (`"reject"`), and the 500 ms limit (`RevokeGaveUp`) may strike
whenever the promise is pending. A tombstone is `owner` with an inactive lease.

### TerminalAuthority

What `index.ts` builds on the owner: contexts, the table `sessions`, the map
`sessionAuthorities`, and each connection's media session up to its teardown,
whose upload may outlast its successor's whole start. The serialized section of
ConnectionOwner appears as the variable `section` with the phases a takeover
goes through. Connections in `Sdk` speak the Realtime API: they authenticate in
the upgrade, may send before their session takes commands (`held`), are counted
for protocol violations (`strikes`) and for requests to end (`asked`); the others
authenticate with their first frame, under a timeout. A socket that was asked to
close is terminated in the end. The development mode without a callback secret is
left out.

### OrderedDelivery, OrderedWriter

`OrderedDelivery` is what a connection relies on: frames are delivered in
order, the connection breaks at most once, and then each frame not delivered has
failed. `OrderedWriter` is the class. Its observers (`onHandoff`, `onFlowChange`)
run inside its methods, and the adapter's answer to them is to enqueue again; so
the synchronous code is a sequence of small steps (`todo` is the stack of
what the calls in progress have still to do), an observer is a step during which
`enqueue` may be entered again, and events of the event loop need an empty `todo`.
Ages and limits count ticks of an abstract clock. `Ends` gives frames their sizes.
`MCOrderedWriter` gives the frames their sizes for TLC. Faults: `send` throws, the send callback has an error, an observer throws, the
socket falls silent, the socket closes.

### PlaybackSettlement

The coordinator of `playback-settlement.ts`: phases, deadlines, the two guards
against repetition. Its environment is the media session (begins and ends each
turn once) and a client that acknowledges anything at any time. `Driven` says
whether somebody calls `checkTimeouts` and `checkInputGrace`: in the present code
nobody does, so the run has it FALSE, and TLC finds that turns do not settle.

### SlotBooking

`AddSlot` fills the pool, `IssueLink` (re)issues a candidate's link; then `book`,
`reschedule` and `cancel`, one step per database call: the check, the
claim (the only conditional write), the session row, the meta row, the release.
A request keeps the snapshot of the row it read and writes it back whole.
`Overlap` allows a candidate to send a request while another one runs; `Faults`
are the database calls that may fail. Beside the candidates, `Reports` work on the
same rows: what the bridge reports (`Connects`, `Completes`, `FailsFromMedia`), the
scheduler's sweeps and hangups, and the cancellation by the staff (`CancelSession`).
Each reads a row (`Reads`) and puts it back whole in a later step (`ReportPuts`), over
whatever candidates have written since; none opens a slot. A read that lags behind is
one made earlier. `calm` is history: no candidate has overlapped its own requests, no
write failed that the code does not undo, and no report put back a row that its
candidate had moved or cancelled since. `"cancelled"` is the `failed` of a session that
its candidate cancelled, which is the one that gives its slot back.
Requests refused at their first checks change nothing and are left out; the edit
lock before the start of a slot is left open.

### Conduct

The media session of an interview with questions together with the turn machine
of the three-stage engine. Both run in one event loop but call each other from
inside their handlers: `settleResponse` calls `onAiDone`, which may call `nudge`,
which starts a turn, after which `settleResponse` goes on with held input, the next
question or the grace window. So handlers are functions of a pair
(`e` the engine's state, `m` the media session's), composed in the order of the
calls, and each action installs the result of one handler. `engine.turn` is the kind
of the active turn, `phase` whether its text is still generated (`llmBusy`),
`held` a final transcript that waits for the turn's end, `grace` the window of
`armAnswerGrace`; `media.waiting` stands for `waitingSinceMs > 0`, `r3` for the
phases of the nudge before a silent answer counts as finished, `guard` for
`violationNoticeGuard`, `judging` and `valid` for the outstanding judgement and
`idleModerationGen`. `seen` is history for the properties. Timers fire at any moment
while armed and a tick finds a silence long or not, except that a grace window
(4 s) is over before a silence is long: both count from the same playback. The
switches are at their defaults (enforcement and the silent advance on); the gate on
questions not yet put is on, of which off is a special case.

### ResponseDelivery

The way of a response from the engine to the socket, and of the news back. Four
objects call each other inside their handlers, so a handler is a function of the
composite `c = [e, m, a, w]` (engine, media session, adapter, writer), composed in
the order of the calls, as in Conduct. `engine.settle` is the settlement of a turn
and which of its two waits it is in (`"wire"`: its terminal event was not handed
off yet; `"playback"`); `media.queue`, `paused`, `by` the gate for response output,
`retired` the generations it refuses; `adapter.pausedGen` the response the adapter
paused the gate for, `timers` its drain timers, `close` how far the close of the
transport is. The writer is a FIFO with two marks that can fail: OrderedWriter has
its insides. `client` observes what was handed to the socket.

### SpeechService

One GPU instance: the receive loops of its connections (`conn[c].at` is the await a
loop is suspended at), the task that speaks a connection's sentences (`tts`), and the
executor with one thread they all share (`jobs`). A recognition that takes too
long is abandoned (`left`) while its thread goes on, and the thread may be in a native
call that never returns (`JobHangs`). Models are loaded and probed
by a thread of their own; draining refuses new sessions.

### Integration

The launch under an idempotency key (`idempotent`: claim, get, compute, save,
delete), the daemon thread that tells the hooks of `session.completed`, the
evaluator's invocations on stream records, and the review by an administrator that
merges into the copy it read. `Faults`: the process stops, one database call fails
(having done its work or not), a Lambda is stopped at its limit. Reviews and
evaluations overlap, and each may read an older row (`past`): neither read asks for a
consistent one. `lambda.saw` is the row an evaluation read before its put.

### SpeechInput

Speech on its way in: the conversation items of `session-state.ts`, the turn events
of the media session, gpu-client's queue, handshake, reset and reconnection, and the
epoch and turn of the GPU session, joined by an ordered socket (`up`, `down`). An
instance may refuse (busy, draining), after which the client dials again. A warning
that mutes the input and the watchdog's flush come in between. Each message one side
would refuse as out of order ends the run with the reason in `over`.

### ClientPlayback, VoiceLoop, VoiceInvariant

`ClientPlayback` is the browser's player: the worklet's ring, pre-roll, ledger of
segments (a set: the code keeps at most one for a turn, in an order nothing depends on),
tombstone (`shut`), and the pause controller and acknowledgement tracker
of the page. Audio counts in chunks. `VoiceLoop` EXTENDS it with the other side: the
engine (turns, sentences, the pause buffer), the media session (the tentative
pause, its recovery window, the voice check that answers late, retired
generations), and the frames of protocol version 1 between them. Where `recovery`
is off an interruption is final at once, on each side by itself.

### GpuCapacity

Three things that share little: the configuration row under its optimistic lock
(`form` is what an administrator saw, `put` the PUT under way, `past` what an
eventually consistent read may return), the rounds of the
reconciler with a failure between any two of its calls, and the drain of an instance
that ASG wants to terminate, whose event and polls overlap (`visit`).

### LlmRoute

The secret with the model configuration, each PUT as read and write, the command
made of it for a session (`MakeReady` up to `PutSessionContext`), the engine that
keeps it, and the attempts of a turn with its fallbacks. Models and hosts are sets
by what the guards of the code match (`MantleOnly`, `Claude`, `Recognised`,
`Direct`, `Runtime`).

### PlaybackQueue

`playback-resampler.ts` sample by sample: the queue of chunks with its read index and
phase, the count of waiting samples that every position is derived from and that the
class keeps by hand in five places, the overflow that discards the oldest samples and
taints the turns they belonged to, the ledger and the record of terminals.
A sample is its position in all that was written; `sounded` and `lost` are history. The
loops over the ledger report turn by turn (`CheckSeg`, `FlushSeg`) while `handler` keeps
every other action away. ClientPlayback counts in chunks and has the pause and the
pre-roll, which belong to the worklet around this core.

### SpeakerGate

Whose voice interrupts: `speaker-lock.ts` and the part of `media-session.ts` that feeds it,
frame by frame. Segments of clean speech are gathered while the interviewer is silent, two
that agree become the reference; while it speaks, loud frames are evidence, a pause asks for
one comparison, and the answer (`OnSpeakerVerdict`) is heeded only in the episode it was
asked for (`current`, the comparison of episode numbers). Energies, thresholds and cosines
are numbers from small sets, the windows of sound their lengths. What a pause does to engine
and client is VoiceLoop's.

### TurnHandling

What the bridge makes of its environment when it starts: `loadTurnHandling` and the
timeouts of `bypass-llm-config.ts` as functions of the variables. What cannot be read
gives way to its default, some combinations are mended (`Correlation`, `MinWords`,
`MaxRetry`), and some keep the process from starting (`Refused`).

### Transcripts

What was said, on its way to the client and to the rows the evaluator reads: `onTranscript`
and `onLlmText` of `media-session.ts`, `transcript-store.ts`, and the two calls on the side
that nobody waits for, the correction of a line (`transcript-fixer.ts`) and the verdict that
it was not finished (`eou-verdict.ts`). A line is a record of what was captured when it ended;
writes are under way until they settle, in any order; the table keeps one row a moment. A
text is whether it is blank and whether it was corrected; what a model may answer is in
`Outcomes`. The voice, the pauses and the cursor change as they like. `Date.now()` is taken
not to go back.

### ExamConnection

The page of an interview, `Exam.tsx`, around the frames of ClientPlayback: microphone
and audio context, the request to join, the socket and its retries, the timer of an end
that was asked for, and the view that may be left at any moment. An `attempt` is one run
of `startExam`, `retry` or a retry's `connect()`, suspended at an await and going on
whatever has become of the page; a socket closed on this side delivers nothing but its
close event. What the server sends first is one of ready, an error or ended.

### TurnMetrics

The figures of a turn from three places into one row. The engine reports a turn once and
again when the GPU's telemetry or `cancel_ack` comes late (`calls` is what a handler still
has to report), the media session adds the endpoint it noted for the next new turn
(`pendingEndpoint`) and what the browser measured, and the store writes each version
behind the one before and samples each new figure. A request that failed or was settled
may reach the table late, or once more (`LandsLate`). A figure is where it comes from: an
endpoint figure is the number of the speech it was taken from. The maps that keep recent
turns lose their oldest entry as in the code.

## 3. What the runs show

| Run | Instance | Shows |
|---|---|---|
| `session_overlapping` | one API worker and the tick, all faults | no stale put completes a session that never ran or reschedules one that left scheduled (`StartPrecedesCompletion`); every session is over in the end (`EventuallyOver`) |
| `owner_faults` | three connections, revokers that hang or fail | one core commands the session and belongs to the owner (`LiveCoreIsOwned`); every request is answered (`EveryRequestDecided`) |
| `authority_reconnect` | three connections, one of them of the Realtime API, two preparations | an end is final (`EndIsFinal`); a live session is the one hangup finds (`LiveIsReachable`); what ended has reported or was replaced, or its start rejected too late (`EndedSessionsReport`), and gives up its authority, and a client that insists on the end gets it (`EndsConclude`) |
| `writer_faults` | five frames of one or two bytes, all faults | memory is bounded (`ResidentBounded`); the flow signal tells the truth between events (`FlowTracksResidency`); OrderedDelivery is implemented (`ImplementsDelivery`); no frame lasts for ever (`EveryFrameSettled`) |
| `playback_undriven` | two turns, the calls the media session makes | a violation: the coordinator's comments promise that every ended turn settles (`EndedTurnsSettle`), and nothing drives its deadlines (section 5) |
| `slots_requests` | four requests of two candidates, two slots, two reports, overlap and all faults | in calm histories a slot is claimed for exactly the session that names it and was not cancelled by its candidate, when no request runs (`SlotsMatchSessions`) |
| `conduct_questions` | two questions; the second counted violation ends the session | a forced end has its timer and, once its reason is out, nothing postpones it (`ForcedEndIsFinal`); a warning is under guard exactly while it is spoken (`GuardFollowsTurn`); nothing is counted against a candidate without its evidence (`CountsHaveEvidence`) |
| `response_delivery` | two turns; a client that is slow, cancels, is talked over, leaves | the client is told of one well-formed response after the other (`WireIsWellFormed`); a shut gate is opened again (`GateFollowsWriter`); a settlement that waits for its response.done has it under way (`SettlementIsOnItsWay`); each announced response ends, or its connection does (`ResponsesEnd`) |
| `service_sessions` | two connections, one recogniser whose jobs fail, time out or hang | `cancel_ack` is a fence for speech (`CancelIsFence`); each sentence ends once (`SentencesEndOnce`); nothing is queued behind an abandoned recognition (`NoJobBehindAbandoned`); slots come back, but from an end whose speaker waits for a recogniser that hangs (`SlotsComeBack`) |
| `integration_launches` | three tries with one key, two hooks, two stream records, each fault once | one session per key (`OneSessionPerKey`); a review is replaced only by an evaluation that had read another row (`ReviewIsFinal`); a hook is told or noted (`EveryHookIsToldOrNoted`); a completed session is evaluated (`CompletedIsEvaluated`) |
| `speech_input` | three appends, two commits, a clear, a flush, a refusal | nothing reaches the GPU or the items out of order (`NothingIsStray`); committed items follow each other (`ConversationIsOrdered`); commits and clears are answered (`RequestsSettle`) |
| `voice_pauses` | two turns, two pauses, two sentences of two chunks | what is acknowledged as played was heard (`AckIsHeard`), and nothing after it (`NothingAfterReport`); the player is not left frozen (`FrozenIsPaused`); an ended turn is acknowledged by the time all is still (`EndedIsReported`); a verdict acts on its own pause only (`VerdictKeepsToItsPause`) |

Each property of a passing run is violated by at least one plausible bug in the code it is about:
`PROJECT.json` lists the bug for each under "mutants".

The type invariants (`TypeOK`, `ConductTypeOK`, `InputTypeOK`, `ClientTypeOK`) are proved
(section 4), that of VoiceLoop as a part of `LoopInv`. `DeliveryTypeOK` of ResponseDelivery
is no part of a run: TLC was made to check it once over the instance of the run.

### Bounds

- *SessionControl*: `MaxClock = 3` with `JoinExpire = MaxDuration = 1` lets a
  session expire, connect at the last moment, overrun and be reaped, with an
  instant to spare; a connection is only recorded while its forced end lies
  within the clock. `MaxConnects` is 1. One worker and the tick already overlap; the counterexample with two
  workers needs nothing more. The theorems hold for any number of workers and any
  bound.
- *ConnectionOwner*: three connections are an owner, its successor and one that
  arrives behind a tombstone; a fourth repeats the third.
- *TerminalAuthority*: three connections, as above, one of them of the Realtime API
  (two of its kind only repeat the takeover); two preparations, because the second
  one makes `ended` false again. `Violations = 2` for the code's 8 and
  `Insisting = 2` for its 3: a count below the limit and one at it. 163,163 states.
- *OrderedWriter*: five frames with `High = 2`, `Hard = 4` bytes: a frame in flight
  and queued ones beyond each mark, with frames of two bytes that jump over a mark.
  `MaxAge = 2` ticks: a frame older than half the limit and one younger.
- *PlaybackSettlement*: `MaxWait = 3`, grace 1, lead 2: the smallest values
  `loadAckTimeoutConfig` accepts in which the deadline is bounded from each side;
  `MaxClock = 4` lies beyond the deadline of a turn that ends at once.
- *SlotBooking*: two slots to move between, two requests per candidate, and two reports,
  one of which may be stale when the other lands. The constraint `WhileCalm` ends each
  history with its first state that is not calm: `SlotsMatchSessions` says nothing of
  those, and `calm` never returns. 367,330 states up to symmetry of slots and reports.
- *Conduct*: two questions are one advance; one warning before the end, two turns of
  chatter in a row, two severe judgements: each counter is crossed and reset. The
  model stops before the last question is left (`HasNext`). 0.5 million states.
- *ResponseDelivery*: two turns, so that one is replaced or comes too early; marks 1
  and 3 of the writer and `Room` for one frame at the gate: each queue is empty, in
  use and full in some state.
- *SpeechService*: two sessions that share the recogniser. Three requests are what it
  takes to have one's speech for the recogniser, another's sentence that waits for it
  and its request to end; two sentences, one queued when the other is cancelled.
  `FailClosed` is on: the branch with more awaits. That slots are never exceeded is
  proved for any number (`TypeCorrect`). 179,261 states.
- *Integration*: two requests overlap and a third comes after; two hooks, one of which
  may leave the list; two records: the stream's and one redelivered or written anew.
  314,085 states.
- *SpeechInput*: `Limit = 2` appends held back of three: the queue overflows; two
  commits are a pending one and its successor; one refusal is one redial.
- *VoiceLoop*: `Preroll = Capacity = 3` chunks of four: a turn may stay below the
  pre-roll and two turns overflow the ring; `Lag = 1` frame is under way when a pause
  or flush overtakes it; two pauses, of which a late verdict may mistake one for the
  other. 644,852 states.

### Fairness

- *SessionControl*: time passes; EventBridge runs the tick every minute, so its
  sweeps and its own steps are strongly fair (a fault may interrupt a run, not
  every run); the bridge answers a hangup now and then; a teardown that started
  ends. Nothing is assumed of API requests, reports or clients.
- *ConnectionOwner*: the event loop runs the operation at the head of the queue
  (an `await` on an elapsed limit or a settled promise returns); a closing
  handshake ends; `begin()` ends; a revoker settles unless it hangs.
- *TerminalAuthority*: teardowns and starts end, and a socket asked to close is
  terminated (`scheduleCloseFallback`). That the upload of a recording
  ends is assumed: the code sets no limit of its own on it.
- *OrderedWriter*: synchronous code runs to its end, time passes, a timer that is
  due fires; the socket is fair only when it cannot fall silent. The properties
  of `writer_faults` hold although it can: the stall timer bounds every wait.
- *PlaybackSettlement*: time passes. With `Driven = TRUE` `checkTimeouts` would be called
  too; no run has it, as no code makes the call.
- *ResponseDelivery*: the writer's events and the other event sources (the model's
  stream, the GPU's messages, timers, the closing transport) go on while they have
  something to do; `ENABLED` of each is spelled out (`WireWaits`, `RestWaits`), which
  TLC evaluates faster than the operator. Nothing is assumed of the client.
- *SpeechService*: the executor's job ends unless it hangs, and then its timer fires; the
  speaking task and a closing connection go on. Clients need not do anything.
- *Integration*: a record on the stream is tried, a Lambda and the event thread run
  unless a fault stops them, a review that has read writes.
- *SpeechInput*: an instance that is dialled answers, the socket delivers, the bridge
  handles what it received; the candidate may fall silent and the watchdog sleep.
- *Conduct*, *VoiceLoop*: none, their properties are safety properties. That a silent
  session moves on would need fairness of the recogniser and the model service.
  VoiceLoop says what must have happened once all is at rest (`EndedIsReported`).
- *SlotBooking*, *TurnMetrics*, *GpuCapacity*, *LlmRoute*: none.

No deadlock check is made: each model stops where its bound of requests,
connections, frames or turns is used up.

## 4. What is proved

For every value of the constants that satisfies the named assumptions
(`ControlAssumption`, `OwnerAssumption`, `AuthorityAssumption`, `WriterAssumption`,
`SlotAssumption`, `TimeoutConfig`, `ServiceAssumption`, `IntegrationAssumption`,
`ConductAssumption`, `InputAssumption`, `DeliveryAssumption`,
`PlayerBounds`, `LoopBounds`, `CapacityAssumption`, `RouteAssumption`, `Upsampling`,
`AbsentIsNothing`, `GateConfig`, `Limits`, `BarConfig`), each of them a condition the code's
configuration enforces or the shape of its data. `TimeoutConfig` and the last seven are
hypotheses of their theorems rather than of their modules. One proof module may serve several
components that share nothing; their specifications then have different names
(`CapacitySpec`, `RouteSpec`, `ConductSpec`, `InputSpec`, `DeliverySpec`, `LoopSpec`,
`PlayerSpec`, `MetricsSpec`, `GateSpec`, `ExamSpec`, `TranscriptSpec`).

- **SessionControlProofs**: `TypeCorrect`, `StartIsKept`
  (`Spec => []RunningHasStart`), `NoUnstartedCompletion`
  (`Spec => StartPrecedesCompletion`). `RunningHasStart` alone is not inductive,
  as a stale copy may be put back: the invariant carries the same fact for the copy
  of each request (`StepOK`), says which operation may be at which step with which
  status, and that copies are scheduled while the row is (`CopiesFollow`).
  `OverwritesAlone` and `CompletionsAreScored` have no hypothesis on what overlaps or
  fails. They say what the code keeps and what alone spoils it, which two history
  variables declared beside the model note (`NotedSpec` restricts no step). Each step is
  one of `SessionLifecycle` until a put goes over a row that has changed since it was
  read (`overwritten`; `LifecycleUntilOverwritten`): crashes, lost reports and restarts
  alone break nothing. The invariant `Calm`: the request that put the row down as over
  is the only one to announce it, and its copy is the row. And a session put down as
  completed reaches the evaluator unless the handler was cut short before the meta row
  or found none (`missed`; `CompletedIsScoredOrMissed`).
  Of SpeakerGate, for any thresholds that `ThresholdsValid` lets through and any sound:
  `VerdictsStayInTheirPause` (`VerdictIsOfThisPause`, `PausesAreCheckedOnce`,
  `NobodyIsShutOut`), `SegmentsAreApart` (`SegmentsLieApart`) and `TheGateIsSound`
  (`OneVoiceAtATime`, `OwnVoicePasses`, `SoundIsOfThisBurst`). A comparison carries the
  number of its episode, not of its pause: the invariant (`EpisodeInv`) has that an
  episode ends whenever a pause does, whichever of the ways it ends by, and `EnrolInv`
  that what was gathered is clean and of one burst.
  Of TurnHandling, for every setting of the variables: `LoadedIsSound` (`LoadsTyped`,
  `PausesCanBeDecided`, `VerdictsCanBeInTime`).
- **ConnectionProofs**, of ConnectionOwner: `TypeCorrect` and `OneCoreCommands`
  (`Spec => []LiveCoreIsOwned`). The invariant adds that a request waiting for its
  turn has an untouched lease (`WaitingIsFresh`, `AsksOnce`, `UnseenIsFresh`), that
  a cleanup is queued only for a core that stopped (`CleanupAfterStop`), what the
  running operation knows at each wait (`PcInv`), and that a live core has a revoker
  or a revocation under way (`LeaseInv`).
  Of ResponseDelivery, for any number of turns, segments and frames, any water marks
  and any room: `ConnectionIsSound` (`DeliverySpec => []DeliveryInv`), and from it
  `WireIsAlwaysWellFormed` (`WireIsWellFormed`), `ShutGatesAreRemembered`
  (`GateFollowsWriter`) and `SettlementsAreOnTheirWay` (`SettlementIsOnItsWay`). None of
  the three is inductive: what is well-formed on the wire depends on what waits at the
  gate, and that on what the engine may still start. `DeliveryInv` has two layers. What is
  true even in the middle of a handler and after the end (`Piped`, `Solid`): the
  messages queued are legal from what the client was told, the adapter knows where they
  leave it (`AgreesInv`), and a shut gate is remembered (`GateInv`). What is true while the
  session lives (`Live`): the queue at the gate holds each response once and in order
  (`QueueInv`), the flow is of the response the adapter has or will have (`FlowInv`), the
  media session counts the frames as the client does (`FeedbackInv`), an awaited
  settlement that was announced has its end on the way (`SettleInv`, which needs
  `FreshInv` and `OpenInv`). Handlers are composed, so are their lemmas: `Gated` says what
  passing the gate does to either layer, `Around` what a handler leaves alone, and an action
  cites the lemma of its outermost handler. What the three recursions do (`Told`, `Flush`,
  `Without`) is shown for a queue of any length by its least counterexample (`Smallest`).
  TLC checked `DeliveryInv` on the instance of the run first.
- **MediaSessionProofs**, of TerminalAuthority: `TypeCorrect`, `HangupReachesTheLive`
  (`Spec => []LiveIsReachable`), `EndsAreFinal` (`EndIsFinal`). The phase of the
  serialized section tells where each `begin()` is (`SectionInv`); a live session is
  the one in the table, the authority and the current lease at once, and a reported
  end takes the context away, without which no session starts. `EndsAreReported`
  (`EndedSessionsReport`): a closed session that has not reported yet holds the
  authority, has a successor, or lost both to the caller of its start, which rejected
  after it was closed (`OwedInv`; section 5).
  Of Conduct, for any number of questions and any limits: `ConductIsTyped`,
  `TheEndIsFinal` (`ForcedEndIsFinal`), `TheGuardFollows` (`GuardFollowsTurn`) and
  `CountsAreEarned` (`CountsHaveEvidence`). Handlers are functions of a pair, so each
  has a lemma on what it keeps (`SameEnd`, `SameCounts`, `SamePlace`), which the lemma of its
  caller cites; the action only installs the result. The invariant `ConductInv` holds of the
  pair between events (`AtRest`: an open forced end has its timer, drains only while
  something plays, and a guarded warning is a turn) and ties the counters to what was
  heard (`Evidence`: the watchdog's wait is for the question that is owed, a judgement
  that still counts has no later turn, the streak is the chain of turns judged).
  Of TurnMetrics, for any number of turns, segments, figures and any limits of the maps:
  `RowsNeverGoBack` (`RowsGoForward`), `FiguresAreSampledOnce` (`SampledOnce`),
  `SpeechBelongsToOneTurn` (`SpeechHasOneTurn`) and `LaterVersionsHaveAll`
  (`NothingIsLost`). The writes of a turn form a chain through `lastPut`, of which only
  the first that is not settled may be sending (`StoreInv`); the numbers of a speech are in
  one turn's entries and versions or still pending (`SpeechInv`); and what a version has
  is in the record, or in the maps until they lose it, which `dropped` and `outrun` record
  (`KeptInv`). A row goes back only by a request that was settled before and lands late.
- **RealtimeProofs**, of OrderedWriter: `TypeCorrect`, `TellsOnce`, `OrderedHandoffs`,
  `StaysBounded` and `ImplementsOrderedDelivery`. Where each frame is follows from
  three numbers: those given, those handed off, those queued. A working writer has
  handed off a prefix, holds the next frame in flight and the rest as an interval
  in its queue (`InOrder`, `WorkingInv`); a failed one holds nothing and told
  exactly what it did not hand off (`FailedInv`); the socket holds at most the
  frame in flight, or an abandoned one (`WireInv`). Byte counts are differences
  of `Ends`, so no induction over the queue is needed. `FlowSignalIsTrue`
  (`FlowTracksResidency`): while the signal is out of date, the call that brings it up
  to date is still on the stack `todo` (`FlowInv`), whatever observers enqueue below it.
  Of SpeechInput, for any bounds: `InputIsTyped`, `SpeechIsNotStray` (`NothingIsStray`) and
  `TheConversationIsOrdered` (`ConversationIsOrdered`). While the connection is open
  (`InOrderNow`), the epoch is in one of three states, told apart by where the
  acknowledgement of a clear is (`Flowing`, `Answered`, `Acked`); what is under way in each
  direction is legal from where its receiver stands to where its sender does (`Path`,
  with one lemma for each message appended or taken); and the items agree with the
  turns the media session has heard of (`Accounted`).
- **PlaybackProofs**, of PlaybackSettlement: `TypeCorrect`, `SettlesOnce`,
  `OutcomesAreFinal`, `LegalPlaybackIsKept`, `TakeoverWaits`. The invariant: a tracked
  turn is not settled, an input instant lies after the end of its turn, and the deadline
  of a legal estimate leaves the whole grace.
  Of VoiceLoop, for any number of turns, sentences and pauses, any chunks in a sentence,
  any ring and pre-roll and any delay of the frames: `LoopIsSound`
  (`LoopSpec => []LoopInv`), and from it `AcknowledgedIsHeard` (`AckIsHeard`),
  `NobodyStaysFrozen` (`FrozenIsPaused`), `EndsAreReported` (`EndedIsReported`),
  `ReportsAreFinal` (`NothingAfterReport`) and `VerdictsKeepToTheirPause`
  (`VerdictKeepsToItsPause`). The invariant has a module of its own, VoiceInvariant, and
  three parts. `PlayerFits`: the segments of the ledger lie in what was written, none
  is of a reported turn, and a player still in its pre-roll has every chunk of every
  segment. `Fits`, of the server and what it has under way: only the last turn is
  active (`TurnsFit`), the frames of a turn come in order and its end is the last
  (`WireFits`), the jobs of the speech service are in the order of the turns
  (`JobsFit`), the generation that may send is the active one (`FlowFits`), what the
  player knows of a turn agrees with what is still under way (`Follows`: the tombstone
  is up when chunks of a reported turn are), and the chunks balance (`CountsFit`: what a
  turn has made is what is kept, under way, in the ring, dropped or heard). `PauseInv`: a
  pause the player holds or will take is held by the media session too, or a frame
  that lifts it follows it (`PausesLifted`, `FreezeLifted`), and a verdict that would
  act is about the pause that holds (`VerdictFits`). None of the properties is inductive
  alone: a segment counts as played by positions in the ring, and that these are the
  turn's own chunks rests on the order of the frames, which rests on the engine. Handlers
  are functions of the server, so each has lemmas on what it does to each part; `Fits(s, k)`
  has the `k` chunks a handler took out of the pause buffer and has yet to send, because
  the balance is off by them in the middle of a resume. TLC checked `LoopInv` on the
  instance of the run and two larger ones (1.8 and 4.4 million states) first.
- **SlotBookingProofs**: `TypeCorrect`, `SlotsAreKept` (`Spec => []SlotsMatchSessions`).
  `SlotsMatchSessions` speaks of the moments when no request runs; the invariant
  (`CalmInv`) covers the others: a slot is claimed for the session that names it
  unless a cancellation has opened it already (`Opened`), and for one whose row a
  request has yet to write or has just written away (`Holds`). A request that runs
  alone for its candidate runs alone on its session (`Alone`), so a step moves no
  other session's slots. Reports run at any time: a put that is not stale
  changes a status and no slot, and a stale one ends the calm (`Reporting`).
  Of ExamConnection, for any number of retries, attempts and sockets: `OneWayToTheInterview`
  (`OneConnection`), `SoundKeepsToTheInterview` (`AudioIsInvited`, `MicIsOff`),
  `ThePageIsNeverStuck` (`NeverStuck`, `LeftInPeace`) and `TheInterviewStaysOver`
  (`OverIsOver`). The invariant `ExamInv` says that the socket is settled, so that its
  events are not heeded, whenever there is another way to the next connection or none is
  wanted (`OldIsSettled`), and that the page then shows it (`WayIsShown`); and that a
  microphone outside of an interview is left of a pipeline half built (`MicInv`).
- **GpuProofs**, of GpuCapacity: `StoredIsValid` (only what `validate_config` lets through is
  stored), `NoUpdateIsLost` (`NoLostUpdateUntilLagged`: with reads that lag, an accepted PUT
  replaces the row its admin saw until one is accepted that was numbered after an older
  row, which the history variable `lagged` notes; until then a version number names
  one configuration, `FormsInv`),
  `CountIsBounded` (`DesiredIsBounded`), `ScaleInKeepsCooldown` (`ScaleInWaits`: the
  stored candidate instant is never older than the last report that was no
  scale-in, whichever round fails where: `CandidateInv`) and `ReleasesDrainedOnly`
  (an invocation that found the instance idle after it was taken out of service
  stays right: `VisitInv`).
  Of SpeechService, for any connections, slots and sentences: `TypeCorrect`,
  `CancellationFences` (`CancelIsFence`), `EndsExactlyOnce` (`SentencesEndOnce`) and
  `RecogniserNotShared` (`NoJobBehindAbandoned`). Sentences have numbers: those the speaker
  is through with, the one in hand and those queued follow each other, and as long as
  nothing was cancelled all of the first have ended (`SpeakerInv`); slots are counted by
  who holds one (`AdmissionInv`); a job that was not abandoned has one connection that
  waits for it (`JobsInv`).
  Of PlaybackQueue, for any rates with `InRate <= OutRate` (`Upsampling`) and any limits:
  `ReportsAreHeard` (`NoDrift`, `PlayedIsSounded`, `NothingOverstated`, `NoneIsForgotten`,
  `CutOffIsSilent`), `ReportsLieApart` (`RepeatsLieApart`) and `ReadingGoesForward`
  (`NeverBackward`). The invariant: the chunks lie end to end up to what was written, every
  position below the read position sounded or was discarded, and what was discarded of a
  turn is at most what it is tainted by.
- **LaunchProofs**, of LlmRoute: `NoSilentAttempts`, `CatalogBinds`, `TurnsHaveOneVoice`. The
  invariant follows the command: what is stored is valid (`SecretInv`), a command is
  sound when it is made and unchanged on its way through callers, context and engine,
  and a turn tries only the model and the fallbacks of its engine's command
  (`TurnInv`). What `_is_anthropic` recognises is open: `NoSilentAttempt` names the models
  the guard overlooks (`Overlooked`; section 5), and nothing else gets past it.
  Of Integration: `LaunchesTypeCorrect`, `RetriesFindTheSession` (`OneSessionPerKey`) and
  `ReviewsAreKept` (`ReviewIsFinal`), for any hooks, tries and faults and
  finitely many requests. One request computes at a time, and only while the key is
  claimed; whoever was answered was answered what is saved (`KeyInv`); the sessions
  made and those that may still be made are no more than the tries (`LaunchTyped`).
  Of Transcripts, for any integers as `CorrelationMs` and `LoweredMs` (`BarConfig`):
  `TranscriptsKeepTheOrder` (`RowsAreLines`, `RowsKeepTheOrder`), `CorrectionsComeAfter`
  (`CorrectionsAreSeen`, `CallsAreCounted`), `TheBarIsLoweredInTime` (`LoweringIsTimely`) and
  `NothingIsCorrectedAfterTheEnd` (`OverIsQuiet`). The invariant: lines are numbered in the
  order of their moments, every write and row is of a line, a line that is being
  corrected was shown unless the session is over, and the end of a lowered bar is
  bounded by the line whose verdict lowered it.

Only model-checked: every liveness property and what rests on `ENABLED` (out of the
prover's reach), and the bounds in `DeliveryTypeOK` on segments and frames (`DeliveryInv`
has the types). Every safety and action property of a run is stated by a theorem.

Proved and in no run: GpuCapacity, LlmRoute, PlaybackQueue, TurnMetrics, SpeakerGate,
TurnHandling, Transcripts and ExamConnection, whose properties are all theorems, and
`RunningHasStart`, `LifecycleUntilOverwritten`, `CompletedIsScoredOrMissed`, `NoEarlyTimeout`,
`TakeoverAfterGrace`, `OutcomeIsFinal`, `ToldOnce` and `HandoffsInOrder`. TLC agrees on
small instances: GpuCapacity with `Admins = {a}`, `HardMax = 2`, `Cooldown = 1`,
`MaxVersion = 1`, `MaxDemand = 2`, `MaxClock = 3` (5.0 million states) and with two
instances and no administrator (137,917), while with two administrators, `HardMax = 1`
and `MaxVersion = 2` it saw 32 million without an error; LlmRoute with two models and no
administrator (14,112 states in China, 49,248 elsewhere) and with one model and one
administrator (759,008 and 7.5 million). PlaybackQueue with `InRate = 2`, `OutRate = 3`,
`Capacity = 3`, `LedgerMax = 2`, `FinalizedMax = 1`, two turns and four samples, and
TurnMetrics with two turns, one segment and maps of one entry, are larger than TLC was
given time for: it saw 55 and 23 million states of them without an error. SpeakerGate with
`EnrollFrames = 2`, two pauses and three segments has 13,132 states, ExamConnection with
two retries, four attempts and three sockets 37,780; Transcripts with two lines and two
moments, without verdicts, has 1.3 million, with one line, three moments and both calls 64,560.

## 5. Where the code disagrees with what it says

Violations TLC finds on instances of these modules other than those of the runs,
with the constants that show them (a finding of its own, of the run `playback_undriven`: a
turn that nobody acknowledges is never settled, as nobody calls `checkTimeouts`,
`playback-settlement.ts:223`):

- **A stale put takes a final status away.** `SessionControl`, `Spec` with
  `Workers = {w1, w2}`, `Faults = {}`, `JoinExpire = MaxDuration = 1`, `MaxClock = 3`,
  `MaxConnects = 1`: `TerminalIsFinal` fails. `state_machine.py:30` gives a final status
  no successor; `session_service.py:731` reads the row and `:743` writes it back
  unconditionally. Such a put is all that leaves the lifecycle (`OverwritesAlone`). With
  `"abort"` in `Faults`, `CompletedIsScored` fails when a worker dies between the two puts.
- **A refused takeover ends a session unreported.** `TerminalAuthority` with
  `Conns = {c1, c2}`, `Sdk = {}`, `MaxReady = 1`: `DetachedIsReplaced`
  fails. The old owner is revoked first (`connection-owner.ts:150`), and if the
  successor is then refused nobody reports, whereas `media-session.ts:3212` and
  `docs/REALTIME-WS-PROTOCOL.md:334` reason that a replaced session is not ended.
- **A session that fails keeps its slot.** `MCSlotBooking` with the constants of the run
  but `Overlap = FALSE`, `Faults = {}`, `Reports = {w1}`: `NoSlotIsWasted` fails. What the
  bridge reports, the scheduler's `no_show` and the cancellation by the staff
  (`session_service.py:728`, `scheduler.py:127`, `routers/sessions.py:356`) put the row
  down as failed and leave the slot claimed, so no candidate can book it again, although
  `release_slot` (`db.py:417`) is there to put a cancelled booking's slot back and
  `candidate_service.py:284` calls a slot that stays claimed a leak.
- **Two candidates in one slot.** With the same constants `OneCandidatePerSlot` fails:
  a report that read the row before its candidate cancelled puts the booking back, and
  the slot is another's by then; a report that read it before a move names the old
  slot again. With `Reports = {}` but `Overlap = TRUE`, `Candidates = {ann, bob, cat}` and
  five requests two overlapping cancellations of one candidate do it. `db.py:394` says only one candidate can
  claim a slot; `release_slot` (`db.py:416`) does not ask who holds it.
- **A turn may end unannounced.** `ResponseDelivery` with the constants of the run:
  `EveryTurnEnds` fails. A turn cancelled or failed while the gate is shut, before its
  `response_started` passed, waits for a response.done that is never sent;
  `speech-turn.ts:17` promises `onAiDone` "exactly once, and always"
  (`media-session.ts:1478` drops the terminal).
- **An end that never comes.** `SpeechService` with the constants of the run:
  `SlotsComeBack` without `HeldUp` fails. `end` waits until the speech queue is empty
  (`tts_queue.join()`, `server.py:1029`), the speaker waits until the recogniser is idle
  (`wait_until_idle`, `asr_execution.py:452`), neither has a limit, and a native call may
  block for ever (`asr_execution.py:34`): `bye` is never sent and the slot is lost until
  the task is replaced, although the receive loop gave up on that recognition.
- **The optimistic lock reads without consistency.** `GpuCapacity` with `Admins = {a, b}`,
  `Instances = {}`, `HardMax = 1`, `MaxVersion = 3`, `MaxDemand = MaxClock = 0`, by
  simulation to depth 40: `NoLostUpdate` fails. `db.py:585` calls the version a lock
  against concurrent administrators, but the row it is compared with comes from an
  eventually consistent read (`db.py:578`, `admin_capacity.py:69`).
- **`global.anthropic.*` is not recognised.** `LlmRoute` with `China = TRUE`, a model in
  `Claude` outside `Recognised` and a host in `Direct`: a turn tries a model that cannot
  answer it (`Overlooked`, which `NoSilentAttempt` exempts). `_is_anthropic` strips `us.`, `eu.` and
  `apac.` only; the comment at `llm_config_service.py:143` spells `global.`.
- **A review is overwritten.** `Integration` with the constants of the run: an evaluation
  that read the row before the review puts its own over it. The comment at
  `handler.py:712` says a reviewed result is not overwritten; `:713` reads the row (and
  not consistently) and `:720` puts without a condition. `ReviewIsFinal` says that only
  such an evaluation does it. `result.ready` may announce a verdict that was
  discarded, and two announcements under one event id may differ.
- **An end is not reported.** `TerminalAuthority` with the constants of the run:
  `EndedSessionsReport` without `begin[c] = "late"` fails. When `begin()` rejects after
  its session was closed, the caller's own `end()` returns at once, and it drops authority
  and context while the teardown still runs (`index.ts:719`), which then finds
  nothing to report with. `media-session.ts:3306` says a session closed in its start must
  report its end too.
- **Rows of metrics may go back.** `TurnMetrics`: `row'[t] >= row[t]` alone fails by
  `LandsLate`. `turn-metrics.ts` puts the versions of a turn one behind the other, but a put
  that failed at the client may still be carried out later, and none has a condition.

Seen while modelling. Control plane and portal:

- `_find_booking` finds the booking again after a `cancel()` that failed in
  `put_session`, contrary to the comment at `candidate_service.py:282`; the retry
  releases a slot that may be another candidate's by then.
- `get_session` and the scan of `_find_booking` are eventually consistent. A report that
  reads an old row is one that read earlier; a candidate's own next request may read a row
  older than its last one left, which `SlotBooking` does not have: requests read what is there.
- The rollback of `book()` after a failed meta write opens the slot but leaves the
  session row (`candidate_service.py:175`). `calm` excludes both.
- `reschedule()` writes back the whole row it read before the claim
  (`candidate_service.py:261`): an interview that `mark_connected` started in between
  is set back to scheduled, an edge `_TRANSITIONS` does not have.
- A client that connects to a session already over is ended by nobody but itself:
  the backstop named at `session_service.py:699` looks at live rows only.
- The moderation and evaluator model is not checked against the China guard though
  the fixer is; an empty catalogue lets any model id through; concurrent PUTs of the
  model secret overwrite each other. `default-llm-config-seed.ts` takes any read error for an
  empty configuration and overwrites the secret, API key included, though it says
  it never overwrites.
- No code calls the capacity gate (`_effective_max_concurrency`) the docs speak of; a
  transient failure of the heartbeat drops the token although the comment at
  `capacity_lifecycle.py:84` expects another event; without a cluster variable
  `_instance_busy` takes an instance for idle.

Integration and evaluator:

- The handler swallows a record's exception though `handler.py:745` says it is raised
  again; a failed re-evaluation overwrites a good score.
- A crash leaves the placeholder of a key, and its retries get 409 for 24 hours. A
  `LaunchError` after `put_session` leaves a row, and the retry makes a second.
- A dead-letter put that fails ends the dispatch loop for the hooks that follow; an
  event on the daemon thread is lost with the process; dead letters are stored under a
  key that lists them as hooks.

Bridge:

- Frames that ask for the end before `begin()` returned are lost on protocol version
  1; Realtime requests held back are dropped when the socket is asked to close;
  refusals of a turn without speech count as protocol violations.
- The comment at `media-session.ts:1012` says that no new turn of the engine starts
  while the reason of a forced end drains; `suppressNewTurns` only stops a user's
  `turn_end` (`three-stage-engine.ts:1821`). Held input, the next question after an
  advance and an elapsed grace window still start one, and it is heard after the
  reason.
- While a forced end waits to say its reason, a user's `turn_end` may replace the
  reason's turn once its text is complete; the completion of the turn that replaced
  it is then taken for the reason's (`media-session.ts:1011`, `forcedEndNoticePlaying`).
- A final transcript held during a turn is dropped when `onAiDone` takes the engine for
  the reason of a forced end first (`settleResponse` clears it before `runLlmTurn` finds it busy).
- An empty transcript after speech that cleared the silence clock leaves no clock, and
  so do a failed turn and a question asked between two ticks.
- A draining turn that is replaced never gets its terminal event: the next response
  waits at the gate until the 5 s limit ends the session, and on protocol version 1
  the answer is dropped unheard (`AckIsHeard` exempts the turns after a `Replaced` one).
- A regular end while a later response is queued fails the connection instead of
  sending session_ended; a cancellation during the settlement clears it without `onAiDone`.
- A commit sent before the GPU is ready overtakes the audio queued for it, and when
  the instance refuses, the flush is lost and the item waits for ever. Appends after
  a clear that are committed before it is acknowledged are answered "buffer empty".
  A turn rejected by the GPU with no open item closes the connection with 1011
  (`over = "unheard"`; `NothingIsStray` excludes it for turns that are committed).

- Endpoint figures may go to the wrong turn. `turn_end` notes the endpoint before the engine
  reports the turn it makes stale (`three-stage-engine.ts:1788`, `:2215`), which then takes
  the new speech's endpoint, and the new turn has none; `media-session.ts:421` speaks of one
  producer for one consumer. So does telemetry of a turn whose own endpoint was evicted by
  newer ones. No speech is ever in two rows (`SpeechBelongsToOneTurn`).
- `end()` empties the maps before `engine.stop()` has a pending `cancel_ack` time out, and
  the report of that overwrites the row with one that lacks the endpoint and the
  browser's figures (`media-session.ts:3236`; `NothingIsLost` exempts it by `dropped`).
  `cancel_ack` names no turn: a late one is credited to the newer interruption.

- The silences of one sentence add up. While a segment of the reference waits for the
  silence that ends it, a clean frame returns before it resets the counter
  (`media-session.ts:2139`), so short pauses become the "long silence" its comment asks
  for. The branch that keeps a bystander from taking over (`media-session.ts:2771`) is
  never reached: such a verdict ends the pause at once.
- `turn-handling.ts:77` asks for a `recoveryMaxHoldMs` above the window, which nothing
  checks; a comment at `:423` calls a correlation below the timeout a reason not to start,
  but it is mended.

- A correction is meant to overwrite the row of its line (`transcript-store.ts:38`), but nobody
  waits for the first write, and if that lands last the row is the uncorrected line, which the
  client no longer shows. Two lines of one millisecond, a candidate's and the
  interviewer's included, share a row (`RowsKeepTheOrder` has one row a moment).
- `resetTurn` clears the lowered bar so that an earlier turn's verdict is not carried over
  (`media-session.ts:2607`); a verdict that returns after it lowers the bar again, as
  only the question and the age of the line are compared.

GPU service and client:

- A pull marks every turn of the ledger as rendered, also one that is queued behind the
  one that sounds, contrary to the comment at `playback-resampler.ts:75`; a turn without
  samples is then reported as played. A full ledger drops its oldest turn unreported. On a
  device slower than 16 kHz `queued` drifts from the chunks (`NoDrift` fails with
  `InRate = 3`, `OutRate = 2`).
- With `AIM_PROTECT_FAIL_CLOSED` a second session is served unprotected when the first
  one's protection request is still out; `task_protection.py:3` says otherwise.
- A `turn_end` during a tentative pause leaves the client frozen until the next turn's
  audio, which the comment at `three-stage-engine.ts:1764` calls unreachable
  (`FrozenIsPaused` exempts it by `dropped`). `onBargeIn` during a pause while nothing is
  spoken does the same.
- The two sides of a pause may name different turns. Late audio of a failed turn makes the
  media session believe the interviewer speaks (`onAudioOut`); a pause then names the
  turn announced last (`media-session.ts:3040`) while `engine.pause()` keeps the audio of
  its active turn, not yet announced (`three-stage-engine.ts:594`). A `turn_end` drops
  what was kept (`three-stage-engine.ts:1764`) and the turn is acknowledged as played
  without it. The invariant showed it: the run's bounds do not reach it. What a turn has to
  say is therefore counted without what `Discarded` dropped.
- The worklet may report a turn as played of which nothing was heard, which its
  comment at line 595 rules out; a late chunk refused by the tombstone still marks
  playback as active.
- `Exam.tsx` cuts no await short: when the view is left meanwhile, the microphone is
  still turned on and the interview goes live with nothing on the screen (`leftBusy`). A
  pipeline whose capture failed counts as whole for the next attempt (`ensureAudio`), which
  then sends nothing (`halfBuilt`). The end timer of an earlier end is not cleared on a bare
  disconnect and may end the next "ending" early.

## 6. Not modelled, and what is left

- *Media session and engine*: the farewell and the closing turn, the kickoff.
- *Realtime protocol*: client secrets, session.update, the order of items that
  responses add (`previousItemId`), the codec.
- *Integration*: client keys, delegation, the MCP server.
- *Bridge process*: the HTTP surface, the drain on SIGTERM, the development mode; a
  crash inside TerminalAuthority (nothing survives it, and SessionControl has its effect).
- *GPU*: the embedding endpoint's semaphore, what ECS makes of protection requests,
  the capacity gate and the dashboard.
- *Web client*: the views other than `Exam.tsx`.

Left out for good: the models and their adapters, prompts, wording and scores
(data); routes that check one request against one record or only read;
infrastructure, one-shot scripts, examples and vendored code.
