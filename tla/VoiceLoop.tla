------------------------------- MODULE VoiceLoop -------------------------------
(***************************************************************************)
(* A spoken exchange over the direct connection of a candidate, end to end:*)
(* the dialogue engine (bridge/src/three-stage-engine.ts) and the media    *)
(* session (media-session.ts) on one side, the player of ClientPlayback on *)
(* the other, and between them the frames of protocol version 1            *)
(* (media-session-v1-adapter.ts) in order.                                 *)
(*                                                                         *)
(* An interruption is tentative first.  Loud input while the interviewer   *)
(* speaks pauses the engine and the player; more of it, or the voice of    *)
(* the candidate, makes it a takeover; silence, or the voice of somebody   *)
(* else, resumes both where they stopped.  Where recovery is off, each     *)
(* side interrupts at once.                                                *)
(*                                                                         *)
(* Energy, speech recognition and the language model choose freely.  Left  *)
(* to other modules: what a turn says (Conduct), the deadlines of the      *)
(* acknowledgements (PlaybackSettlement), output that waits for the socket *)
(* (ResponseDelivery), the order of the recogniser's messages              *)
(* (SpeechInput).                                                          *)
(***************************************************************************)
EXTENDS ClientPlayback

CONSTANTS
    MaxSentences,  \* bound: sentences of all turns
    Chunks,        \* chunks of audio in a sentence
    MaxPauses,     \* bound: tentative pauses
    Lag            \* bound: frames under way when a chunk is sent

ASSUME LoopBounds == {MaxSentences, Chunks, MaxPauses, Lag} \subseteq Nat \ {0}

VARIABLES
    recovery,      \* whether an interruption is tentative first
    engine,        \* the dialogue engine and the jobs of its speech service
    media,         \* the media session, its voice check with it
    dropped,       \* observer: turns of which a pause ended without a word
    down,          \* frames on their way to the client
    cuts           \* barge_in frames of the client on their way

loopVars == <<clientVars, recovery, engine, media, dropped, down, cuts>>

-------------------------------------------------------------------------------

FreshTurn == [returned |-> FALSE, failed |-> FALSE,
              begun |-> FALSE, done |-> "no", made |-> 0]

\* No turn has been spoken, and none is paused.
Quiet ==
    [turns |-> <<>>, active |-> Nil, text |-> FALSE, interrupted |-> FALSE,
     paused |-> Nil, kept |-> 0, deferred |-> "no", said |-> 0, jobs |-> <<>>]
Listening ==
    [speaking |-> FALSE, audioTurn |-> Nil, pauses |-> 0, pausing |-> FALSE,
     paused |-> Nil, checked |-> FALSE, checking |-> FALSE, asked |-> Nil,
     flow |-> Nil, retired |-> {}, pending |-> <<>>]
LoopInit ==
    /\ ClientInit
    /\ recovery \in BOOLEAN
    /\ engine = Quiet /\ media = Listening
    /\ dropped = {}
    /\ down = <<>>
    /\ cuts = 0

\* The state of the server: a handler and what it calls pass it on.
Server == [e |-> engine, m |-> media, o |-> dropped, d |-> down]

Becomes(s) ==
    /\ engine' = s.e
    /\ media' = s.m
    /\ dropped' = s.o
    /\ down' = s.d

Frame(kind, t, p) == [kind |-> kind, turn |-> t, pause |-> p]
Send(s, frame) == [s EXCEPT !.d = Append(@, frame)]

-------------------------------------------------------------------------------
(* The output of a response, in the order of generations.                  *)

\* The pending output is thrown away and its generation retired.
FailPending(s, t) ==
    [s EXCEPT !.m.pending = <<>>, !.m.flow = Nil,
              !.m.retired = @ \cup {t}]

\* To the client: audio becomes binary frames, nothing else has a frame.
Deliver(s, kind, t, n) ==
    CASE kind = "audio" ->
            [s EXCEPT !.d = @ \o [i \in 1..n |-> Frame("audio", t, Nil)]]
      [] kind = "terminal" ->
            [s EXCEPT !.m.flow = Nil, !.m.retired = @ \cup {t}]
      [] OTHER -> s

\* emitResponseOutput, of n events of a kind: the output of a response that
\* is not the current one waits for the terminal of that one.
Emit(s, kind, t, n) ==
    IF t \in s.m.retired THEN s
    ELSE IF s.m.flow = Nil /\ kind # "started" THEN FailPending(s, t)
    ELSE IF s.m.flow \notin {Nil, t}
         THEN [s EXCEPT !.m.pending =
                   @ \o [i \in 1..n |-> [kind |-> kind, turn |-> t]]]
    ELSE Deliver([s EXCEPT !.m.flow = t], kind, t, n)

\* Audio of the engine: the interviewer speaks.
AudioOut(s, t, n) ==
    Emit([s EXCEPT !.m.speaking = @ \/ n > 0], "audio", t, n)

Announced(s, t) ==
    IF s.e.turns[t].begun THEN s
    ELSE Send([s EXCEPT !.e.turns[t].begun = TRUE, !.m.audioTurn = t],
              Frame("start", t, Nil))

\* sendTurnAudio: the turn is announced just before its first chunk.
SendTurnAudio(s, t, n) ==
    IF n = 0 THEN s ELSE AudioOut(Announced(s, t), t, n)

-------------------------------------------------------------------------------
(* Turns.                                                                  *)

\* A turn of the user makes the client drop what it still plays.
Superseded(s, user) ==
    IF user THEN Send(s, Frame("superseded", Nil, Nil)) ELSE s

\* runLlmTurn, to where the language model is asked: a turn replaces the
\* active one.  Within the bound on turns.
NewTurn(s, user) ==
    IF Len(s.e.turns) = MaxTurns THEN s
    ELSE Emit(Superseded([s EXCEPT !.e.turns = Append(@, FreshTurn),
                                   !.e.active = Len(s.e.turns) + 1], user),
              "started", Len(s.e.turns) + 1, 1)

\* settleResponse: the interviewer stops speaking; words of the user that
\* waited are answered, unless the turn was cut off.
SettleResponse(s, t) ==
    IF s.e.text /\ ~s.e.interrupted
    THEN NewTurn([s EXCEPT !.e.active = IF @ = t THEN Nil ELSE @,
                           !.m.speaking = FALSE, !.e.text = FALSE], TRUE)
    ELSE [s EXCEPT !.e.active = IF @ = t THEN Nil ELSE @,
                   !.m.speaking = FALSE]

AudioEnded(s, t, completed) ==
    IF completed /\ s.e.turns[t].begun
    THEN Send(s, Frame("end", t, Nil)) ELSE s

\* fireAiDone: once for each turn; the end of a paused turn is held back.
FireAiDone(s, t, completed) ==
    IF s.e.turns[t].done # "no" THEN s
    ELSE IF s.e.paused = t
    THEN [s EXCEPT !.e.deferred = IF completed THEN "full" ELSE "partial"]
    ELSE SettleResponse(
            Emit(AudioEnded([s EXCEPT !.e.turns[t].done =
                                IF completed THEN "full" ELSE "partial"],
                            t, completed),
                 "terminal", t, 1), t)

Waiting(s, t) == \E i \in DOMAIN s.e.jobs : s.e.jobs[i].turn = t

\* maybeFireAiDone: the model has said everything and all of it is speech.
MaybeFireAiDone(s, t) ==
    IF s.e.turns[t].returned /\ ~s.e.turns[t].failed /\ ~Waiting(s, t)
    THEN FireAiDone(s, t, TRUE) ELSE s

Unpaused(s) ==
    [s EXCEPT !.e.paused = Nil, !.e.kept = 0, !.e.deferred = "no"]

\* engine.cancel: the active turn is cut off, a pause of it is forgotten.
\* The speech service forgets its jobs in its own time.
Cancel(s) ==
    IF s.e.active = Nil THEN [Unpaused(s) EXCEPT !.e.interrupted = TRUE]
    ELSE FireAiDone([Unpaused(s) EXCEPT !.e.interrupted = TRUE,
                                        !.e.active = Nil],
                    s.e.active, FALSE)

-------------------------------------------------------------------------------
(* Interruption.                                                           *)

\* A tentative pause ends, in one of the ways the code has.
PauseOver(s, how) ==
    IF s.m.pausing
    THEN [s EXCEPT !.m.pausing = FALSE,
                   !.o = IF how = "dropped" THEN @ \cup {s.m.paused} ELSE @]
    ELSE s

\* onBargeIn: nothing more than the pause ends when nobody speaks.
OnBargeIn(s) ==
    IF ~s.m.speaking THEN PauseOver(s, "dropped")
    ELSE Cancel(Send([PauseOver(s, "taken") EXCEPT
                          !.m.speaking = FALSE,
                          !.m.checking = FALSE,
                          !.m.audioTurn = Nil],
                     Frame("barge_in", s.m.audioTurn, Nil)))

\* engine.pause: of an active turn that was not cut off.
EnginePause(s) ==
    IF s.e.paused # Nil \/ s.e.interrupted \/ s.e.active = Nil THEN s
    ELSE [s EXCEPT !.e.paused = s.e.active, !.e.kept = 0,
                   !.e.deferred = "no"]

\* beginTentativePause: the next pause, of the turn that was announced last.
Pause(s) ==
    Send(EnginePause([s EXCEPT !.m.pausing = TRUE,
                               !.m.pauses = @ + 1,
                               !.m.paused = s.m.audioTurn,
                               !.m.checked = FALSE]),
         Frame("pause", s.m.audioTurn, s.m.pauses + 1))

BeginTentativePause(s) == IF s.m.audioTurn = Nil THEN OnBargeIn(s) ELSE Pause(s)

\* What the pause kept is sent, and the end it held back follows.
Released(s, t, kept, deferred) ==
    IF deferred = "no" THEN SendTurnAudio(s, t, kept)
    ELSE FireAiDone(SendTurnAudio(s, t, kept), t, deferred = "full")

\* engine.resume: of the turn that is still active.
EngineResume(s) ==
    IF s.e.paused = Nil THEN s
    ELSE IF s.e.active = s.e.paused /\ ~s.e.interrupted
    THEN Released(Unpaused(s), s.e.paused, s.e.kept, s.e.deferred)
    ELSE Unpaused(s)

\* Mutant of Resume: the client is not told.
ResumeSilently(s) ==
    EngineResume([PauseOver(s, "resumed") EXCEPT !.m.checking = FALSE])

\* resumeFromTentativePause: the engine first, then the client.
Resume(s) ==
    Send(EngineResume([PauseOver(s, "resumed") EXCEPT !.m.checking = FALSE]),
         Frame("resume", s.m.paused, s.m.pauses))

Speaking == media.speaking /\ ~media.pausing

\* Loud input for long enough while the interviewer speaks.
Interruption ==
    /\ Speaking
    /\ recovery
    /\ media.pauses < MaxPauses
    /\ Becomes(BeginTentativePause(Server))
    /\ UNCHANGED <<clientVars, recovery, cuts>>

\* The same where an interruption is final.
FinalInterruption ==
    /\ Speaking
    /\ ~recovery
    /\ Becomes(OnBargeIn(Server))
    /\ UNCHANGED <<clientVars, recovery, cuts>>

\* Loud input goes on during the pause.
TakeOver ==
    /\ media.pausing
    /\ media.speaking
    /\ Becomes(OnBargeIn(Server))
    /\ UNCHANGED <<clientVars, recovery, cuts>>

\* Long enough a sample: whose voice it is is asked once for each pause, and
\* the lock answers one question at a time.
VerifySpeaker ==
    /\ media.pausing
    /\ media.speaking
    /\ ~media.checked
    /\ ~media.checking
    /\ media.asked = Nil
    /\ media' = [media EXCEPT !.checked = TRUE, !.checking = TRUE,
                             !.asked = media.pauses]
    /\ UNCHANGED <<clientVars, recovery, engine, dropped, down, cuts>>

\* Mutant of Current: a verdict counts for whatever pause there is.
CurrentAny == media.pausing

\* The episode the verdict is about is not over.
Current == media.checking /\ media.pausing

\* onSpeakerVerdict: a verdict of an episode that is over changes nothing.
OnSpeakerVerdict(verdict) ==
    LET s == [Server EXCEPT !.m.asked = Nil]
    IN /\ media.asked # Nil
       /\ \/ ~Current /\ Becomes(s)
          \/ Current /\ verdict = "target" /\ Becomes(OnBargeIn(s))
          \/ Current /\ verdict = "other" /\ Becomes(Resume(s))
          \/ /\ Current
             /\ verdict = "uncertain"
             /\ Becomes([s EXCEPT !.m.checking = FALSE])
       /\ UNCHANGED <<clientVars, recovery, cuts>>

\* The recovery window is over: it was a false alarm.
RecoveryElapsed ==
    /\ media.pausing
    /\ Becomes(Resume(Server))
    /\ UNCHANGED <<clientVars, recovery, cuts>>

-------------------------------------------------------------------------------
(* The engine's own steps.                                                 *)

Thinking == engine.active # Nil /\ ~engine.turns[engine.active].returned

\* A pause that meets the end of a user turn is dropped, and what it kept is
\* no longer of what the turn has to say.
Discarded(s) ==
    IF s.e.paused = Nil THEN s
    ELSE [Unpaused(s) EXCEPT !.e.turns[s.e.paused].made = @ - s.e.kept]
PauseDropped(s) ==
    IF s.e.deferred = "no" THEN Discarded(s)
    ELSE FireAiDone(Discarded(s), s.e.paused, FALSE)

\* resetTurn of the media session.
ResetTurn(s) == [PauseOver(s, "dropped") EXCEPT !.m.checking = FALSE]

\* The words are answered, unless the engine is at a turn.
Answer(s) ==
    IF s.e.active # Nil /\ ~s.e.turns[s.e.active].returned THEN s
    ELSE IF s.e.text THEN NewTurn([s EXCEPT !.e.text = FALSE], TRUE)
    ELSE s

\* asr_final, with the words of the user or none, and turn_end behind it.
TurnEnd(text) ==
    /\ Becomes(Answer(ResetTurn(PauseDropped(
                   [Server EXCEPT !.e.interrupted = FALSE,
                                  !.e.text = text]))))
    /\ UNCHANGED <<clientVars, recovery, cuts>>

\* kickoff, nudge and the next question: a turn nobody asked for.
SystemTurn ==
    /\ engine.active = Nil
    /\ Len(engine.turns) < MaxTurns
    /\ Becomes(NewTurn(Server, FALSE))
    /\ UNCHANGED <<clientVars, recovery, cuts>>

\* A sentence of the model goes to the speech service.
Say ==
    /\ Thinking
    /\ engine.said < MaxSentences
    /\ engine' = [engine EXCEPT
                    !.said = @ + 1,
                    !.jobs = Append(@, [turn |-> engine.active,
                                        spoken |-> FALSE])]
    /\ UNCHANGED <<clientVars, recovery, media, dropped, down, cuts>>

LlmReturns ==
    /\ Thinking
    /\ Becomes(MaybeFireAiDone(
                   [Server EXCEPT !.e.turns[engine.active].returned = TRUE],
                   engine.active))
    /\ UNCHANGED <<clientVars, recovery, cuts>>

\* The model fails, or the speech does not come in time: the turn is over,
\* its jobs are still under way.
Fail ==
    /\ engine.active # Nil
    /\ ~engine.turns[engine.active].failed
    /\ Becomes(FireAiDone(
                   [Server EXCEPT !.e.turns[engine.active] =
                       [@ EXCEPT !.failed = TRUE, !.returned = TRUE]],
                   engine.active, FALSE))
    /\ UNCHANGED <<clientVars, recovery, cuts>>

\* Audio of the active turn is kept during a pause; that of another turn is
\* passed on for what it is.
Synthesised(s, t) ==
    IF s.e.interrupted THEN s
    ELSE IF t # s.e.active \/ s.e.turns[t].failed THEN AudioOut(s, t, Chunks)
    ELSE IF s.e.paused # Nil
    THEN [s EXCEPT !.e.turns[t].made = @ + Chunks, !.e.kept = @ + Chunks]
    ELSE SendTurnAudio([s EXCEPT !.e.turns[t].made = @ + Chunks], t, Chunks)

\* The speech service: the first sentence is made audio ...
TtsAudio ==
    /\ engine.jobs # <<>>
    /\ ~Head(engine.jobs).spoken
    /\ Len(down) < Lag
    /\ Becomes(Synthesised([Server EXCEPT !.e.jobs[1].spoken = TRUE],
                           Head(engine.jobs).turn))
    /\ UNCHANGED <<clientVars, recovery, cuts>>

Finished(s, t) == IF t = s.e.active THEN MaybeFireAiDone(s, t) ELSE s

\* ... and is done, also when no audio came of it.
TtsDone ==
    /\ engine.jobs # <<>>
    /\ Becomes(Finished([Server EXCEPT !.e.jobs = Tail(@)],
                        Head(engine.jobs).turn))
    /\ UNCHANGED <<clientVars, recovery, cuts>>

\* The watchdog: no audio for long while the interviewer seems to speak.
Watchdog ==
    /\ Speaking
    /\ media' = [media EXCEPT !.speaking = FALSE]
    /\ UNCHANGED <<clientVars, recovery, engine, dropped, down, cuts>>

\* Output has waited too long for the response before it.
PendingTimeout ==
    /\ media.pending # <<>>
    /\ Becomes(FailPending(Server, Head(media.pending).turn))
    /\ UNCHANGED <<clientVars, recovery, cuts>>

-------------------------------------------------------------------------------
(* The connection and the client.                                          *)

ClientReceives ==
    /\ down # <<>>
    /\ Receive(Head(down))
    /\ down' = Tail(down)
    /\ UNCHANGED <<recovery, engine, media, dropped, cuts>>

Plays ==
    /\ Render
    /\ UNCHANGED <<recovery, engine, media, dropped, down, cuts>>

\* detectBargeIn of the page, where recovery is off: from the first chunk of
\* some audio to a while after the last.
LocalInterruption ==
    /\ ~recovery
    /\ started \/ ring # <<>>
    /\ cuts = 0
    /\ Flush
    /\ cuts' = 1
    /\ UNCHANGED <<recovery, engine, media, dropped, down>>

\* barge_in of the client.  It meets no state an acknowledgement touches:
\* their order on the way is left open.
Interrupt ==
    /\ cuts = 1
    /\ cuts' = 0
    /\ Becomes(IF media.speaking THEN OnBargeIn(Server) ELSE Server)
    /\ UNCHANGED <<clientVars, recovery>>

LoopNext ==
    \/ Interruption \/ FinalInterruption \/ TakeOver \/ VerifySpeaker
    \/ \E verdict \in {"target", "other", "uncertain"} :
          OnSpeakerVerdict(verdict)
    \/ RecoveryElapsed
    \/ \E text \in BOOLEAN : TurnEnd(text)
    \/ SystemTurn \/ Say \/ LlmReturns \/ Fail
    \/ TtsAudio \/ TtsDone \/ Watchdog \/ PendingTimeout
    \/ ClientReceives \/ Plays
    \/ LocalInterruption \/ Interrupt

LoopSpec == LoopInit /\ [][LoopNext]_loopVars

-------------------------------------------------------------------------------
(* Properties.                                                             *)

\* A turn that another one replaced before it was over: it never ends.
Replaced(t) ==
    /\ t <= Len(engine.turns)
    /\ engine.turns[t].done = "no"
    /\ t # engine.active

\* What the client acknowledges as played was heard from its first chunk to
\* its last, through pauses, a full ring and late frames.  Two cases of the
\* code are left out, see the README: what a pause had kept that the end of a
\* user turn dropped (Discarded), and the turns after one that was replaced.
AckIsHeard ==
    \A t \in AiTurns : reported[t] = "played" =>
        \/ heard[t] = engine.turns[t].made
        \/ \E earlier \in 1..t : Replaced(earlier)

Lifts(m, t) ==
    \/ m.kind = "resume" /\ m.turn = t /\ m.pause = control.pause
    \/ m.kind \in {"barge_in", "superseded"}
    \/ m.kind = "start" /\ m.turn > t
    \/ m.kind = "end" /\ m.turn = t

\* The player is never left frozen: the media session holds the very pause,
\* and its recovery window is running, or the frame that lifts it is on its
\* way; a pause dropped at the end of a user turn aside.
FrozenIsPaused ==
    Frozen =>
        \/ /\ media.pausing
           /\ <<media.paused, media.pauses>> = <<control.turn, control.pause>>
        \/ \E i \in DOMAIN down : Lifts(down[i], control.turn)
        \/ control.turn \in dropped

\* Once a turn is acknowledged, as played or as aborted, no more of it is
\* heard: chunks under way when the client flushed are refused.
NothingAfterReport ==
    [][\A t \in AiTurns : reported[t] # "no" => heard'[t] = heard[t]]_loopVars

Resting ==
    /\ down = <<>>
    /\ ~Frozen
    /\ ring = <<>> \/ (~started /\ Len(ring) < Preroll)

\* A turn that ended is acknowledged in one way or the other by the time the
\* client has nothing more to receive or to play: none waits for a preroll
\* that does not come, or for a segment that stays open.
EndedIsReported ==
    Resting =>
        \A t \in 1..Len(engine.turns) :
            engine.turns[t].begun /\ engine.turns[t].done = "full" =>
                reported[t] # "no"

\* The verdict on a voice acts on the pause it was asked for, and on none
\* that began since, though the answer may come at any time.
VerdictKeepsToItsPause ==
    [][media.asked # Nil /\ media'.asked = Nil =>
         \/ media.pausing /\ media.asked = media.pauses
         \/ /\ UNCHANGED <<engine, dropped, down>>
            /\ media' = [media EXCEPT !.asked = Nil]]_loopVars

===============================================================================
