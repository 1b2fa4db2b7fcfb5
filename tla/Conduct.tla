------------------------------ MODULE Conduct ------------------------------
(***************************************************************************)
(* How a session with questions conducts itself: the media session         *)
(* (bridge/src/media-session.ts: silence, chatter and abuse, the nudge     *)
(* before a silent answer is taken as finished, the forced end with its    *)
(* spoken reason) together with the turn machine of the three-stage engine *)
(* (bridge/src/three-stage-engine.ts) it calls and that calls it back.     *)
(*                                                                         *)
(* Both objects live in one event loop, so a handler runs to completion;   *)
(* but they call each other in the middle of their handlers: settling a    *)
(* turn calls the media session, which may ask the engine for a new turn,  *)
(* after which the engine goes on settling the old one.  Handlers are      *)
(* therefore written as functions of a pair c = [e |-> engine state,       *)
(* m |-> media state], composed in the order of the calls, and an action   *)
(* installs the result.                                                    *)
(*                                                                         *)
(* Left out: tentative pause and speaker lock, the farewell hangup, the    *)
(* retries of the opening turn, what follows the last question, what else  *)
(* ends a session, and the transport that waits for delivery receipts.     *)
(* Time is abstracted: a timer fires at any moment while it is armed, and  *)
(* a tick of the watchdog finds a silence long or not.  What the model     *)
(* says and the recogniser understands is a choice: Outcomes for an        *)
(* answered turn, the kinds of Verdict for the judge of abuse.             *)
(***************************************************************************)
EXTENDS Naturals

CONSTANTS
    Questions,       \* number of questions; the model stops before the last is left
    WarnMax,         \* SILENCE_WARN_MAX: warnings before the forced end
    SevereMax,       \* SEVERE_VIOLATION_MAX: the abuse that ends the session
    ChatterTurns,    \* IDLE_CHATTER_MIN_TURNS: off-topic turns that count as one
    VoicedStallMax   \* CURSOR_VOICED_MAX_STALL

ASSUME ConductAssumption ==
    /\ Questions \in Nat \ {0}
    /\ {WarnMax, SevereMax, ChatterTurns, VoicedStallMax} \subseteq Nat \ {0}

VARIABLES
    engine,   \* the three-stage engine
    media,    \* the media session
    said,     \* what the recogniser has made of the candidate since the last turn_end
    seen      \* observer of the history, read by properties only

conductVars == <<engine, media, said, seen>>

Protected == {"warning", "notice"}  \* what the candidate must hear to its end
TurnKinds == {"none", "opening", "direct", "nudge", "user"} \cup Protected

NoQuestion == Questions

\* The opening is being generated.
EngineInit ==
    [turn |-> "opening", phase |-> "llm", sounded |-> FALSE, held |-> FALSE,
     interrupted |-> FALSE, suppress |-> FALSE, cursor |-> 0, answerSeen |-> FALSE,
     stall |-> 0, grace |-> "none", autoNext |-> FALSE]
\* Nothing is counted, nobody waits, and no end is forced.
MediaInit ==
    [speaking |-> FALSE, waiting |-> FALSE, counted |-> FALSE, cursor |-> 0,
     r3 |-> "idle", epoch |-> NoQuestion, negative |-> 0, severe |-> 0, streak |-> 0,
     judged |-> FALSE, judging |-> FALSE, valid |-> FALSE, forced |-> FALSE,
     playing |-> FALSE, draining |-> FALSE, guard |-> FALSE, timer |-> "off",
     closed |-> FALSE]
ConductInit ==
    /\ engine = EngineInit /\ media = MediaInit
    /\ said = "nothing"
    /\ seen = [chain |-> 0, older |-> FALSE, inTurn |-> FALSE,
               owed |-> NoQuestion]

Now == [e |-> engine, m |-> media]
Become(c) == engine' = c.e /\ media' = c.m

-----------------------------------------------------------------------------
(* The engine: starting a turn                                             *)

(* llmBusy: a direct turn counts as busy until it is over, any other turn  *)
(* only while its text is being generated.                                 *)
Busy(c) == c.e.turn # "none" /\ (c.e.phase = "llm" \/ c.e.turn = "direct")

(* runLlmTurn: replaces a turn whose text is complete without settling it. *)
RunTurn(c, kind) ==
    IF Busy(c)
    THEN c
    ELSE [c EXCEPT !.e.turn = kind, !.e.phase = "llm", !.e.sounded = FALSE,
                   !.e.autoNext = @ /\ kind # "user"]

(* startDirectCurrentQuestion: the question itself is spoken, without LLM. *)
DirectTurn(c) ==
    IF c.e.turn # "none"
    THEN c
    ELSE [c EXCEPT !.e.turn = "direct", !.e.phase = "tts", !.e.sounded = FALSE]

(* A user's input becomes a turn of its own, or has the question repeated. *)
Respond(c, as) == IF as = "direct" THEN DirectTurn(c) ELSE RunTurn(c, as)

(* nudge: accepted only by an idle engine.                                 *)
Accepts(c) == c.e.turn = "none"
Nudge(c, kind) == IF Accepts(c) THEN RunTurn(c, kind) ELSE c

(* What the held input is answered by, if there is any.                    *)
Answers(c) == IF c.e.held THEN {"user", "direct"} ELSE {"user"}

EndTurn(c) == [c EXCEPT !.e.turn = "none", !.e.phase = "tts", !.e.sounded = FALSE]

CancelGrace(c) == [c EXCEPT !.e.grace = "none"]

(* armAnswerGrace drops held input: the window is for what is said in it.  *)
ArmGrace(c) ==
    IF c.e.grace = "none" THEN c
    ELSE [c EXCEPT !.e.grace = "armed", !.e.held = FALSE]

(* maybeRunPendingContinuation                                             *)
Continue(c) ==
    IF c.e.turn = "none" /\ ~c.e.interrupted /\ ~c.e.held /\ c.e.autoNext
    THEN DirectTurn([c EXCEPT !.e.autoNext = FALSE])
    ELSE c

-----------------------------------------------------------------------------
(* The engine: the question cursor                                         *)

HasNext(c) == c.e.cursor + 1 < Questions

(* advanceCursor and scheduleContinuationAfterAdvance.                     *)
Advance(c) ==
    [c EXCEPT !.e.cursor = @ + 1, !.e.answerSeen = FALSE, !.e.stall = 0,
              !.e.autoNext = TRUE]

(* What maybeAdvanceCursor may make of a completed answer.                 *)
(*   none     no valid answer, or one that was held over from before the   *)
(*            cursor moved: stay                                           *)
(*   follow   answered, stay        grace  answered, move after the grace  *)
(*   advance  move now                                                     *)
(*   unvoiced answered, but the question was not put yet: stay, and move   *)
(*            once that has happened too often                             *)
Outcomes(c) ==
    {"none"} \cup
    (IF c.e.turn # "user" THEN {}
     ELSE {"follow"} \cup
          (IF HasNext(c) THEN {"grace", "advance", "unvoiced"} ELSE {}))

AdvanceAndSchedule(c, outcome) ==
    LET d == CancelGrace(c)
        answered == [d EXCEPT !.e.answerSeen = TRUE]
    IN CASE outcome = "follow"  -> answered
         [] outcome = "grace"   -> [answered EXCEPT !.e.grace = "intent"]
         [] outcome = "advance" -> Advance(d)
         [] outcome = "unvoiced" ->
              IF d.e.stall + 1 >= VoicedStallMax THEN Advance(d)
              ELSE [answered EXCEPT !.e.stall = @ + 1]
         [] OTHER -> d

(* advanceOnSilenceTimeout: only the question the nudge was for.           *)
AdvanceOnSilence(c, voiced) ==
    IF c.m.epoch # c.e.cursor \/ ~c.e.answerSeen \/ ~HasNext(c) THEN c
    ELSE IF voiced \/ c.e.stall + 1 >= VoicedStallMax THEN Continue(Advance(c))
    ELSE [c EXCEPT !.e.stall = @ + 1]

-----------------------------------------------------------------------------
(* The media session: waiting for an answer, warnings, the forced end      *)

ResetR3(c) == [c EXCEPT !.m.r3 = "idle", !.m.epoch = NoQuestion]
LeaveWaiting(c) == ResetR3([c EXCEPT !.m.waiting = FALSE, !.m.counted = FALSE])
EnterWaiting(c) == [c EXCEPT !.m.waiting = TRUE, !.m.counted = FALSE]

MarkAiDone(c) ==
    [c EXCEPT !.m.speaking = FALSE,
              !.m.r3 = IF @ = "playing" THEN "after" ELSE @]

(* nudgeViolationNotice: guarded once accepted.                            *)
NudgeNotice(c, kind) ==
    [Nudge(c, kind) EXCEPT !.m.guard = @ \/ Accepts(c)]

ClearGuard(c) == [c EXCEPT !.m.guard = FALSE]

(* armForcedEndAfterNotice                                                 *)
Arm(c) ==
    IF c.m.forced THEN c
    ELSE [NudgeNotice(c, "notice") EXCEPT !.m.forced = TRUE, !.m.timer = "hard",
                                          !.m.playing = Accepts(c)]

(* handleNegativeViolation; the count is kept up to the first that ends.   *)
Negative(c) ==
    IF c.m.negative < WarnMax
    THEN NudgeNotice([c EXCEPT !.m.negative = @ + 1], "warning")
    ELSE Arm([c EXCEPT !.m.negative = WarnMax + 1])

(* The branches of the onAiDone callback while an end is forced: the       *)
(* reason is out and drains; it was cut; it is tried (again).              *)
StartDrain(c) ==
    [c EXCEPT !.m.draining = TRUE, !.e.suppress = TRUE, !.m.timer = "drain"]
\* Mutant of NoticeCut: the guard is kept.
NoticeCutUnderGuard(c) == [c EXCEPT !.m.playing = FALSE]
NoticeCut(c) == [ClearGuard(c) EXCEPT !.m.playing = FALSE]
RetryNotice(c) ==
    [NudgeNotice(ClearGuard(c), "notice") EXCEPT !.m.playing = Accepts(c)]

\* Mutant of AiDone: it does not look whether the reason drains already.
AiDoneAgain(c, completed) ==
    LET d == MarkAiDone(c)
    IN IF ~d.m.forced \/ d.m.closed
       THEN IF completed /\ ~d.m.closed THEN EnterWaiting(ClearGuard(d))
            ELSE ClearGuard(d)
       ELSE IF ~d.m.playing THEN RetryNotice(d)
       ELSE IF completed THEN StartDrain(d) ELSE NoticeCut(d)

AiDone(c, completed) ==
    LET d == MarkAiDone(c)
    IN IF ~d.m.forced \/ d.m.closed
       THEN IF completed /\ ~d.m.closed THEN EnterWaiting(ClearGuard(d))
            ELSE ClearGuard(d)
       ELSE IF d.m.draining THEN d
       ELSE IF ~d.m.playing THEN RetryNotice(d)
       ELSE IF completed THEN StartDrain(d) ELSE NoticeCut(d)

-----------------------------------------------------------------------------
(* The end of a turn, in both                                              *)

(* settleResponse: held input is answered next, by a turn or by repeating  *)
(* the question.  It is lost if the media session has just taken the       *)
(* engine for a notice.                                                    *)
Settle(c, completed, outcome, next) ==
    LET advanced == IF completed THEN AdvanceAndSchedule(c, outcome) ELSE c
        done == AiDone(EndTurn(advanced), completed)
    IN IF ~done.e.interrupted /\ done.e.held
       THEN Respond([CancelGrace(done) EXCEPT !.e.held = FALSE,
                                              !.e.autoNext = FALSE], next)
       ELSE ArmGrace(Continue(done))

(* cancel: an interrupted turn is settled as not completed.                *)
Cancel(c) ==
    LET d == CancelGrace(EndTurn([c EXCEPT !.e.interrupted = TRUE]))
    IN IF c.e.turn = "none" THEN d ELSE AiDone(d, FALSE)

OnBargeIn(c) == IF c.m.speaking THEN Cancel(MarkAiDone(LeaveWaiting(c))) ELSE c

Teardown(c) ==
    Cancel([c EXCEPT !.m.closed = TRUE, !.m.timer = "off", !.e.suppress = FALSE])

-----------------------------------------------------------------------------
(* The watchdog's tick                                                     *)

\* Mutant of SeeCursor: the wait goes on.
SeeCursorOnly(c) == [c EXCEPT !.m.cursor = c.e.cursor]

(* The cursor has moved: a wait that ran for the old question is over.     *)
SeeCursor(c) ==
    IF c.m.cursor = c.e.cursor THEN c
    ELSE [(IF c.m.waiting THEN LeaveWaiting(c) ELSE c)
            EXCEPT !.m.cursor = c.e.cursor]

(* checkSilenceViolation                                                   *)
CheckSilence(c, long) ==
    IF c.m.waiting /\ ~c.m.speaking /\ ~c.m.counted /\ long
    THEN Negative([c EXCEPT !.m.counted = TRUE])
    ELSE c

(* The nudge of checkR3SilenceAdvance: played, or pending on a busy engine. *)
AskForMore(c) ==
    [Nudge(c, "nudge") EXCEPT !.m.r3 = IF Accepts(c) THEN "playing" ELSE "pending"]

(* fireR3Advance                                                           *)
FireR3(c, voiced) ==
    LET d == AdvanceOnSilence(c, voiced)
    IN IF d.e.cursor # c.e.cursor THEN LeaveWaiting(d) ELSE ResetR3(d)

CheckR3(c, long, voiced) ==
    IF c.m.speaking \/ ~c.m.waiting THEN c
    ELSE CASE c.m.r3 = "idle" /\ long -> AskForMore([c EXCEPT !.m.epoch = c.e.cursor])
           [] c.m.r3 = "pending" /\ ~long -> AskForMore(c)
           [] c.m.r3 \in {"pending", "after"} /\ long -> FireR3(c, voiced)
           [] OTHER -> c

WatchdogTick(c, hung, long, voiced) ==
    LET d == SeeCursor(IF hung /\ c.m.speaking THEN MarkAiDone(c) ELSE c)
    IN IF d.e.answerSeen THEN CheckR3(d, long, voiced)
       ELSE CheckSilence(ResetR3(d), long)

-----------------------------------------------------------------------------
(* The judge of abuse, asked once for each turn and one answer at a time   *)

(* maybeJudgeModeration: while an older answer is outstanding the turn goes *)
(* unjudged, and the outstanding answer becomes void.                      *)
Judge(c) ==
    IF c.m.judged THEN c
    ELSE IF c.m.judging THEN [c EXCEPT !.m.valid = FALSE, !.m.streak = 0]
    ELSE [c EXCEPT !.m.judged = TRUE, !.m.judging = TRUE, !.m.valid = TRUE]

Unrelated(c) ==
    IF c.m.streak + 1 < ChatterTurns THEN [c EXCEPT !.m.streak = @ + 1]
    ELSE Negative([c EXCEPT !.m.streak = 0])

(* A warning counts only if it was accepted.                               *)
Severe(c) ==
    IF c.m.severe + 1 >= SevereMax THEN Arm([c EXCEPT !.m.severe = SevereMax])
    ELSE NudgeNotice([c EXCEPT !.m.severe = IF Accepts(c) THEN @ + 1 ELSE @], "warning")

(* applyModerationVerdict                                                  *)
ApplyVerdict(c, kind) ==
    LET d == [c EXCEPT !.m.judging = FALSE, !.m.valid = FALSE]
    IN IF ~c.m.valid THEN d
       ELSE CASE kind = "unrelated" -> Unrelated(d)
              [] kind = "severe"    -> Severe(d)
              [] OTHER              -> [d EXCEPT !.m.streak = 0]

-----------------------------------------------------------------------------
(* Actions: the engine's turn                                              *)

Open == ~media.closed

(* onAudio: what arrives after an interruption is dropped.                 *)
AudioOut ==
    /\ Open /\ engine.turn # "none" /\ ~engine.interrupted /\ ~media.speaking
    /\ Become([Now EXCEPT !.e.sounded = TRUE, !.m.speaking = TRUE])
    /\ UNCHANGED <<said, seen>>

LlmEnds ==
    /\ Open /\ engine.turn # "none" /\ engine.phase = "llm"
    /\ Become([Now EXCEPT !.e.phase = "tts"])
    /\ UNCHANGED <<said, seen>>

(* maybeFireAiDone: the text is out and every sentence of it synthesised.  *)
Complete ==
    /\ Open /\ engine.turn # "none"
    /\ \E outcome \in Outcomes(Now), next \in Answers(Now) :
          Become(Settle(Now, TRUE, outcome, next))
    /\ seen' = [seen EXCEPT !.owed = engine'.cursor]
    /\ UNCHANGED said

(* The stream of the model fails or stalls, or the synthesis never begins. *)
Fail ==
    /\ Open /\ engine.turn # "none"
    /\ engine.phase = "llm" \/ ~engine.sounded
    /\ \E next \in Answers(Now) :
          Become(Settle(Now, FALSE, "none", next))
    /\ UNCHANGED <<said, seen>>

(* fireAnswerGrace                                                         *)
GraceExpires ==
    /\ Open /\ engine.grace = "armed"
    /\ LET c == CancelGrace(Now)
       IN Become(IF engine.turn = "none" THEN Continue(Advance(c)) ELSE c)
    /\ UNCHANGED <<said, seen>>

-----------------------------------------------------------------------------
(* Actions: the candidate and the recogniser                               *)

Sound == said' = IF said = "nothing" THEN "sound" ELSE said

(* trackEndpoint, once the speech is long enough to count.                 *)
Speak ==
    /\ Open /\ ~media.speaking
    /\ Become(LeaveWaiting(Now))
    /\ Sound
    /\ seen' = [seen EXCEPT !.owed = NoQuestion]

(* Detected in the sound, or sent by the client that has stopped playing.  *)
BargeIn ==
    /\ Open /\ ~media.guard
    /\ Become(IF media.speaking THEN OnBargeIn(Now) ELSE LeaveWaiting(Now))
    /\ Sound
    /\ seen' = [seen EXCEPT !.owed = NoQuestion]

AsrPartial ==
    /\ Open /\ engine.grace = "armed"
    /\ Become(CancelGrace(Now))
    /\ Sound
    /\ UNCHANGED seen

(* asr_final, with text or without.                                        *)
AsrFinal(text) ==
    LET c == [CancelGrace(Now) EXCEPT !.e.held = text]
        late == text /\ ~seen.inTurn /\ media.judging
    IN /\ Open
       /\ Become(IF text THEN Judge(c) ELSE c)
       /\ said' = "final"
       /\ seen' = [seen EXCEPT
                     !.inTurn = @ \/ text,
                     !.older = late \/ (@ /\ (media.judging \/ ~media'.judging)),
                     !.chain = IF late THEN 0 ELSE @]

(* turn_end follows the final text.                                        *)
TurnEnd ==
    /\ Open /\ said = "final"
    /\ \E as \in Answers(Now) :
          LET c == [Now EXCEPT !.e.interrupted = FALSE, !.m.judged = FALSE]
          IN Become(IF Busy(c) \/ c.e.suppress THEN c
                    ELSE IF c.e.held THEN Respond([c EXCEPT !.e.held = FALSE], as)
                    ELSE Continue(c))
    /\ said' = "nothing"
    /\ seen' = [seen EXCEPT !.inTurn = FALSE]

-----------------------------------------------------------------------------
(* Actions: timers and the judge's answer                                  *)

Verdict(kind) ==
    /\ Open /\ media.judging
    /\ Become(ApplyVerdict(Now, kind))
    /\ seen' = [seen EXCEPT
                  !.older = FALSE,
                  !.chain = IF kind = "severe" THEN @
                            ELSE IF kind = "other" \/ seen.older THEN 0
                            ELSE (@ + 1) % ChatterTurns]
    /\ UNCHANGED said

(* A grace window (ANSWER_GRACE_MS) is over before a silence is long: both *)
(* are counted from the end of the same playback.                          *)
(* Bound: no tick once the last question is answered.                      *)
Tick(hung, long, voiced) ==
    /\ Open /\ (HasNext(Now) \/ ~engine.answerSeen)
    /\ long => engine.grace = "none"
    /\ hung => media.speaking
    /\ voiced => long
    /\ Become(WatchdogTick(Now, hung, long, voiced))
    /\ UNCHANGED <<said, seen>>

ForcedTimer ==
    /\ Open /\ media.timer # "off"
    /\ Become(Teardown(Now))
    /\ UNCHANGED <<said, seen>>

-----------------------------------------------------------------------------
Recognised == TurnEnd \/ (\E text \in BOOLEAN : AsrFinal(text))

Judged == \E kind \in {"other", "unrelated", "severe"} : Verdict(kind)

Ticks == \E hung, long, voiced \in BOOLEAN : Tick(hung, long, voiced)

ConductNext ==
    \/ AudioOut \/ LlmEnds \/ Complete \/ Fail \/ GraceExpires
    \/ Speak \/ BargeIn \/ AsrPartial \/ Recognised
    \/ Judged \/ Ticks \/ ForcedTimer

ConductSpec == ConductInit /\ [][ConductNext]_conductVars

-----------------------------------------------------------------------------
(* Properties                                                              *)

(* The counters stay within their limits, no warning is counted past the   *)
(* one that ends the session, and the cursor stays on a question.          *)
ConductTypeOK ==
    /\ engine \in [turn : TurnKinds, phase : {"llm", "tts"}, sounded : BOOLEAN,
                   held : BOOLEAN, interrupted : BOOLEAN, suppress : BOOLEAN,
                   cursor : 0..(Questions - 1), answerSeen : BOOLEAN,
                   stall : 0..(VoicedStallMax - 1),
                   grace : {"none", "armed"}, autoNext : BOOLEAN]
    /\ media \in [speaking : BOOLEAN, waiting : BOOLEAN, counted : BOOLEAN,
                  cursor : 0..(Questions - 1),
                  r3 : {"idle", "pending", "playing", "after"},
                  epoch : 0..NoQuestion, negative : 0..(WarnMax + 1),
                  severe : 0..SevereMax, streak : 0..(ChatterTurns - 1),
                  judged : BOOLEAN, judging : BOOLEAN, valid : BOOLEAN,
                  forced : BOOLEAN, playing : BOOLEAN, draining : BOOLEAN,
                  guard : BOOLEAN, timer : {"off", "hard", "drain"}, closed : BOOLEAN]
    /\ said \in {"nothing", "sound", "final"}
    /\ seen \in [chain : 0..(ChatterTurns - 1), older : BOOLEAN, inTurn : BOOLEAN,
                 owed : 0..NoQuestion]

(* A forced end always has a timer that will close the session, and once   *)
(* its reason has been spoken to its end, nothing that happens until then  *)
(* opens the guard, lets a user's turn through, puts back the long timer   *)
(* or has the reason spoken again, whichever turns end meanwhile           *)
(* (media-session.ts, onAiDone while draining).                            *)
ForcedEndIsFinal ==
    media.forced /\ Open =>
        /\ media.timer # "off"
        /\ media.draining => /\ media.guard /\ engine.suppress
                             /\ media.timer = "drain" /\ engine.turn # "notice"

(* A warning or the reason of the end is under guard as long as it is      *)
(* spoken, and a guard never outlives the turn it was set for: or the      *)
(* candidate could not interrupt the rest of the session (media-session.ts, *)
(* nudgeViolationNotice and clearViolationNoticeGuard).                    *)
GuardFollowsTurn ==
    Open => /\ engine.turn \in Protected => media.guard
            /\ media.guard /\ ~media.draining => engine.turn # "none"

(* What is counted against the candidate has its evidence.  Chatter: that  *)
(* many turns in a row were judged to be it, and a turn that went unjudged *)
(* or an answer that comes after a later turn was heard is no evidence     *)
(* (media-session.ts, idleModerationGen).  Silence: it is of the question  *)
(* the last completed turn left them with, and they have not spoken since, *)
(* though the cursor may have moved since the wait began (lastSeenCursor). *)
CountsHaveEvidence ==
    [][ media'.negative # media.negative =>
          IF media.judging /\ ~media'.judging
          THEN seen.chain + 1 = ChatterTurns /\ ~seen.older
          ELSE seen.owed = engine.cursor ]_conductVars

=============================================================================
