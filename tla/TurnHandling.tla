-------------------------- MODULE TurnHandling --------------------------
(***************************************************************************)
(* What the bridge makes of its environment: bridge/src/turn-handling.ts    *)
(* and bypass-llm-config.ts.                                               *)
(*                                                                         *)
(* The variables are read once, when the process starts.  What cannot be    *)
(* read gives way to its default, some combinations are mended and some     *)
(* are refused, and then the process does not start.  The other modules     *)
(* take for granted of the timings what is proved of the result here.       *)
(*                                                                         *)
(* A number is an integer, in hundredths where the code has a fraction;     *)
(* Unset stands for whatever is no number.                                  *)
(***************************************************************************)
EXTENDS Integers

CONSTANT Unset

Number == Int \cup {Unset}

Within(low, high) == {n \in Int : low <= n /\ n <= high}

\* process.env: the variables that hold numbers, and the switches.
Environments ==
    [AIM_EOU_VERDICT_TIMEOUT_MS : Number, AIM_TRANSCRIPT_FIXER_TIMEOUT_MS : Number,
     AIM_MODERATION_TIMEOUT_MS : Number, AIM_ENDPOINT_RMS_THRESHOLD : Number,
     AIM_ENDPOINT_SILENCE_GAP_MS : Number, AIM_ENDPOINT_MIN_SPEECH_MS : Number,
     AIM_INTERRUPTION_MIN_WORDS : Number, AIM_BARGE_RMS_THRESHOLD : Number,
     AIM_BARGE_CONFIRM_MS : Number, AIM_BARGE_HANGOVER_MS : Number,
     AIM_BARGE_DTD_FLOOR : Number, AIM_BARGE_DTD_ECHO_GAIN : Number,
     AIM_BARGE_DYN_FLOOR_WINDOW_MS : Number, AIM_BARGE_DYN_FLOOR_K : Number,
     AIM_FALSE_INTERRUPTION_WINDOW_MS : Number, AIM_FALSE_INTERRUPTION_TAKEOVER_MS : Number,
     AIM_RECOVERY_TAKEOVER_DECAY : Number, AIM_FALSE_INTERRUPTION_MAX_HOLD_MS : Number,
     AIM_BARGE_OPEN_COOLDOWN_MS : Number, AIM_BARGE_OPEN_COOLDOWN_MULT : Number,
     AIM_EOU_CORRELATION_MS : Number, AIM_EOU_SUB_THRESHOLD_WINDOW_MS : Number,
     AIM_EOU_SUB_THRESHOLD_MULT : Number, AIM_MIN_INPUT_CHARS : Number,
     AIM_PROACTIVE_OPENING_SILENCE_MS : Number, AIM_AI_SPEAKING_MAX_IDLE_MS : Number,
     AIM_MAX_PLAYBACK_LEAD_MS : Number, AIM_PLAYBACK_LEAD_MARGIN_MS : Number,
     AIM_ANSWER_GRACE_MS : Number, AIM_AUTO_NEXT_GRACE_MS : Number,
     AIM_QUESTION_MAX_RETRY : Number, AIM_QUESTION_MIN_ANSWER_CHARS : Number,
     AIM_QUESTION_MAX_FOLLOW_UPS : Number, AIM_QUESTION_FORCE_CLOSURE_TIMEOUT_MS : Number,
     AIM_VAD_ENERGY_THRESHOLD : Number,
     AIM_BARGE_DTD : STRING, AIM_BARGE_DYN_FLOOR : STRING,
     AIM_FALSE_INTERRUPTION_RECOVERY : STRING, AIM_EOU_CORRECTION_ENABLED : STRING,
     AIM_PROACTIVE_OPENING : STRING]

-----------------------------------------------------------------------------
(* Reading                                                                   *)

Num(raw, default) == IF raw = Unset THEN default ELSE raw

\* numBounded, intBounded: out of bounds counts as unset.
Bounded(raw, default, low, high) == IF raw \in Within(low, high) THEN raw ELSE default

\* clampTimeout: the timeouts of the calls on the side are bent into their bounds.
ClampTimeout(raw, default, low, high) ==
    IF raw \notin Int \/ raw <= 0 THEN default
    ELSE IF raw < low THEN low
    ELSE IF raw > high THEN high
    ELSE raw

EouTimeout(env) == ClampTimeout(env.AIM_EOU_VERDICT_TIMEOUT_MS, 6000, 500, 8000)
FixerTimeout(env) == ClampTimeout(env.AIM_TRANSCRIPT_FIXER_TIMEOUT_MS, 8000, 1000, 15000)
ModerationTimeout(env) == ClampTimeout(env.AIM_MODERATION_TIMEOUT_MS, 8000, 1000, 20000)

\* boolKillSwitch, in lower case and without blanks; and the switches that only "0"
\* turns off.
KillSwitch(raw) == raw \notin {"0", "false", "off", "no"}
OnUnlessZero(raw) == raw # "0"

-----------------------------------------------------------------------------
(* What is configured                                                        *)

EndpointingConfig == [rmsThreshold : Int, silenceGapMs : Int, minSpeechMs : Int]

InterruptionConfig ==
    [rmsThreshold : Int, confirmMs : Int, hangoverMs : Int, minWords : Int,
     dtdEnabled : BOOLEAN, dtdFloor : Int, dtdEchoGain : Int,
     dynFloorEnabled : BOOLEAN, dynFloorWindowMs : Int, dynFloorK : Int,
     recoveryEnabled : BOOLEAN, recoveryWindowMs : Int, recoveryTakeoverMs : Int,
     recoveryTakeoverDecay : Int, recoveryMaxHoldMs : Int,
     openCooldownMs : Int, openCooldownMult : Int]

EouCorrectionConfig ==
    [enabled : BOOLEAN, correlationMs : Int, subThresholdWindowMs : Int,
     subThresholdMult : Within(1, 100)]

PacingConfig ==
    [minChars : Int, opening : BOOLEAN, silenceMs : Int, maxIdleMs : Int,
     maxLeadMs : Within(0, 120000), leadMarginMs : Within(0, 5000),
     defaultMs : Within(0, 10000), autoNextMs : Within(0, 10000)]

QuestionProgressionConfig ==
    [minAnswerChars : Int, maxRetryPerQuestion : Int, maxFollowUpsPerQuestion : Within(0, 5),
     forceClosureStreamTimeoutMs : Within(1000, 60000)]

-----------------------------------------------------------------------------
(* loadTurnHandling                                                          *)

Endpointing(env) ==
    [rmsThreshold |-> Num(env.AIM_ENDPOINT_RMS_THRESHOLD, 500),
     silenceGapMs |-> Num(env.AIM_ENDPOINT_SILENCE_GAP_MS, 1500),
     minSpeechMs |-> Num(env.AIM_ENDPOINT_MIN_SPEECH_MS, 300)]

\* Words are no criterion yet, and asking for some is undone.
MinWords(env) ==
    LET asked == Num(env.AIM_INTERRUPTION_MIN_WORDS, 0)
    IN  IF asked > 0 THEN 0 ELSE asked

Interruption(env) ==
    [rmsThreshold |-> Num(env.AIM_BARGE_RMS_THRESHOLD, 1500),
     confirmMs |-> Num(env.AIM_BARGE_CONFIRM_MS, 200),
     hangoverMs |-> Num(env.AIM_BARGE_HANGOVER_MS, 60),
     minWords |-> MinWords(env),
     dtdEnabled |-> OnUnlessZero(env.AIM_BARGE_DTD),
     dtdFloor |-> Num(env.AIM_BARGE_DTD_FLOOR, 700),
     dtdEchoGain |-> Num(env.AIM_BARGE_DTD_ECHO_GAIN, 30),
     dynFloorEnabled |-> OnUnlessZero(env.AIM_BARGE_DYN_FLOOR),
     dynFloorWindowMs |-> Num(env.AIM_BARGE_DYN_FLOOR_WINDOW_MS, 3000),
     dynFloorK |-> Num(env.AIM_BARGE_DYN_FLOOR_K, 150),
     recoveryEnabled |-> KillSwitch(env.AIM_FALSE_INTERRUPTION_RECOVERY),
     recoveryWindowMs |-> Num(env.AIM_FALSE_INTERRUPTION_WINDOW_MS, 2000),
     recoveryTakeoverMs |-> Num(env.AIM_FALSE_INTERRUPTION_TAKEOVER_MS, 700),
     recoveryTakeoverDecay |-> Num(env.AIM_RECOVERY_TAKEOVER_DECAY, 50),
     recoveryMaxHoldMs |-> Num(env.AIM_FALSE_INTERRUPTION_MAX_HOLD_MS, 5000),
     openCooldownMs |-> Num(env.AIM_BARGE_OPEN_COOLDOWN_MS, 0),
     openCooldownMult |-> Num(env.AIM_BARGE_OPEN_COOLDOWN_MULT, 150)]

EouEnabled(env) == KillSwitch(env.AIM_EOU_CORRECTION_ENABLED)

\* EOU_CORRELATION_MARGIN_MS
Margin == 1000

\* A window in which no verdict could come back is mended.
Correlation(env) ==
    LET asked == Num(env.AIM_EOU_CORRELATION_MS, EouTimeout(env) + Margin)
    IN  IF EouEnabled(env) /\ asked < EouTimeout(env) THEN EouTimeout(env) + Margin ELSE asked

EouCorrection(env) ==
    [enabled |-> EouEnabled(env),
     correlationMs |-> Correlation(env),
     subThresholdWindowMs |-> Num(env.AIM_EOU_SUB_THRESHOLD_WINDOW_MS, 2500),
     subThresholdMult |-> Bounded(env.AIM_EOU_SUB_THRESHOLD_MULT, 60, 1, 100)]

\* meaningfulInput, proactiveOpening, aiDoneWatchdog, playbackClock, answerGrace
Pacing(env) ==
    [minChars |-> Num(env.AIM_MIN_INPUT_CHARS, 2),
     opening |-> OnUnlessZero(env.AIM_PROACTIVE_OPENING),
     silenceMs |-> Num(env.AIM_PROACTIVE_OPENING_SILENCE_MS, 3000),
     maxIdleMs |-> Num(env.AIM_AI_SPEAKING_MAX_IDLE_MS, 8000),
     maxLeadMs |-> Bounded(env.AIM_MAX_PLAYBACK_LEAD_MS, 35000, 0, 120000),
     leadMarginMs |-> Bounded(env.AIM_PLAYBACK_LEAD_MARGIN_MS, 1000, 0, 5000),
     defaultMs |-> Bounded(env.AIM_ANSWER_GRACE_MS, 4000, 0, 10000),
     autoNextMs |-> Bounded(env.AIM_AUTO_NEXT_GRACE_MS, 800, 0, 10000)]

\* A question that may be asked no second time may be asked once.
MaxRetry(env) ==
    LET asked == Num(env.AIM_QUESTION_MAX_RETRY, 3)
    IN  IF asked < 1 THEN 1 ELSE asked

QuestionProgression(env) ==
    [minAnswerChars |-> Num(env.AIM_QUESTION_MIN_ANSWER_CHARS, 4),
     maxRetryPerQuestion |-> MaxRetry(env),
     maxFollowUpsPerQuestion |-> Bounded(env.AIM_QUESTION_MAX_FOLLOW_UPS, 2, 0, 5),
     forceClosureStreamTimeoutMs |->
         Bounded(env.AIM_QUESTION_FORCE_CLOSURE_TIMEOUT_MS, 15000, 1000, 60000)]

\* The process does not start: the bridge would hear less than the GPU, or a pause
\* could not end as it should.
Refused(env) ==
    \/ Endpointing(env).rmsThreshold < Num(env.AIM_VAD_ENERGY_THRESHOLD, 500)
    \/ /\ Interruption(env).recoveryEnabled
       /\ \/ Interruption(env).recoveryTakeoverMs >= Interruption(env).recoveryWindowMs
          \/ Interruption(env).recoveryTakeoverMs <= Interruption(env).confirmMs
          \/ Interruption(env).recoveryTakeoverDecay \notin Within(10, 200)
          \/ Pacing(env).maxIdleMs <= Interruption(env).recoveryWindowMs

LoadTurnHandling(env) ==
    [endpointing |-> Endpointing(env), interruption |-> Interruption(env),
     eouCorrection |-> EouCorrection(env), pacing |-> Pacing(env),
     questionProgression |-> QuestionProgression(env)]

-----------------------------------------------------------------------------
(* Properties                                                                *)

\* What is configured is of its type, however the variables are set.
LoadsTyped(env) ==
    LoadTurnHandling(env) \in
        [endpointing : EndpointingConfig, interruption : InterruptionConfig,
         eouCorrection : EouCorrectionConfig, pacing : PacingConfig,
         questionProgression : QuestionProgressionConfig]

\* Where a pause may end in a takeover, it takes more to take over than to pause, the
\* evidence can be had before the pause runs out, and silence does away with it; and
\* the watchdog that takes a silent interviewer for broken waits for longer.
PausesCanBeDecided(env) ==
    LET i == LoadTurnHandling(env).interruption
    IN  i.recoveryEnabled =>
            /\ i.confirmMs < i.recoveryTakeoverMs /\ i.recoveryTakeoverMs < i.recoveryWindowMs
            /\ i.recoveryWindowMs < LoadTurnHandling(env).pacing.maxIdleMs
            /\ 0 < i.recoveryTakeoverDecay

\* A verdict on an answer that comes before its timeout is not too late to be heeded,
\* whatever window is asked for.
VerdictsCanBeInTime(env) ==
    LoadTurnHandling(env).eouCorrection.enabled =>
        LoadTurnHandling(env).eouCorrection.correlationMs >= EouTimeout(env)

=============================================================================
