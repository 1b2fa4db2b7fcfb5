--------------------------- MODULE SpeakerGate ---------------------------
(***************************************************************************)
(* Whose voice interrupts the interviewer: bridge/src/speaker-lock.ts and   *)
(* the part of media-session.ts that feeds it.                              *)
(*                                                                         *)
(* While the interviewer is silent, stretches of clean speech are sent to   *)
(* the GPU, and two of them that agree become the reference of the          *)
(* candidate's voice.  While the interviewer speaks, loud input counts as   *)
(* evidence of an interruption; during the tentative pause it leads to, the *)
(* sound gathered is compared with the reference once.  Only a confident    *)
(* "somebody else" calls the interruption off; whatever is uncertain leaves *)
(* the decision to the evidence.                                            *)
(*                                                                         *)
(* A frame of input is the unit of time.  The sequence number of an episode *)
(* is only ever compared with the one a request was made in, so the request *)
(* carries whether they are still equal.  What a pause does to engine and   *)
(* client is VoiceLoop.                                                     *)
(***************************************************************************)
EXTENDS Integers

CONSTANTS EnrollFrames, EnrollGap,     \* enrollMs, enrollGapMs
          MinVerify, VerifyWindow,     \* minVerifyMs, verifyWindowMs
          Confirm, Takeover, Hangover, \* the evidence for a pause and a takeover
          Decay,                       \* RECOVERY_TAKEOVER_DECAY
          One, Low, High,              \* a cosine of 1, and the two thresholds
          Levels,                      \* the energies a frame may have
          VoiceLevel, ClipLevel,       \* ENDPOINT_RMS_THRESHOLD, full scale
          Floor, EchoGain, NoiseFactor,\* of the threshold of an interruption
          Adjustments,                 \* percentages it is multiplied by
          MaxSegments, MaxPauses       \* bounds: segments sent, pauses

VARIABLES
    lock,         \* there is a gate: asked for, and its thresholds make sense
    closed,       \* the media session is torn down, and the lock disposed of
    speaking,     \* aiSpeaking
    accum,        \* frames of the segment that is being gathered
    gap,          \* silent frames since the last one of it
    awaiting,     \* enrollAwaitingBoundary
    submitted,    \* segments sent so far
    enrolling,    \* the segment that is being embedded, 0 for none
    kept,         \* the segment the tracker keeps, 0 for none
    reference,    \* the two segments of the reference, <<>> for none
    evidence,     \* bargeMs
    dip,          \* bargeDipMs
    window,       \* frames of the sound kept for a comparison
    pausing,      \* tentativePausing
    bystander,    \* pauseBystanderConfirmed
    verifyDone,   \* pauseVerifyDone
    pending,      \* speakerVerifyPending
    verifying,    \* verifyState: a comparison is under way
    current,      \* its episode is not over
    pauses,       \* pauseSequence
    quiet,        \* history: silent frames observed since a segment was sent
    asked,        \* history: comparisons begun in this pause
    asksFor,      \* history: the pause the comparison was begun in
    heardFor,     \* history: the frames it is made of
    left          \* history: a pause ended and its episode did not

enrolVars == <<accum, gap, awaiting, submitted, enrolling, kept, reference, quiet>>
soundVars == <<evidence, dip, window, left>>
pauseVars == <<pausing, bystander, verifyDone, pauses, asked>>
checkVars == <<pending, verifying, current, asksFor, heardFor>>
gateVars == <<lock, closed, speaking, enrolVars, soundVars, pauseVars, checkVars>>

ThresholdsValid == -One <= Low /\ High <= One /\ Low < High

\* begin: thresholds that make no sense leave the session without a gate.
GateInit ==
    /\ lock \in BOOLEAN /\ (lock => ThresholdsValid)
    /\ closed = FALSE /\ speaking = FALSE
    /\ accum = 0 /\ gap = 0 /\ awaiting = FALSE /\ submitted = 0
    /\ enrolling = 0 /\ kept = 0 /\ reference = <<>> /\ quiet = 0
    /\ evidence = 0 /\ dip = 0 /\ window = 0 /\ left = FALSE
    /\ pausing = FALSE /\ bystander = FALSE /\ verifyDone = FALSE
    /\ pauses = 0 /\ asked = 0
    /\ pending = FALSE /\ verifying = FALSE /\ current = FALSE
    /\ asksFor = 0 /\ heardFor = 0

Larger(a, b) == IF a < b THEN b ELSE a

-----------------------------------------------------------------------------
(* Enrolment                                                                 *)

Enrolled == reference # <<>>

\* Neither enrolled nor about to be.
MayEnrol == lock /\ ~closed /\ ~speaking /\ ~Enrolled /\ enrolling = 0

Clean(rms) == VoiceLevel <= rms /\ rms < ClipLevel

\* updateEnrollment, of a frame of clean speech.
SpeechFrame(rms) ==
    /\ MayEnrol /\ Clean(rms) /\ ~awaiting
    /\ gap' = 0
    /\ IF accum + 1 < EnrollFrames
       THEN accum' = accum + 1 /\ UNCHANGED <<awaiting, submitted, enrolling, quiet>>
       ELSE /\ submitted < MaxSegments
            /\ accum' = 0 /\ awaiting' = TRUE /\ quiet' = 0
            /\ submitted' = submitted + 1 /\ enrolling' = submitted + 1
    /\ UNCHANGED <<lock, closed, speaking, kept, reference, soundVars, pauseVars, checkVars>>

\* A frame of silence: a long one ends the segment, and is the boundary that has
\* to be seen before the next.
SilentFrame(rms) ==
    /\ MayEnrol /\ ~Clean(rms)
    /\ quiet' = quiet + 1
    /\ IF gap + 1 < EnrollGap
       THEN gap' = gap + 1 /\ UNCHANGED <<accum, awaiting>>
       ELSE gap' = 0 /\ accum' = 0 /\ awaiting' = FALSE
    /\ UNCHANGED <<lock, closed, speaking, submitted, enrolling, kept, reference, soundVars,
                   pauseVars, checkVars>>

\* addSegment: two segments that agree are the reference; one that disagrees
\* takes the place of the earlier.
AddSegment(s, agrees) ==
    IF kept # 0 /\ agrees
    THEN reference' = <<kept, s>> /\ kept' = kept
    ELSE kept' = s /\ UNCHANGED reference

SegmentEmbedded(agrees) ==
    /\ enrolling # 0
    /\ enrolling' = 0
    /\ IF closed THEN UNCHANGED <<kept, reference>> ELSE AddSegment(enrolling, agrees)
    /\ UNCHANGED <<lock, closed, speaking, accum, gap, awaiting, submitted, quiet, soundVars,
                   pauseVars, checkVars>>

\* No embedding within timeoutMs, or one that is not an embedding.
SegmentFails ==
    /\ enrolling # 0
    /\ enrolling' = 0
    /\ UNCHANGED <<lock, closed, speaking, accum, gap, awaiting, submitted, kept, reference,
                   quiet, soundVars, pauseVars, checkVars>>

-----------------------------------------------------------------------------
(* Episodes and pauses                                                       *)

\* endSpeakerEpisode: what is under way is about something that is over.
EndSpeakerEpisode ==
    /\ pending' = FALSE /\ current' = FALSE
    /\ window' = 0 /\ left' = FALSE

NoEvidence == evidence' = 0 /\ dip' = 0

\* The end of onBargeIn: the interviewer is cut off.
CutOff == speaking' = FALSE /\ pausing' = FALSE /\ NoEvidence /\ EndSpeakerEpisode

\* beginTentativePause, unless the engine cannot pause or no turn was announced.
BeginTentativePause ==
    /\ pauses < MaxPauses
    /\ pausing' = TRUE /\ pauses' = pauses + 1
    /\ bystander' = FALSE /\ verifyDone' = FALSE /\ asked' = 0

\* resumeFromTentativePause
Resume ==
    /\ pausing' = FALSE
    /\ NoEvidence /\ EndSpeakerEpisode

-----------------------------------------------------------------------------
(* Evidence                                                                  *)

\* bargeThreshold, of the peak of the interviewer's recent sound and of the noise
\* heard in its silence, both windows of a fixed length.
Threshold(peak, noise) ==
    Larger(Larger(Floor, noise * NoiseFactor), EchoGain * peak)

\* Outside of a pause the threshold is raised while the interviewer has only just
\* begun, and lowered, though not below a voice, after an answer was judged
\* unfinished.
Adjusted(peak, noise, percent) ==
    LET level == (Threshold(peak, noise) * percent) \div 100
    IN  IF percent < 100 THEN Larger(level, VoiceLevel) ELSE level

\* captureBargeWindow: the oldest sound gives way.
Captured ==
    IF ~lock THEN 0
    ELSE IF window < VerifyWindow \/ window = 0 THEN window + 1 ELSE window

Hears == speaking /\ ~closed

\* Loud input outside of a pause.
LoudFrame(rms, peak, noise, percent, canPause) ==
    /\ Hears /\ ~pausing
    /\ rms >= Adjusted(peak, noise, percent)
    /\ IF evidence + 1 < Confirm
       THEN /\ evidence' = evidence + 1 /\ dip' = 0 /\ window' = Captured
            /\ UNCHANGED <<speaking, pausing, bystander, verifyDone, pauses, asked, pending,
                           current, left>>
       ELSE IF canPause
       THEN /\ BeginTentativePause
            /\ evidence' = evidence + 1 /\ dip' = 0 /\ window' = Captured
            /\ UNCHANGED <<speaking, pending, current, left>>
       ELSE CutOff /\ UNCHANGED <<bystander, verifyDone, pauses, asked>>
    /\ UNCHANGED <<lock, closed, enrolVars, verifying, asksFor, heardFor>>

\* maybeVerifySpeaker: whether this frame begins a comparison.
Asks ==
    /\ lock /\ Enrolled
    /\ ~verifyDone /\ ~bystander /\ ~pending /\ ~verifying
    /\ Captured >= MinVerify

\* Loud input during a pause: enough of it takes over.
LoudInPause(rms, peak, noise) ==
    /\ Hears /\ pausing
    /\ rms >= Threshold(peak, noise)
    /\ verifyDone' = (verifyDone \/ Asks) /\ verifying' = (verifying \/ Asks)
    /\ asked' = IF Asks THEN asked + 1 ELSE asked
    /\ asksFor' = IF Asks THEN pauses ELSE asksFor
    /\ heardFor' = IF Asks THEN Captured ELSE heardFor
    /\ IF ~bystander /\ evidence + 1 >= Takeover
       THEN CutOff
       ELSE /\ evidence' = evidence + 1 /\ dip' = 0 /\ window' = Captured
            /\ pending' = (pending \/ Asks) /\ current' = (current \/ Asks)
            /\ UNCHANGED <<speaking, pausing, left>>
    /\ UNCHANGED <<lock, closed, enrolVars, bystander, pauses>>

\* Weak input outside of a pause: for long enough, it was no interruption.
WeakFrame(rms, peak, noise, percent) ==
    /\ Hears /\ ~pausing
    /\ rms < Adjusted(peak, noise, percent)
    /\ IF dip + 1 < Hangover
       THEN dip' = dip + 1 /\ UNCHANGED <<evidence, window, left, pending, current>>
       ELSE /\ NoEvidence
            /\ IF lock /\ (window > 0 \/ pending)
               THEN EndSpeakerEpisode
               ELSE UNCHANGED <<window, left, pending, current>>
    /\ UNCHANGED <<lock, closed, speaking, enrolVars, pauseVars, verifying, asksFor, heardFor>>

\* During a pause the evidence leaks away.
WeakInPause(rms, peak, noise) ==
    /\ Hears /\ pausing
    /\ rms < Threshold(peak, noise)
    /\ evidence' = Larger(0, evidence - Decay)
    /\ UNCHANGED <<lock, closed, speaking, enrolVars, dip, window, left, pauseVars, checkVars>>

-----------------------------------------------------------------------------
(* The verdict                                                               *)

\* classifyVerdict
Verdict(cosine) ==
    IF cosine >= High THEN "TARGET"
    ELSE IF cosine <= Low THEN "NONTARGET"
    ELSE "UNCERTAIN"

Heeded == current /\ pausing

\* onSpeakerVerdict: the candidate takes over (and its sound is averaged into the
\* reference, which is then still of these segments), somebody else is resumed
\* over, and an uncertain voice is left to the evidence.
OnSpeakerVerdict(verdict) ==
    /\ verifying /\ ~closed
    /\ verifying' = FALSE
    /\ \/ /\ ~Heeded
          /\ UNCHANGED <<speaking, soundVars, pauseVars, pending, current>>
       \/ /\ Heeded /\ verdict = "TARGET" /\ speaking
          /\ CutOff
          /\ UNCHANGED <<bystander, verifyDone, pauses, asked>>
       \/ /\ Heeded /\ verdict = "TARGET" /\ ~speaking
          /\ pausing' = FALSE /\ pending' = FALSE /\ left' = TRUE
          /\ UNCHANGED <<speaking, evidence, dip, window, current, bystander, verifyDone,
                         pauses, asked>>
       \/ /\ Heeded /\ verdict = "NONTARGET"
          /\ bystander' = TRUE
          /\ Resume
          /\ UNCHANGED <<speaking, verifyDone, pauses, asked>>
       \/ /\ Heeded /\ verdict = "UNCERTAIN"
          /\ pending' = FALSE
          /\ UNCHANGED <<speaking, soundVars, pauseVars, current>>
    /\ UNCHANGED <<lock, closed, enrolVars, asksFor, heardFor>>

Compared(cosine) == OnSpeakerVerdict(Verdict(cosine))

\* A request that fails or takes longer than timeoutMs says nothing.
NotCompared == OnSpeakerVerdict("UNCERTAIN")

RecoveryElapsed ==
    /\ pausing /\ ~closed
    /\ Resume
    /\ UNCHANGED <<lock, closed, speaking, enrolVars, bystander, verifyDone, pauses, asked,
                   verifying, asksFor, heardFor>>

-----------------------------------------------------------------------------
(* The turns around it                                                       *)

\* The first audio of a turn of the interviewer.
AiSpeaks ==
    /\ ~speaking /\ ~closed
    /\ speaking' = TRUE
    /\ UNCHANGED <<lock, closed, enrolVars, soundVars, pauseVars, checkVars>>

\* markAiDonePlaying
AiDone ==
    /\ speaking
    /\ speaking' = FALSE
    /\ UNCHANGED <<lock, closed, enrolVars, soundVars, pauseVars, checkVars>>

\* An interruption the client asks for.
Interrupt ==
    /\ Hears
    /\ CutOff
    /\ UNCHANGED <<lock, closed, enrolVars, bystander, verifyDone, pauses, asked, verifying,
                   asksFor, heardFor>>

\* resetTurn, at the end of a turn of the user.
ResetTurn ==
    /\ ~closed
    /\ pausing' = FALSE
    /\ NoEvidence /\ EndSpeakerEpisode
    /\ UNCHANGED <<lock, closed, speaking, enrolVars, bystander, verifyDone, pauses, asked,
                   verifying, asksFor, heardFor>>

\* teardown disposes of the lock: an answer that comes later is dropped.
Teardown ==
    /\ ~closed
    /\ closed' = TRUE
    /\ UNCHANGED <<lock, speaking, enrolVars, soundVars, pauseVars, checkVars>>

-----------------------------------------------------------------------------
GateNext ==
    \/ \E rms \in Levels : SpeechFrame(rms) \/ SilentFrame(rms)
    \/ \E agrees \in BOOLEAN : SegmentEmbedded(agrees)
    \/ SegmentFails
    \/ \E rms, peak, noise \in Levels :
          \/ \E percent \in Adjustments :
                \/ \E canPause \in BOOLEAN : LoudFrame(rms, peak, noise, percent, canPause)
                \/ WeakFrame(rms, peak, noise, percent)
          \/ LoudInPause(rms, peak, noise)
          \/ WeakInPause(rms, peak, noise)
    \/ \E cosine \in -One..One : Compared(cosine)
    \/ NotCompared \/ RecoveryElapsed
    \/ AiSpeaks \/ AiDone \/ Interrupt \/ ResetTurn \/ Teardown

GateSpec == GateInit /\ [][GateNext]_gateVars

-----------------------------------------------------------------------------
(* Properties                                                                *)

GateTypeOK ==
    /\ lock \in BOOLEAN /\ closed \in BOOLEAN /\ speaking \in BOOLEAN /\ awaiting \in BOOLEAN
    /\ {accum, gap, submitted, enrolling, kept, quiet, evidence, dip, window, pauses, asked,
        asksFor, heardFor} \subseteq Nat
    /\ reference \in {<<>>} \cup ((1..submitted) \X (1..submitted))
    /\ pausing \in BOOLEAN /\ bystander \in BOOLEAN /\ verifyDone \in BOOLEAN
    /\ pending \in BOOLEAN /\ verifying \in BOOLEAN /\ current \in BOOLEAN /\ left \in BOOLEAN

\* Two segments are never one utterance cut in two: between them a boundary of
\* silence was observed, though not necessarily in one piece.
SegmentsLieApart == submitted > 0 /\ (accum > 0 \/ ~awaiting) => quiet >= EnrollGap

\* The reference is made of two different segments, and nothing is embedded for
\* it any more: the GPU is asked for one embedding at a time.
OneVoiceAtATime ==
    /\ Enrolled => reference[1] < reference[2] /\ enrolling = 0
    /\ verifying => Enrolled

\* A comparison is made once in a pause, of enough sound, and of the candidate's
\* voice or not at all.
PausesAreCheckedOnce ==
    /\ asked <= 1 /\ (asked = 1 <=> verifyDone)
    /\ verifying => heardFor >= MinVerify /\ asksFor > 0

\* A comparison that would still be heeded was begun in the pause that it would
\* decide, not in an earlier one.
VerdictIsOfThisPause ==
    verifying /\ Heeded => asksFor = pauses /\ verifyDone

\* Nobody is shut out of a pause: who was taken for somebody else is resumed over
\* at once, and the next pause begins without a judgement.
NobodyIsShutOut == pausing => ~bystander

\* The sound that is compared belongs to the evidence of this interruption,
\* unless a pause was taken over when the interviewer had already ended.
SoundIsOfThisBurst == window > 0 /\ ~pausing /\ ~left => evidence > 0

\* However the thresholds are set, a gate that is there lets the very voice of
\* the reference pass.
OwnVoicePasses == lock => Verdict(One) = "TARGET"

=============================================================================
