---------------------------- MODULE Transcripts ----------------------------
(***************************************************************************)
(* What was said, as the client is shown it and the evaluator reads it:    *)
(* the part of bridge/src/media-session.ts that hands lines on,             *)
(* transcript-store.ts, and the two calls on the side about a candidate's   *)
(* line, transcript-fixer.ts and eou-verdict.ts.                            *)
(*                                                                         *)
(* A line is stored and shown as it was recognised.  Nobody waits for the   *)
(* calls about it: one may correct it, the other may find that it was not   *)
(* finished, and then the candidate's voice interrupts the interviewer more *)
(* easily for a while.  Both may come back when the interview has moved on, *)
(* and the writes to the store pass each other.                             *)
(*                                                                         *)
(* A text is whether it is blank, and whether it was corrected.  The engine *)
(* that hears and speaks, the pauses and the session's end are inputs here. *)
(***************************************************************************)
EXTENDS Integers, FiniteSets

CONSTANTS HasTable,                \* the store has a table
          FixerOn, EouOn,          \* the calls are configured, with model and credentials
          CorrelationMs, LoweredMs,\* EOU_CORRELATION_MS, EOU_SUB_THRESHOLD_WINDOW_MS
          MaxLines, MaxTime        \* bounds

VARIABLES
    now, over,       \* Date.now(); closed, and fixerAbort aborted
    cursor,          \* the engine's question, -1 if it has none
    sounding,        \* aiSpeaking
    halted,          \* tentativePausing
    guarded,         \* violationNoticeGuard
    transcriptSeq,
    said,            \* history: the lines, as they were handed over
    shown,           \* the frames the client was sent
    puts,            \* writes under way
    rows,            \* what is stored, one row per moment
    fixing,          \* the lines that are being corrected
    fixerInFlight,
    judging,         \* the lines that are being judged, each with its fireCursor
    eouInFlight,
    untilMs,         \* eouIncompleteUntilMs
    forCursor,       \* eouIncompleteCursor
    verdict          \* history: the call that lowered the bar last

aboutVars == <<now, over, cursor, sounding, halted, guarded>>
lineVars == <<transcriptSeq, said, shown>>
storeVars == <<puts, rows>>
fixVars == <<fixing, fixerInFlight>>
judgeVars == <<judging, eouInFlight>>
barVars == <<untilMs, forCursor, verdict>>
transcriptVars == <<aboutVars, lineVars, storeVars, fixVars, judgeVars, barVars>>

NoQuestion == -1

\* Two lines of one moment are told apart by their numbers.
Lines == [seq : Nat, by : {"user", "ai"}, at : Nat, question : Nat \cup {NoQuestion},
          quiet : BOOLEAN, blank : BOOLEAN]
Frames == [seq : Nat, fixed : BOOLEAN]
Calls == [line : Lines, fireCursor : Nat \cup {-1}]
RowWrites == [seq : Nat, by : {"user", "ai"}, at : Nat, question : Nat \cup {NoQuestion},
              fixed : BOOLEAN]

\* FIXER_MAX_INFLIGHT
FixerMaxInFlight == 4

TranscriptInit ==
    /\ now = 1 /\ over = FALSE /\ cursor \in {-1, 0}
    /\ sounding = FALSE /\ halted = FALSE /\ guarded = FALSE
    /\ transcriptSeq = 0 /\ said = {} /\ shown = {} /\ puts = {} /\ rows = {}
    /\ fixing = {} /\ fixerInFlight = 0 /\ judging = {} /\ eouInFlight = 0
    /\ untilMs = 0 /\ forCursor = -1 /\ verdict = {}

-----------------------------------------------------------------------------
(* Lines                                                                     *)

\* emitTransport: nothing is sent once the session is closed.
Emit(seq, fixed) ==
    shown' = IF over THEN shown ELSE shown \cup {[seq |-> seq, fixed |-> fixed]}

\* putFinal: a blank text is no row.
PutFinal(l, fixed) ==
    puts' = IF HasTable /\ ~l.blank
            THEN puts \cup {[seq |-> l.seq, by |-> l.by, at |-> l.at,
                             question |-> l.question, fixed |-> fixed]}
            ELSE puts

\* The question is the one the engine had when the line came to be.
Line(by, q, blank) ==
    [seq |-> transcriptSeq, by |-> by, at |-> now, question |-> q,
     quiet |-> by = "user" /\ guarded, blank |-> blank]

\* maybeCorrectTranscript and maybeJudgeEou, up to the calls: a line too many is
\* left as it is.
MayCorrect(l) ==
    FixerOn /\ ~l.quiet /\ ~l.blank /\ fixerInFlight < FixerMaxInFlight
MayJudge(l) == EouOn /\ ~l.blank /\ eouInFlight < FixerMaxInFlight

Correct(l) ==
    IF MayCorrect(l)
    THEN fixing' = fixing \cup {l} /\ fixerInFlight' = fixerInFlight + 1
    ELSE UNCHANGED fixVars

Judge(l) ==
    IF MayJudge(l)
    THEN /\ judging' = judging \cup {[line |-> l, fireCursor |-> cursor]}
         /\ eouInFlight' = eouInFlight + 1
    ELSE UNCHANGED judgeVars

\* onTranscript, of a final one.  While a notice of the interviewer is not to be
\* cut short, the line is stored and judged, but not shown, and so not corrected.
\* What the line says of the input turn and of the candidate's conduct is left to
\* SpeechInput and Conduct.
UserFinal(q, blank) ==
    /\ transcriptSeq < MaxLines
    /\ LET l == Line("user", q, blank)
       IN  /\ said' = said \cup {l}
           /\ PutFinal(l, FALSE) /\ Correct(l) /\ Judge(l)
           /\ IF guarded THEN UNCHANGED shown ELSE Emit(l.seq, FALSE)
    /\ transcriptSeq' = transcriptSeq + 1
    /\ UNCHANGED <<aboutVars, rows, barVars>>

\* onLlmText: the interviewer's line is what the model wrote.
AiLine(q, blank) ==
    /\ transcriptSeq < MaxLines
    /\ LET l == Line("ai", q, blank)
       IN  /\ said' = said \cup {l}
           /\ PutFinal(l, FALSE) /\ Emit(l.seq, FALSE)
    /\ transcriptSeq' = transcriptSeq + 1
    /\ UNCHANGED <<aboutVars, rows, fixVars, judgeVars, barVars>>

\* The table has one row per moment, the last one written.  Of a write that failed
\* it is not known whether it was done.
PutSettles(p, landed) ==
    /\ p \in puts
    /\ puts' = puts \ {p}
    /\ rows' = IF landed THEN {r \in rows : r.at # p.at} \cup {p} ELSE rows
    /\ UNCHANGED <<aboutVars, lineVars, fixVars, judgeVars, barVars>>

-----------------------------------------------------------------------------
(* The calls on the side                                                     *)

\* How a call ends: with an answer that is heeded, one that is not, no answer in time
\* or at all, or with the session.
Outcomes == {"sound", "unsound", "failed", "timeout", "aborted"}

\* correctTranscript: what is not a sound answer leaves the line as it is.
Corrected(outcome, differs) == outcome = "sound" /\ differs

FixReturns(l, outcome, differs) ==
    /\ l \in fixing
    /\ fixing' = fixing \ {l} /\ fixerInFlight' = fixerInFlight - 1
    /\ IF ~over /\ Corrected(outcome, differs)
       THEN Emit(l.seq, TRUE) /\ PutFinal(l, TRUE)
       ELSE UNCHANGED <<shown, puts>>
    /\ UNCHANGED <<aboutVars, transcriptSeq, said, rows, judgeVars, barVars>>

\* judgeEou: what cannot be judged is taken for finished.
Incomplete(outcome, unfinished) == outcome = "sound" /\ unfinished

\* The interviewer speaks, still of the same question, the candidate does not
\* interrupt already, and the line is not long ago.
Heeded(j) ==
    /\ ~over
    /\ now - j.line.at <= CorrelationMs
    /\ j.fireCursor < 0 \/ cursor = j.fireCursor
    /\ sounding /\ ~halted

JudgeReturns(j, outcome, unfinished) ==
    /\ j \in judging
    /\ judging' = judging \ {j} /\ eouInFlight' = eouInFlight - 1
    /\ IF Heeded(j) /\ Incomplete(outcome, unfinished)
       THEN untilMs' = now + LoweredMs /\ forCursor' = j.fireCursor /\ verdict' = {j}
       ELSE UNCHANGED barVars
    /\ UNCHANGED <<aboutVars, lineVars, storeVars, fixVars>>

\* inEouCorrection, as detectBargeIn asks it of every frame.
Lowered ==
    /\ EouOn /\ ~halted /\ untilMs > 0 /\ now < untilMs
    /\ forCursor < 0 \/ cursor = forCursor

-----------------------------------------------------------------------------
(* What happens around them                                                  *)

Clock ==
    /\ now < MaxTime /\ now' = now + 1
    /\ UNCHANGED <<over, cursor, sounding, halted, guarded, lineVars, storeVars, fixVars,
                   judgeVars, barVars>>

\* The engine is at its next question, if it has questions.
CursorMoves ==
    /\ cursor >= 0 /\ cursor < MaxLines /\ cursor' = cursor + 1
    /\ UNCHANGED <<now, over, sounding, halted, guarded, lineVars, storeVars, fixVars,
                   judgeVars, barVars>>

\* The interviewer begins, pauses, ends, or begins a notice.
VoiceChanges ==
    /\ \E s, h, g \in BOOLEAN : sounding' = s /\ halted' = h /\ guarded' = g
    /\ UNCHANGED <<now, over, cursor, lineVars, storeVars, fixVars, judgeVars, barVars>>

\* resetTurn
ResetTurn ==
    /\ halted' = FALSE /\ untilMs' = 0 /\ forCursor' = -1
    /\ UNCHANGED <<now, over, cursor, sounding, guarded, lineVars, storeVars, fixVars,
                   judgeVars, verdict>>

Teardown ==
    /\ ~over /\ over' = TRUE
    /\ UNCHANGED <<now, cursor, sounding, halted, guarded, lineVars, storeVars, fixVars,
                   judgeVars, barVars>>

TranscriptNext ==
    \/ \E q \in {NoQuestion} \cup 0..cursor, blank \in BOOLEAN :
          UserFinal(q, blank) \/ AiLine(q, blank)
    \/ \E p \in puts, landed \in BOOLEAN : PutSettles(p, landed)
    \/ \E l \in fixing, outcome \in Outcomes, differs \in BOOLEAN :
          FixReturns(l, outcome, differs)
    \/ \E j \in judging, outcome \in Outcomes, unfinished \in BOOLEAN :
          JudgeReturns(j, outcome, unfinished)
    \/ Clock \/ CursorMoves \/ VoiceChanges \/ ResetTurn \/ Teardown

TranscriptSpec == TranscriptInit /\ [][TranscriptNext]_transcriptVars

-----------------------------------------------------------------------------
(* Properties                                                                *)

TranscriptTypeOK ==
    /\ now \in Nat /\ over \in BOOLEAN /\ cursor \in Nat \cup {-1}
    /\ sounding \in BOOLEAN /\ halted \in BOOLEAN /\ guarded \in BOOLEAN
    /\ transcriptSeq \in Nat /\ said \subseteq Lines /\ shown \subseteq Frames
    /\ puts \subseteq RowWrites /\ rows \subseteq RowWrites
    /\ fixing \subseteq Lines /\ judging \cup verdict \subseteq Calls
    /\ untilMs \in Int /\ forCursor \in Nat \cup {-1}

\* A row has the moment, the speaker and the question of the line it is of,
\* however late it was corrected and wherever the interview is by then.
RowsAreLines ==
    \A r \in rows : \E l \in said : /\ l.seq = r.seq /\ l.by = r.by
                                    /\ l.at = r.at /\ l.question = r.question

\* Read by their moments, the rows are in the order in which they were said, and there
\* are no two of one moment.
RowsKeepTheOrder ==
    \A r, s \in rows : /\ r.seq < s.seq => r.at < s.at
                       /\ r.seq = s.seq => r = s

\* Only what the candidate said and was shown is ever shown or stored as something
\* else, and it is stored like that only if it was shown like that.
CorrectionsAreSeen ==
    /\ \A r \in rows \cup puts : r.fixed => [seq |-> r.seq, fixed |-> TRUE] \in shown
    /\ \A f \in shown : f.fixed => /\ [seq |-> f.seq, fixed |-> FALSE] \in shown
                                   /\ \E l \in said : l.seq = f.seq /\ l.by = "user" /\ ~l.quiet

\* The counters that keep a candidate who speaks fast from piling up calls count the
\* calls under way, which are at most four of each kind.
CallsAreCounted ==
    /\ fixerInFlight = Cardinality(fixing) /\ fixerInFlight <= FixerMaxInFlight
    /\ eouInFlight = Cardinality(judging) /\ eouInFlight <= FixerMaxInFlight

\* It is easier to interrupt the interviewer only for a while after a line that was
\* not finished, and only as long as the question is the one it was about.
LoweringIsTimely ==
    Lowered => \E j \in verdict : /\ now < j.line.at + CorrelationMs + LoweredMs
                                  /\ j.fireCursor < 0 \/ cursor = j.fireCursor

\* After the end nothing is shown or corrected, and the bar is not lowered, whatever
\* calls come back.
OverIsQuiet ==
    [][over => /\ shown' = shown
               /\ \A p \in puts' \ puts : ~p.fixed
               /\ untilMs' # untilMs => untilMs' = 0]_transcriptVars

=============================================================================
