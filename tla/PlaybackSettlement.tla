-------------------------- MODULE PlaybackSettlement --------------------------
(***************************************************************************)
(* The settlement of AI turns whose audio a client plays                   *)
(* (bridge/src/playback-settlement.ts), with the media session that drives *)
(* it: the engine starts and ends the audio of a turn once, the client     *)
(* acknowledges what it likes, when it likes, as often as it likes.        *)
(*                                                                         *)
(* The coordinator sets no timer.  Its header leaves the deadlines, the    *)
(* grace of a user who speaks and barge-in to calls of the media session;  *)
(* the media session of this commit makes none of them (Driven = FALSE).   *)
(* The safety of the coordinator is proved for either kind of caller.      *)
(***************************************************************************)
EXTENDS Integers

CONSTANTS
    Turns,        \* the AI turns of one connection
    Grace,        \* graceMs
    MaxWait,      \* maxWaitMs
    InputGrace,   \* inputGraceMs
    MaxLead,      \* maxPlaybackLeadMs: a legal estimate lies at most this far
    Driven,       \* whether somebody calls what the header leaves to a caller
    MaxClock      \* bound: the last instant modelled

\* loadAckTimeoutConfig refuses a configuration outside these relations.
TimeoutConfig ==
    /\ {Grace, MaxWait, InputGrace, MaxLead, MaxClock} \subseteq Nat
    /\ MaxWait >= MaxLead + Grace
    /\ MaxClock >= MaxWait
    /\ Driven \in BOOLEAN

VARIABLES
    turns,        \* the tracked turns: phase, endAt, estimatedEnd, deadline
    settledOnce,  \* outcome of each settled turn
    inputAt,      \* inputGraceStartMs: first user input while awaiting
    settlements,  \* observer: what onSettle was given, and when
    now

vars == <<turns, settledOnce, inputAt, settlements, now>>

-------------------------------------------------------------------------------

None == "none"
Never == -1
Pending == {"streaming", "awaiting_ack"}
Outcomes == {"complete", "aborted", "timed_out"}
Fallbacks == {"estimated_complete", "user_takeover_abort"}

Instants == 0..MaxClock
\* Turns end early enough for their hard limit to lie in the bound.
Horizon == MaxClock - MaxWait
Estimates == 0..(MaxClock + MaxLead)

Untracked == [phase |-> None, endAt |-> Never, estimatedEnd |-> Never,
              deadline |-> Never]
Unsettled == [count |-> 0, fallback |-> None, at |-> Never, endAt |-> Never,
              estimatedEnd |-> Never, inputAt |-> Never]

SmallerOf(a, b) == IF a < b THEN a ELSE b
LargerOf(a, b) == IF a > b THEN a ELSE b

\* endTurn: the estimate plus grace, but never beyond the hard limit.
Deadline(estimatedEnd) ==
    SmallerOf(LargerOf(now, estimatedEnd) + Grace, now + MaxWait)

PhaseOf(t) == IF turns[t] # Untracked THEN turns[t].phase ELSE settledOnce[t]

\* finish, of a set of turns: each not yet settled is settled, handed to
\* onSettle and forgotten.
Finish(ts, outcome, fallback) ==
    LET fresh == {t \in ts : settledOnce[t] = None}
    IN /\ settledOnce' = [t \in Turns |-> IF t \in fresh THEN outcome
                                          ELSE settledOnce[t]]
       /\ settlements' =
            [t \in Turns |->
                IF t \in fresh
                THEN [count |-> settlements[t].count + 1,
                      fallback |-> fallback,
                      at |-> now,
                      endAt |-> turns[t].endAt,
                      estimatedEnd |-> turns[t].estimatedEnd,
                      inputAt |-> inputAt[t]]
                ELSE settlements[t]]
       /\ turns' = [t \in Turns |->
                       IF t \in fresh THEN Untracked
                       ELSE IF t \in ts THEN [turns[t] EXCEPT !.phase = outcome]
                       ELSE turns[t]]
       /\ inputAt' = [t \in Turns |-> IF t \in ts THEN Never ELSE inputAt[t]]

-------------------------------------------------------------------------------

Init ==
    /\ turns = [t \in Turns |-> Untracked]
    /\ settledOnce = [t \in Turns |-> None]
    /\ inputAt = [t \in Turns |-> Never]
    /\ settlements = [t \in Turns |-> Unsettled]
    /\ now = 0

\* ai_audio_start: the engine starts the audio of a turn at most once.
BeginTurn(t) ==
    /\ turns[t] = Untracked
    /\ settledOnce[t] = None
    /\ turns' = [turns EXCEPT ![t].phase = "streaming"]
    /\ UNCHANGED <<settledOnce, inputAt, settlements, now>>

\* ai_audio_end, with the estimated end of the client's playback.
EndTurn(t, estimatedEnd) ==
    /\ turns[t].phase = "streaming"
    /\ now <= Horizon
    /\ turns' = [turns EXCEPT ![t] = [phase |-> "awaiting_ack",
                                      endAt |-> now,
                                      estimatedEnd |-> estimatedEnd,
                                      deadline |-> Deadline(estimatedEnd)]]
    /\ UNCHANGED <<settledOnce, inputAt, settlements, now>>

\* playback_complete or playback_aborted: only a tracked, unsettled turn is
\* settled; duplicates, late and unknown ones leave a metric.
OnAck(t, kind) ==
    /\ turns[t].phase \in Pending
    /\ Finish({t}, kind, None)
    /\ UNCHANGED now

\* A barge-in of the client proves that it stopped playing.
OnUplinkBargeIn(t) ==
    /\ Driven
    /\ turns[t].phase \in Pending
    /\ Finish({t}, "aborted", None)
    /\ UNCHANGED now

NoteUserInputDuringAwait(t) ==
    /\ Driven
    /\ turns[t].phase = "awaiting_ack"
    /\ inputAt[t] = Never
    /\ inputAt' = [inputAt EXCEPT ![t] = now]
    /\ UNCHANGED <<turns, settledOnce, settlements, now>>

Due == {t \in Turns : /\ turns[t].phase = "awaiting_ack"
                      /\ turns[t].deadline > 0
                      /\ now >= turns[t].deadline}

CheckTimeouts ==
    /\ Driven
    /\ Due # {}
    /\ Finish(Due, "timed_out", "estimated_complete")
    /\ UNCHANGED now

GraceOver == {t \in Turns : /\ turns[t].phase = "awaiting_ack"
                            /\ inputAt[t] # Never
                            /\ now - inputAt[t] >= InputGrace}

CheckInputGrace ==
    /\ Driven
    /\ GraceOver # {}
    /\ Finish(GraceOver, "timed_out", "user_takeover_abort")
    /\ UNCHANGED now

\* Time passes.
Advance ==
    /\ now < MaxClock
    /\ now' = now + 1
    /\ UNCHANGED <<turns, settledOnce, inputAt, settlements>>

-------------------------------------------------------------------------------

Next ==
    \/ \E t \in Turns : BeginTurn(t)
    \/ \E t \in Turns, e \in Estimates : EndTurn(t, e)
    \/ \E t \in Turns, kind \in {"complete", "aborted"} : OnAck(t, kind)
    \/ \E t \in Turns : OnUplinkBargeIn(t)
    \/ \E t \in Turns : NoteUserInputDuringAwait(t)
    \/ CheckTimeouts
    \/ CheckInputGrace
    \/ Advance

Spec == Init /\ [][Next]_vars

\* MediaSession makes the coordinator without a tick: all that is sure to go on
\* is the time.
Fairness == WF_vars(Advance)

FairSpec == Spec /\ Fairness

-------------------------------------------------------------------------------

Tracked == [phase : {"streaming"}, endAt : {Never}, estimatedEnd : {Never},
            deadline : {Never}]
           \cup [phase : {"awaiting_ack"}, endAt : Instants,
                 estimatedEnd : Estimates, deadline : Nat]

\* Every variable keeps its type.
TypeOK ==
    /\ turns \in [Turns -> Tracked \cup {Untracked}]
    /\ settledOnce \in [Turns -> Outcomes \cup {None}]
    /\ inputAt \in [Turns -> Instants \cup {Never}]
    /\ settlements \in
          [Turns -> [count : Nat,
                     fallback : Fallbacks \cup {None},
                     at : Instants \cup {Never},
                     endAt : Instants \cup {Never},
                     estimatedEnd : Estimates \cup {Never},
                     inputAt : Instants \cup {Never}]]
    /\ now \in Instants

\* However acknowledgements, barge-ins and deadlines race, a turn is handed to
\* onSettle at most once, and exactly when its outcome is recorded.
SettledOnceEach ==
    \A t \in Turns :
        settlements[t].count = IF settledOnce[t] = None THEN 0 ELSE 1

\* The outcome of a turn is monotone: late and repeated acknowledgements do
\* not change it (duplicate and stale in onAck).
OutcomeIsFinal ==
    [][\A t \in Turns : PhaseOf(t) \in Outcomes => PhaseOf(t)' = PhaseOf(t)]_vars

\* The hard limit never cuts a legal playback short: a turn whose estimate lies
\* within the maximal lead is not taken for played before estimate plus grace.
NoEarlyTimeout ==
    \A t \in Turns :
        LET s == settlements[t]
        IN  (s.fallback = "estimated_complete" /\ s.estimatedEnd <= s.endAt + MaxLead)
                => s.at >= s.estimatedEnd + Grace

\* The user takes a turn over only after having spoken while it awaited its
\* acknowledgement, and after the client had the whole grace to answer.
TakeoverAfterGrace ==
    \A t \in Turns :
        LET s == settlements[t]
        IN  s.fallback = "user_takeover_abort" =>
                /\ s.inputAt # Never
                /\ s.inputAt >= s.endAt
                /\ s.at >= s.inputAt + InputGrace

\* "A client that sends no ACK must not hold the conversation up for ever", the
\* promise of checkTimeouts: whatever awaits its acknowledgement is settled.
EndedTurnsSettle ==
    \A t \in Turns :
        turns[t].phase = "awaiting_ack" ~> PhaseOf(t) \in Outcomes

===============================================================================
