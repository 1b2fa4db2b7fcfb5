---------------------------- MODULE ClientPlayback ----------------------------
(***************************************************************************)
(* What the candidate's browser does with the audio of the interviewer:    *)
(* the player in the audio thread (frontend/public/pcm-playback-worklet.js)*)
(* with its ring of samples and its ledger of turns, the pause controller  *)
(* and the tracker of acknowledgements of the page                         *)
(* (frontend/src/lib/playback-pause.ts, playback-ack.ts), and the handlers *)
(* of the exam view that call them (frontend/src/views/Exam.tsx).          *)
(*                                                                         *)
(* Audio counts in chunks: a chunk is what one frame of the server carries *)
(* and is heard or not heard as a whole.  The page hands every message to  *)
(* the audio thread in order and keeps the same pause identity, so the two *)
(* take a message in one step here.                                        *)
(***************************************************************************)
EXTENDS Integers, Sequences

CONSTANTS
    MaxTurns,   \* bound: the AI turns of one connection
    Preroll,    \* chunks the player waits for before its first sound
    Capacity    \* chunks the ring holds: RING_MAX_SAMPLES

ASSUME PlayerBounds ==
    /\ {MaxTurns, Preroll, Capacity} \subseteq Nat \ {0}
    /\ Capacity >= Preroll

VARIABLES
    control,    \* the turn that may be paused, its pause, the last pause taken
    ring,       \* the turns of the chunks not yet played
    written,    \* chunks ever written to the ring
    ledger,     \* the open segments: one for each turn being played, a set
    shut,       \* the tombstone: chunks are refused until a turn starts
    started,    \* the player is past its preroll
    reported,   \* what was acknowledged of each turn
    heard       \* observer: chunks of each turn that were made sound

clientVars == <<control, ring, written, ledger, shut, started, reported,
                heard>>

-------------------------------------------------------------------------------

AiTurns == 1..MaxTurns
Nil == 0
Open == -1

NoControl == [turn |-> Nil, pause |-> Nil, last |-> Nil]
Segment(t) == [turn |-> t, first |-> written, end |-> Open,
               rendered |-> FALSE, tainted |-> FALSE]

ClientInit ==
    /\ control = NoControl
    /\ ring = <<>>
    /\ written = 0
    /\ ledger = {}
    /\ shut = FALSE
    /\ started = FALSE
    /\ reported = [t \in AiTurns |-> "no"]
    /\ heard = [t \in AiTurns |-> 0]

Frozen == control.pause # Nil

\* Where a chunk stands that is at the head of the given ring.
Position(chunks, total) == total - Len(chunks)

\* Mutant of Outcome: what was dropped from the ring is not remembered.
OutcomeUntainted(s) == IF s.rendered THEN "played" ELSE "aborted"

\* A segment of which samples were dropped, or none was made sound, was not
\* played.
Outcome(s) == IF s.rendered /\ ~s.tainted THEN "played" ELSE "aborted"

\* A segment is acknowledged once, when not before: as what it is, or as aborted
\* when it is cut short.
Report(segs, cut) ==
    reported' = [t \in AiTurns |->
                    IF reported[t] # "no" \/ ~(\E s \in segs : s.turn = t)
                    THEN reported[t]
                    ELSE IF cut THEN "aborted"
                    ELSE Outcome(CHOOSE s \in segs : s.turn = t)]

\* The end of a closed segment is reached.  (The code has a second way, for a
\* last sample that cannot be interpolated: less than a chunk.)
IsOver(s, at) == s.end # Open /\ at >= s.end

CheckCompletions(segs, at) ==
    LET over == {s \in segs : IsOver(s, at)}
    IN Report(over, FALSE) /\ ledger' = segs \ over

-------------------------------------------------------------------------------
(* What the server sends.                                                  *)

\* ai_audio_start: a later turn may be paused, and has a segment.
AudioStart(t) ==
    /\ control' = IF t > control.turn
                  THEN [NoControl EXCEPT !.turn = t] ELSE control
    /\ shut' = FALSE
    /\ ledger' = IF \E s \in ledger : s.turn = t THEN ledger
                 ELSE ledger \cup {Segment(t)}
    /\ UNCHANGED <<ring, written, started, reported, heard>>

\* Mutant of IsShort: a segment waits for its preroll, ended or not.
IsShortNever(s) == FALSE

IsShort(s) == written - s.first < Preroll

\* ai_audio_end: the turn can no longer be paused, a pause of it is over.
\* Its segment is closed, and may be complete at once.  One shorter than
\* the preroll is played all the same.
Closed(s) == [s EXCEPT !.end = written]
AudioEnd(t) ==
    /\ control' = IF t = control.turn THEN NoControl ELSE control
    /\ CheckCompletions({IF s.turn = t THEN Closed(s) ELSE s : s \in ledger},
                        Position(ring, written))
    /\ started' = (started \/ \E s \in ledger : s.turn = t /\ IsShort(s))
    /\ UNCHANGED <<ring, written, shut, heard>>

Taken(t, p) ==
    /\ control.turn = t
    /\ control.pause = Nil
    /\ p > control.last

\* pause: of the turn being played, later than those taken.
PauseTurn(t, p) ==
    /\ control' = IF Taken(t, p)
                  THEN [control EXCEPT !.pause = p, !.last = p] ELSE control
    /\ UNCHANGED <<ring, written, ledger, shut, started, reported,
                   heard>>

\* resume: of the pause that holds the player.
ResumeTurn(t, p) ==
    /\ control' = IF control.turn = t /\ control.pause = p
                  THEN [control EXCEPT !.pause = Nil] ELSE control
    /\ UNCHANGED <<ring, written, ledger, shut, started, reported,
                   heard>>

\* The oldest chunk is dropped; the open segments it belongs to are marked.
Tainted(s, at) ==
    [s EXCEPT !.tainted = @ \/ (s.first <= at /\ (s.end = Open \/ at < s.end))]

DropOldest(chunks) ==
    LET at == Position(chunks, written + 1)
    IN /\ ring' = Tail(chunks)
       /\ CheckCompletions({Tainted(s, at) : s \in ledger}, at + 1)

\* A chunk of turn t.
Push(t) ==
    /\ IF shut
       THEN UNCHANGED <<ring, written, ledger, reported>>
       ELSE /\ written' = written + 1
            /\ IF Len(ring) < Capacity
               THEN /\ ring' = Append(ring, t)
                    /\ UNCHANGED <<ledger, reported>>
               ELSE DropOldest(Append(ring, t))
    /\ UNCHANGED <<control, shut, started, heard>>

\* Mutant of Flush: chunks under way are let in again.
FlushOpen ==
    /\ Report(ledger, TRUE)
    /\ ledger' = {}
    /\ ring' = <<>>
    /\ shut' = FALSE
    /\ control' = NoControl
    /\ started' = FALSE
    /\ UNCHANGED <<written, heard>>

\* stopPlayback: everything not yet played is thrown away, what was open is
\* acknowledged as aborted, and chunks of it still under way are refused.
Flush ==
    /\ Report(ledger, TRUE)
    /\ ledger' = {}
    /\ ring' = <<>>
    /\ shut' = (shut \/ ledger # {})
    /\ control' = NoControl
    /\ started' = FALSE
    /\ UNCHANGED <<written, heard>>

\* A frame of the server: barge_in and playback_superseded both flush.
Receive(m) ==
    \/ m.kind = "start" /\ AudioStart(m.turn)
    \/ m.kind = "audio" /\ Push(m.turn)
    \/ m.kind = "end" /\ AudioEnd(m.turn)
    \/ m.kind = "pause" /\ PauseTurn(m.turn, m.pause)
    \/ m.kind = "resume" /\ ResumeTurn(m.turn, m.pause)
    \/ m.kind \in {"barge_in", "superseded"} /\ Flush

-------------------------------------------------------------------------------
(* The audio thread.                                                       *)

\* process: a chunk is made sound, unless a pause or the preroll holds it.
\* Every open segment counts as rendered then.
Render ==
    /\ ~Frozen
    /\ started \/ Len(ring) >= Preroll
    /\ ring # <<>>
    /\ started' = TRUE
    /\ ring' = Tail(ring)
    /\ heard' = [heard EXCEPT ![Head(ring)] = @ + 1]
    /\ CheckCompletions({[s EXCEPT !.rendered = TRUE] : s \in ledger},
                        Position(ring, written) + 1)
    /\ UNCHANGED <<control, written, shut>>

-------------------------------------------------------------------------------

Segments == [turn : AiTurns, first : Nat, end : Nat \cup {Open},
             rendered : BOOLEAN, tainted : BOOLEAN]

ClientTypeOK ==
    /\ control \in [turn : AiTurns \cup {Nil}, pause : Nat, last : Nat]
    /\ ring \in Seq(AiTurns) /\ Len(ring) <= Capacity
    /\ written \in Nat
    /\ ledger \subseteq Segments
    /\ shut \in BOOLEAN /\ started \in BOOLEAN
    /\ reported \in [AiTurns -> {"no", "played", "aborted"}]
    /\ heard \in [AiTurns -> Nat]
===============================================================================
