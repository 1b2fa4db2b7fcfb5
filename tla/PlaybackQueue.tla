---------------------------- MODULE PlaybackQueue ----------------------------
(***************************************************************************)
(* The playback core of the browser, frontend/src/lib/playback-resampler.ts,*)
(* of which the audio worklet keeps a copy: 16 kHz frames go into a queue of *)
(* chunks, the device pulls at its own rate and reads between two samples at *)
(* a time, and a ledger of turns decides what is reported as played.         *)
(*                                                                         *)
(* A sample is its position in all that was ever written, a chunk the range *)
(* of positions it holds; what the samples sound like (the interpolation,   *)
(* the fade, the low-pass filter) is left out.  The phase is counted in     *)
(* OutRate-ths of a sample.  The code's loops over the ledger that report   *)
(* are taken turn by turn ("check", "flush"): nothing comes between, every  *)
(* other action waits until the handler is through ("idle").                *)
(*                                                                         *)
(* told, sounded and lost are history: what was reported, and the samples   *)
(* the read position passed while sounding and those an overflow discarded. *)
(***************************************************************************)
EXTENDS Integers, Sequences, FiniteSets

CONSTANTS InRate,       \* INPUT_RATE
          OutRate,      \* the rate of the device
          Capacity,     \* RING_MAX_SAMPLES
          LedgerMax,    \* LEDGER_MAX
          FinalizedMax, \* FINALIZED_MAX
          Turns,        \* the numbers the engine gives its turns
          MaxFrame,     \* bound: the samples of one frame
          Quantum,      \* bound: the samples the device asks for at once
          MaxWritten,   \* bound: the samples ever written
          MaxTold       \* bound: the turns ever begun

VARIABLES chunks,       \* ChunkQueue.chunks
          readIdx,      \* ChunkQueue.readIdx
          phase,        \* ChunkQueue.frac
          queued,       \* ChunkQueue.queued
          writeAbs, generation, ledger, tombstone, finalized,
          handler,      \* what the handler that runs is doing
          turnAt,           \* the turn of the ledger it has come to
          told, sounded, lost

sampleQueue == <<chunks, readIdx, phase, queued>>
playerVars == <<sampleQueue, writeAbs, generation, ledger, tombstone, finalized,
                handler, turnAt, told, sounded, lost>>

Unsealed == -1
Eps == 1                                          \* EPS_SAMPLES

Chunks == [from : Nat, to : Nat]
Segs == [generation : Nat, seq : Turns, startAbs : Nat, endAbs : Nat \cup {Unsealed},
         tainted : BOOLEAN, taintedSamples : Nat, rendered : BOOLEAN]
Terminals == [generation : Nat, seq : Turns, outcome : {"played", "aborted"},
              position : Nat, startAbs : Nat, endAbs : Nat]

QueueTypeOK ==
    /\ chunks \in Seq(Chunks) /\ readIdx \in Nat /\ queued \in Nat
    /\ phase \in 0..(OutRate - 1)
    /\ writeAbs \in Nat /\ generation \in Nat /\ tombstone \in BOOLEAN
    /\ ledger \in Seq(Segs)
    /\ finalized \in Seq(Nat \X Turns)
    /\ handler \in {"idle", "check", "flush"} /\ turnAt \in Nat \ {0}
    /\ told \in Seq(Terminals)
    /\ sounded \subseteq Nat /\ lost \subseteq Nat

PlayerInit ==
    /\ chunks = <<>> /\ readIdx = 0 /\ phase = 0 /\ queued = 0
    /\ writeAbs = 0 /\ generation = 0 /\ tombstone = FALSE
    /\ ledger = <<>> /\ finalized = <<>>
    /\ handler = "idle" /\ turnAt = 1
    /\ told = <<>> /\ sounded = {} /\ lost = {}

-----------------------------------------------------------------------------
(* The queue                                                                 *)

Lesser(a, b) == IF a <= b THEN a ELSE b
Greater(a, b) == IF a >= b THEN a ELSE b

\* How far the session's sound was read: what was written less what waits.
RenderAbs == writeAbs - queued

\* The position the next sample is read at, of a queue cs that is not empty.
Cursor(cs) == cs[1].from + readIdx

\* The read position of cs comes to pos: what lies wholly behind it is shifted.
MovesTo(cs, pos) ==
    \E k \in 1..(Len(cs) + 1) :
        /\ \A i \in 1..(k - 1) : cs[i].to <= pos
        /\ k <= Len(cs) => pos < cs[k].to
        /\ chunks' = SubSeq(cs, k, Len(cs))
        /\ readIdx' = pos - (IF k <= Len(cs) THEN cs[k].from ELSE cs[Len(cs)].to)

Clears ==
    /\ chunks' = <<>> /\ readIdx' = 0 /\ phase' = 0 /\ queued' = 0

\* The whole samples passed when k samples have been given to the device.
Passed(k) == (phase + k * InRate) \div OutRate

\* After k samples there is one to read, and the one it is mixed with.
Sounds(k) ==
    /\ chunks # <<>>
    /\ Cursor(chunks) + Passed(k) + 1 < chunks[Len(chunks)].to

\* No sample is left that can be given out.
Drained == queued - 1 <= 0 \/ ((queued - 1) * OutRate) \div InRate = 0

-----------------------------------------------------------------------------
(* Reports                                                                   *)

\* A terminal goes out once for a turn of a generation, as far as the record
\* of terminals reaches back.
Emits(e) ==
    LET key == <<e.generation, e.seq>>
        f == Append(finalized, key)
    IN  IF \E i \in 1..Len(finalized) : finalized[i] = key
        THEN UNCHANGED <<finalized, told>>
        ELSE /\ finalized' = IF Len(f) > FinalizedMax THEN Tail(f) ELSE f
             /\ told' = Append(told, e)

Terminal(s, outcome, position, end) ==
    [generation |-> s.generation, seq |-> s.seq, outcome |-> outcome,
     position |-> position, startAbs |-> s.startAbs, endAbs |-> end]

\* A sealed turn is over: the position passed its end, or nothing is left of it.
Reached(i) ==
    /\ ledger[i].endAbs # Unsealed
    /\ \/ RenderAbs >= ledger[i].endAbs - Eps
       \/ Drained /\ i = Len(ledger)

\* It counts as played if it sounded and nothing of it was discarded.
Conclusion(s) ==
    LET length == s.endAbs - s.startAbs
    IN  IF s.tainted \/ ~s.rendered
        THEN Terminal(s, "aborted",
                      IF s.rendered THEN Greater(0, length - s.taintedSamples) ELSE 0,
                      s.endAbs)
        ELSE Terminal(s, "played", length, s.endAbs)

\* A flush cuts it: what was read of it, but not behind its end, and not what
\* was discarded.
CutOff(s) ==
    LET upper == IF s.endAbs = Unsealed THEN RenderAbs ELSE s.endAbs
    IN  Terminal(s, "aborted",
                 Greater(0, Lesser(RenderAbs, upper) - s.startAbs - s.taintedSamples),
                 Greater(upper, s.startAbs))

Without(s, i) == SubSeq(s, 1, i - 1) \o SubSeq(s, i + 1, Len(s))

\* checkCompletions, a turn of the ledger at a time.
CheckSeg ==
    /\ handler = "check" /\ turnAt <= Len(ledger)
    /\ IF Reached(turnAt)
       THEN /\ Emits(Conclusion(ledger[turnAt]))
            /\ ledger' = Without(ledger, turnAt) /\ UNCHANGED turnAt
       ELSE /\ turnAt' = turnAt + 1 /\ UNCHANGED <<ledger, finalized, told>>
    /\ UNCHANGED <<sampleQueue, writeAbs, generation, tombstone, handler, sounded, lost>>

CheckReturns ==
    /\ handler = "check" /\ turnAt > Len(ledger)
    /\ handler' = "idle" /\ turnAt' = 1
    /\ UNCHANGED <<sampleQueue, writeAbs, generation, ledger, tombstone, finalized, told,
                   sounded, lost>>

-----------------------------------------------------------------------------
(* Frames and the device                                                     *)

\* The turns of the ledger that an overflow of [lo, hi) takes samples from,
\* when the last position written is w.
Taints(lo, hi, w) ==
    [i \in DOMAIN ledger |->
        LET s == ledger[i]
            top == Lesser(hi, IF s.endAbs = Unsealed THEN w ELSE s.endAbs)
            bottom == Greater(lo, s.startAbs)
        IN  IF bottom < top
            THEN [s EXCEPT !.tainted = TRUE, !.taintedSamples = @ + (top - bottom)]
            ELSE s]

\* A frame of n samples arrives; what is more than the queue holds is taken
\* from its old end, and the turns it belonged to are looked at again.
Push(n) ==
    LET cs == Append(chunks, [from |-> writeAbs, to |-> writeAbs + n])
        over == queued + n - Capacity
        lo == RenderAbs
        hi == lo + over
    IN  /\ handler = "idle" /\ ~tombstone /\ writeAbs + n <= MaxWritten
        /\ writeAbs' = writeAbs + n
        /\ IF over <= 0
           THEN /\ chunks' = cs /\ queued' = queued + n
                /\ UNCHANGED <<readIdx, phase, ledger, handler, lost>>
           ELSE /\ ledger' = Taints(lo, hi, writeAbs + n)
                /\ MovesTo(cs, Cursor(cs) + over)
                /\ queued' = queued + n - over /\ phase' = 0
                /\ lost' = lost \cup lo..(hi - 1)
                /\ handler' = "check"
        /\ UNCHANGED <<generation, tombstone, finalized, turnAt, told, sounded>>

\* The device asks for n samples and is given w; every turn in the ledger
\* counts as having sounded.
Pull(n) ==
    \E w \in 0..n :
        /\ handler = "idle"
        /\ \A k \in 0..(w - 1) : Sounds(k)
        /\ w < n => ~Sounds(w)
        /\ w > 0
        /\ MovesTo(chunks, Cursor(chunks) + Passed(w))
        /\ phase' = (phase + w * InRate) % OutRate
        /\ queued' = Greater(0, queued - Passed(w))
        /\ ledger' = [i \in DOMAIN ledger |-> [ledger[i] EXCEPT !.rendered = TRUE]]
        /\ sounded' = sounded \cup RenderAbs..(RenderAbs + Passed(w) - 1)
        /\ handler' = "check"
        /\ UNCHANGED <<writeAbs, generation, tombstone, finalized, turnAt, told, lost>>

-----------------------------------------------------------------------------
(* Turns                                                                     *)

InLedgerNow(t) == \E i \in 1..Len(ledger) : ledger[i].seq = t

\* A turn begins where the next frame will be written; a ledger that is full
\* forgets its oldest turn.
BeginTurn(t) ==
    LET s == [generation |-> generation, seq |-> t, startAbs |-> writeAbs,
              endAbs |-> Unsealed, tainted |-> FALSE, taintedSamples |-> 0,
              rendered |-> FALSE]
        l == Append(ledger, s)
    IN  /\ handler = "idle" /\ Len(told) + Len(ledger) < MaxTold
        /\ tombstone' = FALSE
        /\ ledger' = IF InLedgerNow(t) THEN ledger
                     ELSE IF Len(l) > LedgerMax THEN Tail(l) ELSE l
        /\ UNCHANGED <<sampleQueue, writeAbs, generation, finalized, handler, turnAt, told,
                       sounded, lost>>

\* It is sealed at what was written so far, and looked at at once.
EndTurn(t) ==
    /\ handler = "idle"
    /\ \E i \in 1..Len(ledger) :
          /\ ledger[i].seq = t
          /\ ledger' = [ledger EXCEPT ![i].endAbs = writeAbs]
    /\ handler' = "check"
    /\ UNCHANGED <<sampleQueue, writeAbs, generation, tombstone, finalized, turnAt, told,
                   sounded, lost>>

\* Without turns a flush empties the queue and no more.
FlushQueue ==
    /\ handler = "idle" /\ ledger = <<>> /\ ~tombstone
    /\ Clears
    /\ UNCHANGED <<writeAbs, generation, ledger, tombstone, finalized, handler, turnAt,
                   told, sounded, lost>>

\* flushAll: every turn is cut off, then the queue is emptied, and what is
\* still under way of this generation will not be let in.
FlushAll ==
    /\ handler = "idle"
    /\ handler' = "flush"
    /\ UNCHANGED <<sampleQueue, writeAbs, generation, ledger, tombstone, finalized, turnAt,
                   told, sounded, lost>>

FlushSeg ==
    /\ handler = "flush" /\ ledger # <<>>
    /\ Emits(CutOff(ledger[1]))
    /\ ledger' = Tail(ledger)
    /\ UNCHANGED <<sampleQueue, writeAbs, generation, tombstone, handler, turnAt, sounded, lost>>

FlushReturns ==
    /\ handler = "flush" /\ ledger = <<>>
    /\ Clears
    /\ generation' = generation + 1 /\ tombstone' = TRUE
    /\ handler' = "idle"
    /\ UNCHANGED <<writeAbs, ledger, finalized, turnAt, told, sounded, lost>>

-----------------------------------------------------------------------------
PlayerNext ==
    \/ CheckSeg \/ CheckReturns \/ FlushSeg \/ FlushReturns \/ FlushAll \/ FlushQueue
    \/ \E n \in 1..MaxFrame : Push(n)
    \/ \E n \in 1..Quantum : Pull(n)
    \/ \E t \in Turns : BeginTurn(t) \/ EndTurn(t)

PlayerSpec == PlayerInit /\ [][PlayerNext]_playerVars

-----------------------------------------------------------------------------
(* Properties                                                                *)

\* The count of waiting samples that every position is derived from is the
\* number of samples in the chunks, whatever was pushed, pulled, discarded and
\* flushed in between (the class keeps it by hand in five places).
NoDrift ==
    queued = IF chunks = <<>> THEN 0
             ELSE chunks[Len(chunks)].to - Cursor(chunks)

\* A turn that is reported as played was read to its last sample but one, and
\* none of those samples was discarded by an overflow.
PlayedIsSounded ==
    \A i \in 1..Len(told) : told[i].outcome = "played" =>
        told[i].startAbs..(told[i].endAbs - 2) \subseteq sounded

\* No report claims more of a turn than sounded, but for the one sample that
\* needs a successor to be interpolated.
NothingOverstated ==
    \A i \in 1..Len(told) :
        told[i].position
            <= Cardinality(sounded \cap told[i].startAbs..(told[i].endAbs - 1)) + 1

\* Two reports of the same turn of a generation lie FinalizedMax reports apart:
\* the record of terminals, not the caller, keeps them from repeating.
RepeatsLieApart ==
    \A i, j \in 1..Len(told) :
        /\ i < j
        /\ told[i].generation = told[j].generation /\ told[i].seq = told[j].seq
        => j - i >= FinalizedMax

\* When no handler runs, no sealed turn of the ledger has been read to its end:
\* an overflow, which may leave nothing for the device to pull, and a seal that
\* comes late report it at once.
NoneIsForgotten ==
    handler = "idle" =>
        \A i \in 1..Len(ledger) :
            ledger[i].endAbs # Unsealed => RenderAbs < ledger[i].endAbs - Eps

\* After a flush nothing is in the queue or the ledger until a turn begins.
CutOffIsSilent == tombstone => chunks = <<>> /\ ledger = <<>>

\* The read position never goes back.
NeverBackward == [][RenderAbs' >= RenderAbs]_playerVars

=============================================================================
