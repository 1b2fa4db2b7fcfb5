----------------------------- MODULE VoiceInvariant -----------------------------
(***************************************************************************)
(* The inductive invariant of VoiceLoop, part by part, and the relations   *)
(* between two states of the server that the proofs about it use           *)
(* (PlaybackProofs).  What an operator is about is a parameter: the turns  *)
(* ts of the engine, the frames d under way, a server s.                   *)
(***************************************************************************)
EXTENDS VoiceLoop, FiniteSets

\* The types.
Endings == {"no", "full", "partial"}
TurnStates == [returned : BOOLEAN, failed : BOOLEAN, begun : BOOLEAN,
               done : Endings, made : Int]
JobStates == [turn : Nat, spoken : BOOLEAN]
Outputs == [kind : {"started", "audio", "terminal"}, turn : Nat]
TurnKinds == {"start", "audio", "end"}
OtherKinds == {"pause", "resume", "barge_in", "superseded"}
Frames == [kind : TurnKinds \cup OtherKinds, turn : Nat, pause : Nat]

Engines == [turns : Seq(TurnStates), active : Nat, text : BOOLEAN,
            interrupted : BOOLEAN, paused : Nat, kept : Nat,
            deferred : Endings, said : Nat, jobs : Seq(JobStates)]
Medias == [speaking : BOOLEAN, audioTurn : Nat, pauses : Nat,
           pausing : BOOLEAN, paused : Nat, checked : BOOLEAN,
           checking : BOOLEAN, asked : Nat, flow : Nat,
           retired : SUBSET Nat, pending : Seq(Outputs)]
Servers == [e : Engines, m : Medias, o : SUBSET Nat, d : Seq(Frames)]

-------------------------------------------------------------------------------
(* A pause, the verdict on it and the frames that lift it.                 *)

\* A verdict that would act is about the pause that holds.
VerdictFits(m) == m.asked # Nil /\ m.checking => m.pausing /\ m.asked = m.pauses

\* The media session holds the pause, or has dropped it.
HeldPause(m, o, t, p) ==
    t \in o \/ (m.pausing /\ m.paused = t /\ m.pauses = p)

LiftsPause(f, t, p) ==
    \/ f.kind = "resume" /\ f.turn = t /\ f.pause = p
    \/ f.kind \in {"barge_in", "superseded"}
    \/ f.kind = "start" /\ f.turn > t
    \/ f.kind = "end" /\ f.turn = t

\* Every pause on its way is held, or followed by what lifts it.
PausesLifted(m, o, d) ==
    \A i \in 1..Len(d) : d[i].kind = "pause" =>
        \/ HeldPause(m, o, d[i].turn, d[i].pause)
        \/ \E j \in 1..Len(d) :
              j > i /\ LiftsPause(d[j], d[i].turn, d[i].pause)

FreezeLifted(m, o, d) ==
    Frozen =>
        \/ HeldPause(m, o, control.turn, control.pause)
        \/ \E j \in 1..Len(d) : LiftsPause(d[j], control.turn, control.pause)

\* What the media session knows of a pause.
PauseOf(m) == [pausing |-> m.pausing, pauses |-> m.pauses,
               paused |-> m.paused, asked |-> m.asked,
               checking |-> m.checking]

-------------------------------------------------------------------------------
(* Turns.                                                                  *)

Begun(ts, t) == t \in 1..Len(ts) /\ ts[t].begun

\* No turn before t was replaced: each is over.
Clean(ts, t) == \A e \in 1..(t - 1) : ts[e].done # "no"

\* A turn whose audio is sent in whole: it is the last and not over, or it
\* ended, and has not failed.
Good(ts, t) ==
    /\ t \in 1..Len(ts)
    /\ Clean(ts, t)
    /\ ~ts[t].failed
    /\ (t = Len(ts) /\ ts[t].done = "no") \/ ts[t].done = "full"

\* Only the last turn may differ.
LastDiffers(ts, us) ==
    /\ Len(us) = Len(ts) /\ Len(ts) > 0
    /\ \A t \in 1..(Len(ts) - 1) : us[t] = ts[t]

TurnsFit(ts, active) ==
    /\ Len(ts) <= MaxTurns
    /\ active \in {Nil, Len(ts)}
    /\ Len(ts) > 0 => (active = Len(ts) <=> ts[Len(ts)].done = "no")
    /\ \A t \in 1..Len(ts) : ts[t].done = "full" => ~ts[t].failed

PauseFits(ts, active, paused, kept, deferred) ==
    /\ paused \in {Nil, active}
    /\ paused = Nil => kept = 0 /\ deferred = "no"
    /\ deferred = "full" => ~ts[paused].failed

JobsFit(ts, jobs, kept) ==
    /\ \A i \in 1..Len(jobs) : jobs[i].turn \in 1..Len(ts)
    /\ \A i, j \in 1..Len(jobs) : i <= j => jobs[i].turn <= jobs[j].turn
    /\ \A t \in 1..Len(ts), i \in 1..Len(jobs) :
          ts[t].begun => t <= jobs[i].turn
    /\ kept > 0 => \A i \in 1..Len(jobs) : jobs[i].turn = Len(ts)

FlowFits(ts, flow, retired, pending) ==
    /\ retired \subseteq 1..Len(ts)
    /\ flow \in 0..Len(ts)
    /\ flow # Nil => ts[flow].done = "no" /\ flow \notin retired
    /\ \A i \in 1..Len(pending) : pending[i].turn \in 1..Len(ts)
    /\ Len(ts) > 0 /\ Clean(ts, Len(ts)) =>
          /\ Len(pending) = 0
          /\ flow = IF ts[Len(ts)].done = "no" THEN Len(ts) ELSE Nil
          /\ \A t \in 1..Len(ts) : t \in retired <=> ts[t].done # "no"

-------------------------------------------------------------------------------
(* Frames.                                                                 *)

\* r is q and n times the frame f.
Appended(q, r, f, n) ==
    /\ n \in Nat /\ Len(r) = Len(q) + n
    /\ \A i \in 1..Len(q) : r[i] = q[i]
    /\ \A i \in (Len(q) + 1)..Len(r) : r[i] = f

Has(d, kind, t) == \E i \in 1..Len(d) : d[i].kind = kind /\ d[i].turn = t

WireFits(ts, d) ==
    /\ \A i \in 1..Len(d) :
          /\ d[i].kind \in TurnKinds => d[i].turn \in 1..Len(ts)
          /\ d[i].kind \in {"start", "end"} => ts[d[i].turn].begun
          /\ d[i].kind = "end" => ts[d[i].turn].done = "full"
    /\ \A i, j \in 1..Len(d) : i < j /\ d[i].kind = "start" =>
          /\ d[j].kind = "start" => d[i].turn < d[j].turn
          /\ d[j].kind \in {"audio", "end"} => d[i].turn <= d[j].turn
    /\ \A i, j \in 1..Len(d) :
          i < j /\ d[i].kind = "end" /\ d[j].kind \in TurnKinds =>
              d[i].turn # d[j].turn

-------------------------------------------------------------------------------
(* The player.                                                             *)

Reported(t) == t \in AiTurns /\ reported[t] # "no"
InLedger(t) == \E g \in ledger : g.turn = t
ClosedIn(t) == \E g \in ledger : g.turn = t /\ g.end # Open
OpenIn(t) == \E g \in ledger : g.turn = t /\ g.end = Open
Known(t) == Reported(t) \/ InLedger(t)

\* How many chunks were played or dropped.
Past == written - Len(ring)

PlayerFits ==
    /\ ClientTypeOK
    /\ Len(ring) <= written
    /\ \A i \in 1..Len(ring) : ~Reported(ring[i])
    /\ \A g \in ledger : ~Reported(g.turn)
    /\ \A g, h \in ledger : g.turn = h.turn => g = h
    /\ ledger # {} => ~shut
    /\ \A g \in ledger : g.first <= written
    /\ \A g \in ledger : g.end # Open =>
          /\ g.first <= g.end /\ g.end <= written
          /\ Past < g.end
          /\ \A i \in 1..Len(ring) : ring[i] = g.turn => Past + i <= g.end
    /\ ~started => \A g \in ledger :
          \/ Len(ring) >= Preroll
          \/ g.end = Open /\ written - g.first <= Len(ring)

Follows(ts, flow, d) ==
    /\ \A t \in AiTurns : Known(t) => Begun(ts, t)
    /\ \A i \in 1..Len(d) :
          d[i].kind = "audio" /\ Reported(d[i].turn) => shut
    /\ Reported(flow) /\ (\A u \in 1..Len(ts) : ts[u].begun => u <= flow) => shut
    /\ \A i \in 1..Len(d), t \in AiTurns :
          d[i].kind = "start" /\ Known(t) => t < d[i].turn
    /\ \A t \in AiTurns : ClosedIn(t) =>
          ts[t].done = "full" /\ ~Has(d, "audio", t) /\ ~Has(d, "end", t)
    /\ \A i \in 1..Len(d), t \in AiTurns :
          d[i].kind = "audio" /\ InLedger(t) => t <= d[i].turn
    /\ \A t \in 1..Len(ts) : ts[t].begun => Known(t) \/ Has(d, "start", t)
    /\ \A t \in 1..Len(ts) : ts[t].begun /\ ts[t].done = "full" =>
          Reported(t) \/ ClosedIn(t) \/ Has(d, "end", t)

-------------------------------------------------------------------------------
(* What a turn has to say and what of it was sent, arrived and was heard.  *)

Chunk(f, t) == f.kind = "audio" /\ f.turn = t
ChunksIn(d, t) == {i \in 1..Len(d) : Chunk(d[i], t)}
Count(d, t) == Cardinality(ChunksIn(d, t))

\* Of the last turn some chunks may not be sent yet.
Sent(ts, unsent, t) == ts[t].made - IF t = Len(ts) THEN unsent ELSE 0

CountFits(ts, d, unsent, t) ==
    /\ Has(d, "start", t) => Count(d, t) = Sent(ts, unsent, t)
    /\ \A g \in ledger : g.turn = t =>
          IF g.end = Open
          THEN written - g.first + Count(d, t) = Sent(ts, unsent, t)
          ELSE g.end - g.first = Sent(ts, unsent, t)
    /\ ~ts[t].begun => Sent(ts, unsent, t) = 0 /\ Count(d, t) = 0
    /\ ~Known(t) =>
          heard[t] = 0 /\ \A i \in 1..Len(ring) : ring[i] # t
    /\ \A i, j \in 1..Len(d) :
          d[i].kind = "start" /\ d[i].turn = t /\ Chunk(d[j], t) => i < j
    /\ Has(d, "start", t) \/ OpenIn(t) =>
          \A i \in 1..Len(d) : d[i].kind = "audio" /\ d[i].turn > t =>
              \E j \in 1..(i - 1) : d[j].kind = "end" /\ d[j].turn = t
    /\ \A g \in ledger : g.turn = t =>
          /\ \A i \in 1..Len(ring) :
                ring[i] = t <=> /\ g.first < Past + i
                                /\ g.end # Open => Past + i <= g.end
          /\ ~g.tainted =>
                heard[t] = IF g.first <= Past THEN Past - g.first ELSE 0

CountsFit(ts, d, unsent) ==
    /\ \A t \in 1..Len(ts) : Good(ts, t) => CountFits(ts, d, unsent, t)
    /\ \A t \in AiTurns : reported[t] = "played" =>
          /\ t \in 1..Len(ts) /\ ts[t].done = "full"
          /\ Clean(ts, t) => heard[t] = ts[t].made
    /\ \A t \in AiTurns : t > Len(ts) =>
          heard[t] = 0 /\ \A i \in 1..Len(ring) : ring[i] # t

-------------------------------------------------------------------------------
(* What Emit may do to the flow and to the frames.                         *)

SameFlow(s, r) == /\ r.m.flow = s.m.flow
                  /\ r.m.retired = s.m.retired
                  /\ r.m.pending = s.m.pending

Emitted(s, r, kind, t, n) ==
    \/ /\ t \in s.m.retired
       /\ SameFlow(s, r) /\ r.d = s.d
    \/ /\ t \notin s.m.retired /\ s.m.flow = Nil /\ kind # "started"
       /\ r.m.flow = Nil /\ r.m.retired = s.m.retired \cup {t}
       /\ r.m.pending = <<>> /\ r.d = s.d
    \/ /\ t \notin s.m.retired /\ s.m.flow \notin {Nil, t}
       /\ r.m.flow = s.m.flow /\ r.m.retired = s.m.retired
       /\ \A i \in 1..Len(r.m.pending) :
             \/ i \in 1..Len(s.m.pending) /\ r.m.pending[i] = s.m.pending[i]
             \/ r.m.pending[i].turn = t
       /\ r.d = s.d
    \/ /\ t \notin s.m.retired /\ kind = "started" /\ s.m.flow \in {Nil, t}
       /\ r.m.flow = t /\ r.m.retired = s.m.retired
       /\ r.m.pending = s.m.pending /\ r.d = s.d
    \/ /\ t \notin s.m.retired /\ kind = "terminal" /\ s.m.flow = t
       /\ r.m.flow = Nil /\ r.m.retired = s.m.retired \cup {t}
       /\ r.m.pending = s.m.pending /\ r.d = s.d
    \/ /\ t \notin s.m.retired /\ kind = "audio" /\ s.m.flow = t
       /\ SameFlow(s, r) /\ Appended(s.d, r.d, Frame("audio", t, Nil), n)

-------------------------------------------------------------------------------

\* The server, with k chunks taken from what was kept and not sent yet.
Fits(s, k) ==
    /\ s \in Servers
    /\ TurnsFit(s.e.turns, s.e.active)
    /\ PauseFits(s.e.turns, s.e.active, s.e.paused, s.e.kept, s.e.deferred)
    /\ JobsFit(s.e.turns, s.e.jobs, s.e.kept)
    /\ FlowFits(s.e.turns, s.m.flow, s.m.retired, s.m.pending)
    /\ WireFits(s.e.turns, s.d)
    /\ Follows(s.e.turns, s.m.flow, s.d)
    /\ CountsFit(s.e.turns, s.d, s.e.kept + k)
    /\ s.e.interrupted => s.e.paused = Nil

\* What Fits says of two servers is the same, but for the audio.
SameEngine(s, r) ==
    /\ r.e.turns = s.e.turns /\ r.e.active = s.e.active
    /\ r.e.paused = s.e.paused /\ r.e.kept = s.e.kept
    /\ r.e.deferred = s.e.deferred /\ r.e.jobs = s.e.jobs
    /\ r.e.interrupted = s.e.interrupted

\* Nothing of a pause changes but by other frames.
Extends(d, e) ==
    /\ Len(d) <= Len(e)
    /\ \A i \in 1..Len(d) : e[i] = d[i]
    /\ \A i \in 1..Len(e) : i > Len(d) => e[i].kind # "pause"

Keeps(s, r) ==
    r.o = s.o /\ PauseOf(r.m) = PauseOf(s.m) /\ Extends(s.d, r.d)

PauseInv(s) ==
    VerdictFits(s.m) /\ PausesLifted(s.m, s.o, s.d) /\ FreezeLifted(s.m, s.o, s.d)

LoopInv == PlayerFits /\ Fits(Server, 0) /\ PauseInv(Server)

===============================================================================
