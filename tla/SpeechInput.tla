---------------------------- MODULE SpeechInput ----------------------------
(***************************************************************************)
(* The candidate's speech on its way in: from the realtime client's        *)
(* append, commit and clear to the turns of the GPU service, and back to   *)
(* the conversation items the client is told of.                           *)
(*                                                                         *)
(*   items    openai-realtime/session-state.ts: the open input item, the   *)
(*            one being cleared, the appends held back, what of the epoch  *)
(*            is closed                                                    *)
(*   media    media-session.ts: the turns heard of, and whether the        *)
(*            watchdog may still flush (turnPending)                       *)
(*   client   gpu-client.ts: the handshake, the audio queued, the reset    *)
(*            that waits, the turn the GPU is at as far as it knows        *)
(*   gpu      gpu_service/session.py: the epoch and the turn being heard   *)
(*   up, down the socket to the GPU service, in order in each direction    *)
(*                                                                         *)
(* Audio is counted in appends; what the recogniser makes of it is a       *)
(* choice.  Left out: an error sent to the client that changes nothing; a  *)
(* cancellation, whose reset of the recogniser is a turn in which nothing  *)
(* is recognised; the loss of the socket and the time-outs of handshake    *)
(* and reset, each of which only ends the connection.                      *)
(***************************************************************************)
EXTENDS Integers, Sequences, FiniteSets

CONSTANTS
    MaxAppends, MaxCommits, MaxClears, MaxFlushes,   \* bounds: of the client, the watchdog
    MaxRefusals,   \* maxAttempts of the reconnection
    Limit          \* the appends that may be held back on the way

ASSUME InputAssumption ==
    {MaxAppends, MaxCommits, MaxClears, MaxFlushes, MaxRefusals, Limit} \subseteq Nat

VARIABLES
    items, media, client, gpu, up, down,
    done,   \* bounded: the appends, commits, clears and flushes there have been
    over,   \* why the connection has ended, or "no"
    told    \* observer: the last item the client was told is committed

inputVars == <<items, media, client, gpu, up, down, done, over, told>>

NoTurn == -1
NoItem == [id |-> 0, turn |-> NoTurn, req |-> "no", heard |-> FALSE, prev |-> 0]
Fresh == [on |-> FALSE, epoch |-> 0, turn |-> 0, speech |-> FALSE]

NoItems ==
    [epoch |-> 0, made |-> 0, cur |-> NoItem, cand |-> NoItem, replay |-> FALSE, held |-> 0,
     reset |-> "no", closed |-> {}, high |-> NoTurn, last |-> 0]
\* The socket to the GPU service is open, the session not started there.
Dialled == [phase |-> "dialled", queue |-> <<>>, reset |-> "no", epoch |-> 0, turn |-> 0, refused |-> 0]

InputInit ==
    /\ items = NoItems /\ client = Dialled
    /\ media = [seen |-> {}, final |-> {}, discarded |-> {}, pending |-> FALSE, muted |-> FALSE]
    /\ gpu = Fresh
    /\ up = <<>> /\ down = <<>>
    /\ done = [append |-> 0, commit |-> 0, clear |-> 0, flush |-> 0]
    /\ over = "no" /\ told = NoItem

\* The bridge runs: it is not between the acknowledgement of a reset and the
\* promises that wait for it, which only a message of the same read can precede.
Runs == over = "no" /\ items.reset # "acked"
Counts(what, bound) == done[what] < bound /\ done' = [done EXCEPT ![what] = @ + 1]
Higher(a, b) == IF a > b THEN a ELSE b

-----------------------------------------------------------------------------
(* gpu-client: to the GPU                                                  *)

\* A control message is written to the socket; what an instance that refuses was
\* sent is lost, and what is written to the socket it closed.
Sent(msg) == IF client.phase = "backoff" THEN up ELSE Append(up, msg)
Message(t, e, k) == [t |-> t, e |-> e, k |-> k]

\* sendAudio of n appends: queued until the GPU is ready and no reset waits.
Pushes(n, e, c) ==
    LET frames == [i \in 1 .. n |-> Message("audio", e, 0)] IN
    IF c.phase = "ready" /\ c.reset = "no"
    THEN up' = up \o frames /\ client' = c
    ELSE up' = up /\ client' = [c EXCEPT !.queue = @ \o frames]

\* resetInput: the audio of the epoch that has not left yet is dropped.
Retired(queue, e) ==
    LET kept[n \in 0 .. Len(queue)] ==
          IF n = 0 THEN <<>>
          ELSE IF queue[n].e = e THEN kept[n - 1] ELSE Append(kept[n - 1], queue[n])
    IN kept[Len(queue)]

-----------------------------------------------------------------------------
(* session-state: the client's events                                      *)

\* The item made when there is none: by an append, or by speech of a turn.
Opened(s, turn) ==
    [s EXCEPT !.made = @ + 1, !.high = Higher(@, turn),
              !.cur = [NoItem EXCEPT !.id = s.made + 1, !.turn = turn, !.prev = s.last]]
\* processInputPcm of n appends.
Fed(s, n) == IF n > 0 /\ s.cur = NoItem THEN Opened(s, NoTurn) ELSE s

\* Audio is taken now, unless a clear or a commit is pending.
Free(s) == s.reset = "no" /\ s.cur.req = "no"

\* flushPendingInput: the items after one of them settled, the held appends fed.
Becomes(s, c) ==
    IF Free(s)
    THEN items' = [Fed(s, s.held) EXCEPT !.held = 0] /\ Pushes(s.held, s.epoch, c)
    ELSE items' = s /\ client' = c /\ up' = up

\* handleInputAppend, queuePendingInput and, past them, the media session's count
\* of loud audio; what is over the limit closes the connection.
AppendAudio ==
    /\ Runs /\ Counts("append", MaxAppends)
    /\ \/ /\ Free(items) /\ items' = Fed(items, 1) /\ Pushes(1, items.epoch, client)
          /\ \E p \in {media.pending, TRUE} : media' = [media EXCEPT !.pending = p]
          /\ over' = IF Len(client'.queue) > Limit THEN "limit" ELSE over
       \/ /\ ~Free(items) /\ items' = [items EXCEPT !.held = @ + 1]
          /\ over' = IF items.held = Limit THEN "limit" ELSE over
          /\ UNCHANGED <<media, client, up>>
    /\ UNCHANGED <<gpu, down, told>>

\* handleInputCommit, commitInput, flushCurrentInput: a turn not known yet is the
\* one the GPU is at, as far as its client knows.
Commit ==
    /\ Runs /\ Counts("commit", MaxCommits)
    /\ items.cur # NoItem /\ items.cur.req = "no"
    /\ up' = Sent(Message("flush", items.epoch,
                          IF items.cur.turn = NoTurn THEN client.turn ELSE items.cur.turn))
    /\ items' = [items EXCEPT !.cur.req = IF client.phase = "ready" THEN "yes" ELSE "early"]
    /\ UNCHANGED <<media, client, gpu, down, over, told>>

\* Mutant of ClearsEndpoint: the watchdog may flush what is being cleared.
ClearsNothing == media
\* resetUncommittedInputEndpoint: the endpoint of what was said is forgotten.
ClearsEndpoint == [media EXCEPT !.pending = FALSE]

\* handleInputClear up to its await, resetInput of the GPU client included.
Clear ==
    /\ Runs /\ items.reset = "no" /\ Counts("clear", MaxClears)
    /\ items' = [items EXCEPT !.reset = "waits", !.cand = items.cur, !.cur = NoItem,
                              !.replay = FALSE, !.held = 0]
    /\ media' = ClearsEndpoint
    /\ LET now == client.phase = "ready" IN
       /\ client' = [client EXCEPT !.queue = Retired(@, items.epoch),
                                   !.reset = IF now THEN "sent" ELSE "held"]
       /\ up' = IF now THEN Append(up, Message("reset", items.epoch, 0)) ELSE up
    /\ UNCHANGED <<gpu, down, over, told>>

\* The rest of it: the engine's epoch, the media session's turns, the items'.
ClearDone ==
    /\ over = "no" /\ items.reset = "acked"
    /\ Becomes([items EXCEPT !.reset = "no", !.cand = NoItem, !.replay = FALSE,
                             !.epoch = @ + 1, !.closed = {}, !.high = NoTurn], client)
    /\ LET Later(keys) == {key \in keys : key[1] # items.epoch} IN
       media' = [media EXCEPT !.seen = Later(@), !.final = Later(@), !.discarded = Later(@)]
    /\ UNCHANGED <<gpu, down, done, over, told>>

-----------------------------------------------------------------------------
(* session-state: what becomes of the turns the GPU reports                *)

\* handleInputResetCandidateEvent: the event is of the item being cleared.
Replays(s, e, k) ==
    /\ s.reset # "no" /\ s.cand # NoItem /\ e = s.epoch /\ k \notin s.closed
    /\ s.cand.turn \in {NoTurn, k}

\* findInput: where turn k of epoch e is, or that it is nobody's.
Place(s, e, k) ==
    CASE e # s.epoch -> "stale"
      [] e = s.epoch /\ Replays(s, e, k) ->
            IF s.cand.turn = NoTurn /\ k <= s.high THEN "nobody" ELSE "cand"
      [] e = s.epoch /\ ~Replays(s, e, k) /\ (k \in s.closed \/ s.reset # "no") -> "known"
      [] OTHER -> IF s.cur # NoItem /\ (s.cur.turn = k \/ (s.cur.turn = NoTurn /\ k > s.high))
                  THEN "cur" ELSE "nobody"

\* ensureInputForSpeechStart: speech of a turn for which there is no item makes one.
Ensured(s, e, k) ==
    IF e = s.epoch /\ s.reset = "no" /\ s.cur = NoItem /\ k \notin s.closed /\ k > s.high
    THEN Opened(s, k) ELSE s

\* speech_started, partial and final of a turn; started says that it is new.
Hears(msg, final, started) ==
    LET s == IF started THEN Ensured(items, msg.e, msg.k) ELSE items
        at == Place(s, msg.e, msg.k)
    IN /\ over' = IF at \in {"stale", "nobody"} THEN at ELSE over
       /\ items' = CASE at = "cur" ->
                            [s EXCEPT !.high = Higher(@, msg.k), !.cur.turn = msg.k,
                                      !.cur.heard = @ \/ final]
                     [] at = "cand" ->
                            [s EXCEPT !.high = Higher(@, msg.k), !.cand.turn = msg.k,
                                      !.replay = @ \/ final]
                     [] OTHER -> s

\* Mutant of Settled: the item to come does not follow the one that is committed.
SettledAlone(s, item, committed) == [s EXCEPT !.closed = @ \cup {item.turn}]
\* handleInputCommitted, handleInputRejected: the turn is closed.
Settled(s, item, committed) ==
    [s EXCEPT !.closed = @ \cup {item.turn}, !.last = IF committed THEN item.id ELSE @]

\* input_committed and input_rejected of a turn, with the client after it.
Closes(msg, committed, c) ==
    LET at == Place(items, msg.e, msg.k)
        item == IF at = "cur" THEN [items.cur EXCEPT !.turn = msg.k]
                ELSE [items.cand EXCEPT !.turn = msg.k, !.heard = @ \/ items.replay]
        s == [items EXCEPT !.high = Higher(@, msg.k)]
    IN /\ over' = CASE at = "stale" -> "stale"
                    [] at = "nobody" -> IF committed THEN "nobody" ELSE "unheard"
                    [] OTHER -> over
       /\ told' = IF committed /\ at \in {"cur", "cand"} THEN item ELSE told
       /\ CASE at = "cur" -> Becomes(Settled([s EXCEPT !.cur = NoItem], item, committed), c)
            [] at = "cand" ->
                  Becomes(Settled([s EXCEPT !.cand = NoItem, !.replay = FALSE], item, committed), c)
            [] OTHER -> items' = items /\ client' = c /\ up' = up

-----------------------------------------------------------------------------
(* gpu-client and media-session: from the GPU                              *)

Receives(t) == over = "no" /\ down # <<>> /\ Head(down).t = t /\ down' = Tail(down)

\* onTranscript; a warning that may not be cut off (violationNoticeGuard) mutes it.
Transcript ==
    \E t \in {"partial", "final"} :
        /\ Receives(t)
        /\ LET msg == Head(down)  key == <<msg.e, msg.k>> IN
           IF media.muted
           THEN /\ media' = IF t = "final" THEN [media EXCEPT !.discarded = @ \cup {key}] ELSE media
                /\ UNCHANGED <<items, over>>
           ELSE /\ media' = [media EXCEPT !.seen = @ \cup {key},
                                          !.final = IF t = "final" THEN @ \cup {key} ELSE @]
                /\ Hears(msg, t = "final", key \notin media.seen)
        /\ UNCHANGED <<client, gpu, up, done, told>>

\* Mutant of TurnKnown: the GPU client does not follow the turns of the GPU.
TurnForgotten(c, msg) == c
TurnKnown(c, msg) ==
    IF msg.e = c.epoch /\ msg.k = c.turn THEN [c EXCEPT !.turn = @ + 1] ELSE c

\* onTurnEvent: the turn is committed when it was heard to its end, else rejected.
TurnEnd ==
    /\ Receives("turn_end")
    /\ LET msg == Head(down)  key == <<msg.e, msg.k>>  Without(keys) == keys \ {key} IN
       /\ media' = [media EXCEPT !.seen = Without(@), !.final = Without(@),
                                 !.discarded = Without(@), !.pending = FALSE]
       /\ Closes(msg, key \in (media.seen \cap media.final) \ media.discarded,
                 TurnKnown(client, msg))
    /\ UNCHANGED <<gpu, done>>

\* input_reset_ack: the epoch of the client's reset is the GPU's.
ResetAck ==
    /\ Receives("ack")
    /\ client.reset = "sent" /\ Head(down).e = items.epoch + 1
    /\ client' = [client EXCEPT !.reset = "no", !.epoch = items.epoch + 1, !.turn = 0,
                                !.queue = <<>>]
    /\ up' = up \o client.queue
    /\ items' = [items EXCEPT !.reset = "acked"]
    /\ UNCHANGED <<media, gpu, done, over, told>>

\* sendPendingInputReset, before any audio of the new epoch.
SendsReset ==
    /\ client' = [client EXCEPT !.phase = "ready", !.reset = "sent"]
    /\ up' = Append(up, Message("reset", items.epoch, 0))
\* ready: what waited for it leaves.
Ready ==
    /\ Receives("ready")
    /\ \/ client.reset = "held" /\ SendsReset
       \/ /\ client.reset = "no"
          /\ client' = [client EXCEPT !.phase = "ready", !.queue = <<>>]
          /\ up' = up \o client.queue
    /\ UNCHANGED <<items, media, gpu, done, over, told>>

\* CAPACITY_FULL before ready: another instance is dialled after a while, or the
\* session ends when it was refused often enough.
Refuse ==
    /\ over = "no" /\ client.phase = "dialled" /\ ~gpu.on
    /\ client' = [client EXCEPT !.phase = "backoff", !.refused = @ + 1]
    /\ over' = IF client.refused = MaxRefusals THEN "full" ELSE over
    /\ up' = <<>>
    /\ UNCHANGED <<items, media, gpu, down, done, told>>
\* tryReconnect, past its sleep.
Redial ==
    /\ over = "no" /\ client.phase = "backoff"
    /\ client' = [client EXCEPT !.phase = "dialled", !.epoch = 0, !.turn = 0,
                                !.queue = IF client.reset = "no" THEN <<>> ELSE @]
    /\ UNCHANGED <<items, media, gpu, up, down, done, over, told>>

\* A warning or the notice of a forced end is spoken: it begins, or it is over.
Mute ==
    /\ Runs /\ media' = [media EXCEPT !.muted = ~@]
    /\ UNCHANGED <<items, client, gpu, up, down, done, over, told>>
\* watchdogTick: what was said and is not ended is flushed, whichever turn it is.
WatchdogFlush ==
    /\ Runs /\ media.pending /\ Counts("flush", MaxFlushes)
    /\ up' = Sent(Message("bare", 0, 0))
    /\ UNCHANGED <<items, media, client, gpu, down, over, told>>

-----------------------------------------------------------------------------
(* gpu_service: the session on the GPU                                     *)

\* start: the instance takes the session.
Accept ==
    /\ over = "no" /\ client.phase = "dialled" /\ ~gpu.on
    /\ gpu' = [gpu EXCEPT !.on = TRUE]
    /\ down' = Append(down, Message("ready", 0, 0))
    /\ UNCHANGED <<items, media, client, up, done, over, told>>

Hearing(t) == over = "no" /\ gpu.on /\ up # <<>> /\ Head(up).t = t /\ up' = Tail(up)
Here(t) == Message(t, gpu.epoch, gpu.turn)
Ended == [gpu EXCEPT !.turn = @ + 1, !.speech = FALSE]
\* The end of a turn: its final text, unless nothing was recognised, then turn_end.
EndsTurn ==
    /\ gpu' = Ended
    /\ \/ down' = Append(down, Here("turn_end"))
       \/ gpu.speech /\ down' = down \o <<Here("final"), Here("turn_end")>>
\* A message that is not of this epoch or turn is an error, which ends the session.
OutOfFence == over' = "fence" /\ UNCHANGED <<gpu, down>>

\* on_audio: silence, speech with or without a partial, or the end of a turn.
HearsAudio ==
    /\ Hearing("audio")
    /\ \/ Head(up).e # gpu.epoch /\ OutOfFence
       \/ /\ Head(up).e = gpu.epoch /\ over' = over
          /\ \/ gpu' = gpu /\ down' = down
             \/ /\ gpu' = [gpu EXCEPT !.speech = TRUE]
                /\ down' \in {down, Append(down, Here("partial"))}
             \/ gpu.speech /\ EndsTurn
    /\ UNCHANGED <<items, media, client, done, told>>
\* finalize_turn: of a turn that is over it is late, and ignored.
HearsFlush ==
    /\ Hearing("flush")
    /\ LET e == Head(up).e  k == Head(up).k IN
       \/ (e > gpu.epoch \/ (e = gpu.epoch /\ k > gpu.turn)) /\ OutOfFence
       \/ /\ e < gpu.epoch \/ (e = gpu.epoch /\ k < gpu.turn)
          /\ UNCHANGED <<gpu, down, over>>
       \/ <<e, k>> = <<gpu.epoch, gpu.turn>> /\ EndsTurn /\ over' = over
    /\ UNCHANGED <<items, media, client, done, told>>
HearsBareFlush ==
    /\ Hearing("bare") /\ EndsTurn
    /\ UNCHANGED <<items, media, client, done, over, told>>
\* reset_input: what was not committed is dropped, and the next epoch begins.
HearsReset ==
    /\ Hearing("reset")
    /\ \/ Head(up).e # gpu.epoch /\ OutOfFence
       \/ /\ Head(up).e = gpu.epoch /\ over' = over
          /\ gpu' = [gpu EXCEPT !.epoch = @ + 1, !.turn = 0, !.speech = FALSE]
          /\ down' = Append(down, Message("ack", gpu.epoch + 1, 0))
    /\ UNCHANGED <<items, media, client, done, told>>

-----------------------------------------------------------------------------
Answers == Accept \/ Refuse \/ Redial
Gpu == HearsAudio \/ HearsFlush \/ HearsBareFlush \/ HearsReset
Bridge == Transcript \/ TurnEnd \/ ResetAck \/ Ready \/ ClearDone
Candidate == AppendAudio \/ Commit \/ Clear
InputNext == Answers \/ Gpu \/ Bridge \/ Candidate \/ Mute \/ WatchdogFlush

(* The sockets deliver, the promises run, and an instance that is dialled  *)
(* answers or its time-out ends the session; the candidate may say nothing *)
(* and the watchdog is under no obligation.                                *)
InputSpec ==
    /\ InputInit /\ [][InputNext]_inputVars
    /\ WF_inputVars(Answers) /\ WF_inputVars(Gpu) /\ WF_inputVars(Bridge)

-----------------------------------------------------------------------------
(* Properties                                                              *)

Item == [id : Nat, turn : Nat \cup {NoTurn}, req : {"no", "yes", "early"},
         heard : BOOLEAN, prev : Nat]
ToGpu == [t : {"audio", "flush", "bare", "reset"}, e : Nat, k : Nat]
FromGpu == [t : {"ready", "ack", "partial", "final", "turn_end"}, e : Nat, k : Nat]
InputBooks ==
    [epoch : Nat, made : Nat, cur : Item, cand : Item, replay : BOOLEAN, held : Nat,
     reset : {"no", "waits", "acked"}, closed : SUBSET Nat, high : Nat \cup {NoTurn}, last : Nat]
TurnsHeard ==
    [seen : SUBSET (Nat \X Nat), final : SUBSET (Nat \X Nat), discarded : SUBSET (Nat \X Nat),
     pending : BOOLEAN, muted : BOOLEAN]
GpuClient ==
    [phase : {"dialled", "backoff", "ready"}, queue : Seq(ToGpu), reset : {"no", "held", "sent"},
     epoch : Nat, turn : Nat, refused : Nat]
GpuInput == [on : BOOLEAN, epoch : Nat, turn : Nat, speech : BOOLEAN]

\* Turns are counted from 0 in each epoch, an item need not know its turn, and each
\* of the three parties has its own account of a clear that is under way.
InputTypeOK ==
    /\ items \in InputBooks /\ media \in TurnsHeard
    /\ client \in GpuClient /\ gpu \in GpuInput
    /\ up \in Seq(ToGpu) /\ down \in Seq(FromGpu)
    /\ done \in [append : Nat, commit : Nat, clear : Nat, flush : Nat]
    /\ over \in {"no", "limit", "stale", "nobody", "unheard", "full", "fence"}
    /\ told \in Item

\* What gpu_service refuses as out of order never reaches it: audio of an epoch
\* that was cleared, a clear that does not follow the last, or a flush of a turn
\* that is yet to come, whatever was queued before the instance was ready, held
\* back during a commit or a clear, or dropped by a reconnection.  The other way,
\* the errors of session-state.ts that close the connection, because a turn is of
\* another epoch or has no item, are never met by speech the session is told of, nor
\* by a turn that is committed: only a turn that is rejected can find no item.
NothingIsStray == over \notin {"fence", "stale", "nobody"}

\* Each item of the candidate the client is told is committed follows, by its
\* previous_item_id and but for responses, the one told before, and is transcribed:
\* clears, rejections and turns the GPU ended by itself leave no gap and no disorder
\* in the conversation.
ConversationIsOrdered ==
    [][told' # told => told'.prev = told.id /\ told'.heard]_inputVars

\* What the client asks is answered.  A commit, accepted once the GPU is ready:
\* its item is committed, rejected or cleared, also when the GPU ended the turn by
\* itself first and so ignores the flush (findInput, finalize_turn).  A clear: it is
\* completed, also when it waits for the GPU over refusals and reconnections.
RequestsSettle ==
    /\ \A i \in 1 .. MaxAppends + 1 :
          items.cur.id = i /\ items.cur.req = "yes" ~> items.cur.id # i \/ over # "no"
    /\ items.reset # "no" ~> items.reset = "no" \/ over # "no"

=============================================================================
