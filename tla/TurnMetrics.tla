----------------------------- MODULE TurnMetrics -----------------------------
(***************************************************************************)
(* The figures of a turn of the interviewer on their way into its row.  The *)
(* engine reports a turn once and again when the GPU or the acknowledgement *)
(* of a cancellation answers late (three-stage-engine.ts); the media session*)
(* merges what it heard of the candidate's speech and what the browser      *)
(* measured (media-session.ts); the store writes every version of the row   *)
(* and samples each figure for CloudWatch (turn-metrics.ts).                *)
(*                                                                         *)
(* A figure is left out but for where it is from: an endpoint's figures are *)
(* the number of the speech they were taken from, 0 if there are none, a    *)
(* figure of the browser is one of Values.  A handler that reports goes     *)
(* through `calls`, the calls of metricsCb it makes; nothing comes between. *)
(*                                                                         *)
(* samples, repeated, dropped, outrun and forgotten are history: what was   *)
(* sampled and sampled again, and the turns whose entry was deleted from    *)
(* completeMetricsByTurn or uxByTurn, endpointByTurn, emittedEmfFieldsByTurn.*)
(***************************************************************************)
EXTENDS Integers, Sequences, FiniteSets

CONSTANTS MaxTurns,      \* bound: the turns of a session
          Segments,      \* the segments a turn may have
          Dimension,     \* what provider, cache state and concurrency the
                         \*   segments of a turn make, by the set heard from
          Fields,        \* the figures of the browser
          Values,        \* the values such a figure has
          CacheMax,      \* what recentTurns, completeMetricsByTurn and
                         \*   uxByTurn hold
          EndpointMax,   \* what endpointByTurn holds
          IssuedMax,     \* what uxIssuedTurns holds
          EmfMax,        \* MAX_EMF_TURN_KEYS
          HasTable,      \* SESSION_EVENTS_TABLE_NAME is set
          Absent,
          MaxSpeech,     \* bound: the ends of speech and interruptions
          MaxPuts        \* bound: the versions written

VARIABLES turnSeq, recentTurns,
          gpuMetrics,    \* the segments a turn has telemetry of
          sentenceCount,
          metric,        \* the record of a reported turn, Absent before
          records,       \* the turns in metricRecordsByTurn
          cancelAck,     \* the turn whose cancellation is not acknowledged
          calls
engineVars == <<turnSeq, recentTurns, gpuMetrics, sentenceCount, metric, records, cancelAck>>

VARIABLES pendingEndpoint, pendingBarge,
          anchored,      \* turnStopSpeakingAtMs > 0
          speech,        \* the ends of speech and interruptions so far
          endpointByTurn, endpointOrder,
          uxIssued, uxByTurn, uxOrder,
          complete, completeOrder,
          over, dropped, outrun
pending == <<pendingEndpoint, pendingBarge, anchored, speech>>
caches == <<endpointByTurn, endpointOrder, uxByTurn, uxOrder, complete, completeOrder,
            dropped, outrun>>

VARIABLES puts,          \* every call of put: what it writes and how far it is
          lastPut,       \* pendingWritesByTurn
          row,           \* the version in the table
          sampled, sampledOrder, samples, repeated, forgotten
store == <<puts, lastPut, row, sampled, sampledOrder, samples, repeated, forgotten>>

metricsVars == <<engineVars, calls, pending, caches, uxIssued, over, store>>

Turns == 1..MaxTurns
EndpointFields == {"eou", "e2e", "resumed", "barge"}
Endpoints == [EndpointFields -> Nat]
Unmeasured == [f \in EndpointFields |-> 0]
Browsers == [Fields -> Values \cup {Absent}]
Unseen == [f \in Fields |-> Absent]
EngineMetrics == [bargeIn : BOOLEAN, ack : {"open", "acked", "timeout"},
                  heard : SUBSET Segments, whole : BOOLEAN]
Completes == [em : EngineMetrics, ep : Endpoints, ux : Browsers]
Settled == {"landed", "failed", "skipped"}
Sent == {"landed", "failed"}
Puts == [turn : Turns, what : Completes, after : Nat,
         state : {"waiting", "sending"} \cup Settled]

Plain == {"turns", "barge_in", "false_interruption"}
Names == Plain \cup {"tts_rtf", "cancel_ack_timeout"} \cup EndpointFields \cup Fields
Schemas == {<<"all">>, <<"llm_model">>}
           \cup {<<"provider", Dimension[t, S]>> : t \in Turns, S \in SUBSET Segments}

MetricsInit ==
    /\ turnSeq = 0 /\ recentTurns = <<>> /\ records = {} /\ cancelAck = 0 /\ calls = <<>>
    /\ gpuMetrics = [t \in Turns |-> {}] /\ sentenceCount = [t \in Turns |-> 0]
    /\ metric = [t \in Turns |-> Absent]
    /\ pendingEndpoint = Unmeasured /\ pendingBarge = 0 /\ anchored = FALSE /\ speech = 0
    /\ endpointByTurn = [t \in Turns |-> Absent] /\ endpointOrder = <<>>
    /\ uxIssued = <<>> /\ uxByTurn = [t \in Turns |-> Absent] /\ uxOrder = <<>>
    /\ complete = [t \in Turns |-> Absent] /\ completeOrder = <<>>
    /\ over = FALSE /\ dropped = {} /\ outrun = {}
    /\ puts = <<>> /\ lastPut = [t \in Turns |-> 0] /\ row = [t \in Turns |-> 0]
    /\ sampled = [t \in Turns |-> {}] /\ sampledOrder = <<>>
    /\ samples = {} /\ repeated = {} /\ forgotten = {}

-----------------------------------------------------------------------------
(* A Map of the code keeps the order its keys came in                        *)

Known(order, t) == \E i \in 1..Len(order) : order[i] = t
Entered(order, t) == IF Known(order, t) THEN order ELSE Append(order, t)

\* A map that holds more than n loses its oldest entry.
Oldest(order, n) == IF Len(order) > n THEN {order[1]} ELSE {}
Kept(order, n) == IF Len(order) > n THEN Tail(order) ELSE order
Deleted(order, S) ==
    IF \E i \in 1..Len(order) : order[i] \in S
    THEN LET i == CHOOSE j \in 1..Len(order) : order[j] \in S
         IN  SubSeq(order, 1, i - 1) \o SubSeq(order, i + 1, Len(order))
    ELSE order
Cleared(map, S) == [t \in Turns |-> IF t \in S THEN Absent ELSE map[t]]

\* {...a, ...b}, when nothing is what a missing field has.
Spread(a, b, nothing) == [f \in DOMAIN a |-> IF b[f] = nothing THEN a[f] ELSE b[f]]

-----------------------------------------------------------------------------
(* The engine                                                                *)

\* A turn is remembered with its telemetry; the oldest is forgotten with its
\* record.
StartTurn ==
    LET order == Append(recentTurns, turnSeq + 1)
    IN  /\ calls = <<>> /\ turnSeq < MaxTurns
        /\ turnSeq' = turnSeq + 1
        /\ recentTurns' = Kept(order, CacheMax)
        /\ records' = records \ Oldest(order, CacheMax)
        /\ UNCHANGED <<gpuMetrics, sentenceCount, metric, cancelAck, calls, pending, caches,
                       uxIssued, over, store>>

DispatchSentence(t) ==
    /\ calls = <<>> /\ t <= turnSeq /\ metric[t] = Absent
    /\ sentenceCount[t] < Cardinality(Segments)
    /\ sentenceCount' = [sentenceCount EXCEPT ![t] = @ + 1]
    /\ UNCHANGED <<turnSeq, recentTurns, gpuMetrics, metric, records, cancelAck, calls, pending,
                   caches, uxIssued, over, store>>

AllHeard(t, S) == Cardinality(S) >= sentenceCount[t]

\* The figures of the segments heard from go into the record; the real-time
\* factor only when every sentence was heard from.
Applied(m, t, S) ==
    IF S = {} THEN m
    ELSE [m EXCEPT !.heard = S, !.whole = @ \/ AllHeard(t, S)]

\* A turn is reported once.  An interruption then waits for the GPU's
\* acknowledgement; an earlier one that still waits counts as timed out.
ReportMetrics(t, barged) ==
    /\ calls = <<>> /\ t <= turnSeq /\ metric[t] = Absent
    /\ metric' = [u \in Turns |->
           IF u = t
           THEN Applied([bargeIn |-> barged, ack |-> "open", heard |-> {}, whole |-> FALSE],
                        t, gpuMetrics[t])
           ELSE IF barged /\ u = cancelAck THEN [metric[u] EXCEPT !.ack = "timeout"]
           ELSE metric[u]]
    /\ records' = records \cup {t}
    /\ cancelAck' = IF barged THEN t ELSE cancelAck
    /\ calls' = IF barged /\ cancelAck # 0 THEN <<t, cancelAck>> ELSE <<t>>
    /\ UNCHANGED <<turnSeq, recentTurns, gpuMetrics, sentenceCount, pending, caches, uxIssued,
                   over, store>>

\* The acknowledgement comes, its timer fires or the engine stops: the record is
\* reported again with the verdict.
SettleCancelAck(verdict) ==
    /\ calls = <<>> /\ cancelAck # 0
    /\ metric' = [metric EXCEPT ![cancelAck].ack = verdict]
    /\ calls' = <<cancelAck>> /\ cancelAck' = 0
    /\ UNCHANGED <<turnSeq, recentTurns, gpuMetrics, sentenceCount, records, pending, caches,
                   uxIssued, over, store>>

\* Telemetry of a segment, the first of that segment; tail says that it measures
\* a cancellation.
OnGpuTtsMetrics(t, s, tail) ==
    LET S == gpuMetrics[t] \cup {s}
        again == t \in records /\ (AllHeard(t, S) \/ tail)
    IN  /\ calls = <<>> /\ Known(recentTurns, t) /\ s \notin gpuMetrics[t]
        /\ gpuMetrics' = [gpuMetrics EXCEPT ![t] = S]
        /\ metric' = IF again THEN [metric EXCEPT ![t] = Applied(@, t, S)] ELSE metric
        /\ calls' = IF again THEN <<t>> ELSE <<>>
        /\ UNCHANGED <<turnSeq, recentTurns, sentenceCount, records, cancelAck, pending, caches,
                       uxIssued, over, store>>

-----------------------------------------------------------------------------
(* The media session                                                         *)

\* The candidate stopped speaking: the endpoint waits for the next turn that is
\* reported for the first time.  Without new speech there is none.
OnTurnEnd(spoke) ==
    /\ calls = <<>> /\ ~over /\ speech < MaxSpeech
    /\ speech' = speech + 1
    /\ pendingEndpoint' = IF spoke THEN [Unmeasured EXCEPT !.eou = speech + 1]
                          ELSE pendingEndpoint
    /\ anchored' = (spoke \/ anchored)
    /\ pendingBarge' = 0
    /\ UNCHANGED <<engineVars, calls, caches, uxIssued, over, store>>

\* The first sound after it.
OnAudioOut ==
    /\ calls = <<>> /\ anchored
    /\ pendingEndpoint' = IF pendingEndpoint.eou = 0 THEN pendingEndpoint
                          ELSE [pendingEndpoint EXCEPT !.e2e = pendingEndpoint.eou]
    /\ anchored' = FALSE
    /\ UNCHANGED <<engineVars, calls, pendingBarge, speech, caches, uxIssued, over, store>>

DetectBargeIn ==
    /\ calls = <<>> /\ ~over /\ speech < MaxSpeech
    /\ speech' = speech + 1 /\ pendingBarge' = speech + 1
    /\ UNCHANGED <<engineVars, calls, pendingEndpoint, anchored, caches, uxIssued, over, store>>

\* The interruption was none: the turn goes on.
OnRecoveryWindowElapsed ==
    /\ calls = <<>> /\ ~over
    /\ pendingBarge' = 0
    /\ pendingEndpoint' = IF pendingEndpoint.eou = 0 THEN pendingEndpoint
                          ELSE [pendingEndpoint EXCEPT !.resumed = pendingEndpoint.eou]
    /\ UNCHANGED <<engineVars, calls, anchored, speech, caches, uxIssued, over, store>>

\* put: the version is written when the one put before it is settled.
Put(t, what) ==
    /\ puts' = Append(puts, [turn |-> t, what |-> what, after |-> lastPut[t],
                             state |-> "waiting"])
    /\ lastPut' = [lastPut EXCEPT ![t] = Len(puts) + 1]
    /\ UNCHANGED <<row, sampled, sampledOrder, samples, repeated, forgotten>>

\* trimMetricsCaches, of the maps as they are after an entry was set.
Trims(byTurn, order, ux, uxs) ==
    LET gone == Oldest(order, CacheMax)
        rest == Deleted(uxs, gone)
        both == gone \cup Oldest(rest, CacheMax)
    IN  /\ complete' = Cleared(byTurn, gone) /\ completeOrder' = Kept(order, CacheMax)
        /\ uxByTurn' = Cleared(ux, both) /\ uxOrder' = Kept(rest, CacheMax)
        /\ dropped' = dropped \cup both

\* A turn keeps the endpoint it was first reported with; what is known of it is
\* written over by what is reported now, and that by what the browser measured.
OnMetrics ==
    LET t == calls[1]
        first == endpointByTurn[t] = Absent
        barge == IF metric[t].bargeIn THEN pendingBarge ELSE 0
        ep == IF ~first THEN endpointByTurn[t]
              ELSE IF barge = 0 THEN pendingEndpoint
              ELSE [pendingEndpoint EXCEPT !.barge = barge]
        order == Append(endpointOrder, t)
        previous == complete[t]
        ux == IF uxByTurn[t] = Absent THEN Unseen ELSE uxByTurn[t]
        whole == [em |-> metric[t],
                  ep |-> IF previous = Absent THEN ep ELSE Spread(previous.ep, ep, 0),
                  ux |-> IF previous = Absent THEN ux ELSE Spread(previous.ux, ux, Absent)]
    IN  /\ calls # <<>> /\ Len(puts) < MaxPuts
        /\ calls' = Tail(calls)
        /\ IF first
           THEN /\ pendingEndpoint' = Unmeasured /\ pendingBarge' = 0
                /\ endpointByTurn' = Cleared([endpointByTurn EXCEPT ![t] = ep],
                                             Oldest(order, EndpointMax))
                /\ endpointOrder' = Kept(order, EndpointMax)
                /\ outrun' = outrun \cup Oldest(order, EndpointMax)
           ELSE UNCHANGED <<pendingEndpoint, pendingBarge, endpointByTurn, endpointOrder, outrun>>
        /\ Trims([complete EXCEPT ![t] = whole], Entered(completeOrder, t), uxByTurn, uxOrder)
        /\ Put(t, whole)
        /\ UNCHANGED <<engineVars, anchored, speech, uxIssued, over>>

OnTurnAudioBegin(t) ==
    /\ calls = <<>> /\ ~over /\ t <= turnSeq
    /\ uxIssued' = Kept(Entered(uxIssued, t), IssuedMax)
    /\ UNCHANGED <<engineVars, calls, pending, caches, over, store>>

\* The browser measured some figures of turn t: of each figure the first counts,
\* and the row is written again if the turn was reported.
NoteUxTelemetry(t, measured) ==
    LET current == IF uxByTurn[t] = Absent THEN Unseen ELSE uxByTurn[t]
        next == Spread(measured, current, Absent)
        whole == [complete[t] EXCEPT !.ux = Spread(@, next, Absent)]
    IN  /\ calls = <<>> /\ ~over /\ Known(uxIssued, t) /\ next # current
        /\ Len(puts) < MaxPuts
        /\ IF complete[t] = Absent
           THEN /\ Trims(complete, completeOrder, [uxByTurn EXCEPT ![t] = next],
                         Entered(uxOrder, t))
                /\ UNCHANGED store
           ELSE /\ Trims([complete EXCEPT ![t] = whole], completeOrder,
                         [uxByTurn EXCEPT ![t] = next], Entered(uxOrder, t))
                /\ Put(t, whole)
        /\ UNCHANGED <<engineVars, calls, pending, endpointByTurn, endpointOrder, outrun, uxIssued,
                       over>>

\* The end of the session empties the maps, and only then is the engine
\* cancelled and stopped, which may still report.
SessionEnds ==
    /\ calls = <<>> /\ ~over
    /\ over' = TRUE
    /\ endpointByTurn' = [t \in Turns |-> Absent] /\ endpointOrder' = <<>>
    /\ uxByTurn' = [t \in Turns |-> Absent] /\ uxOrder' = <<>> /\ uxIssued' = <<>>
    /\ complete' = [t \in Turns |-> Absent] /\ completeOrder' = <<>>
    /\ dropped' = Turns /\ outrun' = Turns
    /\ UNCHANGED <<engineVars, calls, pending, store>>

-----------------------------------------------------------------------------
(* The store                                                                 *)

\* The figures a version has, and the schemas it is sampled under: those of the
\* provider only once the provider is observed.
NamesOf(c) ==
    Plain \cup (IF c.em.whole THEN {"tts_rtf"} ELSE {})
          \cup (IF c.em.ack = "open" THEN {} ELSE {"cancel_ack_timeout"})
          \cup {f \in EndpointFields \ {"resumed"} : c.ep[f] # 0}
          \cup {f \in Fields : c.ux[f] # Absent}
SchemasOf(t, c) ==
    {<<"all">>, <<"llm_model">>}
    \cup (IF c.em.heard = {} THEN {} ELSE {<<"provider", Dimension[t, c.em.heard]>>})

\* emitEmf: what was not yet sampled of the turn under a schema.
EmitEmf(t, c) ==
    LET order == Entered(sampledOrder, t)
        gone == Oldest(order, EmfMax)
        new == (SchemasOf(t, c) \X NamesOf(c)) \ sampled[t]
    IN  /\ sampled' = [u \in Turns |-> IF u \in gone THEN {}
                                       ELSE IF u = t THEN sampled[u] \cup new ELSE sampled[u]]
        /\ sampledOrder' = Kept(order, EmfMax)
        /\ samples' = samples \cup ({t} \X new)
        /\ repeated' = repeated \cup (({t} \X new) \cap samples)
        /\ forgotten' = forgotten \cup gone

\* writeSnapshot up to its await.
WriteSnapshot(w) ==
    /\ puts[w].state = "waiting"
    /\ puts[w].after # 0 => puts[puts[w].after].state \in Settled
    /\ EmitEmf(puts[w].turn, puts[w].what)
    /\ puts' = [puts EXCEPT ![w].state = IF HasTable THEN "sending" ELSE "skipped"]
    /\ UNCHANGED <<engineVars, calls, pending, caches, uxIssued, over, lastPut, row>>

Lands(w) ==
    /\ puts[w].state = "sending"
    /\ puts' = [puts EXCEPT ![w].state = "landed"]
    /\ row' = [row EXCEPT ![puts[w].turn] = w]
    /\ UNCHANGED <<engineVars, calls, pending, caches, uxIssued, over, lastPut, sampled,
                   sampledOrder, samples, repeated, forgotten>>

Fails(w) ==
    /\ puts[w].state = "sending"
    /\ puts' = [puts EXCEPT ![w].state = "failed"]
    /\ UNCHANGED <<engineVars, calls, pending, caches, uxIssued, over, lastPut, row, sampled,
                   sampledOrder, samples, repeated, forgotten>>

\* A request that was given up, or an attempt of one that was tried again, may
\* be carried out all the same, and as late as it likes.
LandsLate(w) ==
    /\ puts[w].state \in Sent
    /\ row' = [row EXCEPT ![puts[w].turn] = w]
    /\ UNCHANGED <<engineVars, calls, pending, caches, uxIssued, over, puts, lastPut, sampled,
                   sampledOrder, samples, repeated, forgotten>>

\* put returns: the last of a turn takes its promise out of the map.
Returns(w) ==
    /\ puts[w].state \in Settled /\ lastPut[puts[w].turn] = w
    /\ lastPut' = [lastPut EXCEPT ![puts[w].turn] = 0]
    /\ UNCHANGED <<engineVars, calls, pending, caches, uxIssued, over, puts, row, sampled,
                   sampledOrder, samples, repeated, forgotten>>

-----------------------------------------------------------------------------
MetricsNext ==
    \/ StartTurn \/ OnAudioOut \/ DetectBargeIn \/ OnRecoveryWindowElapsed
    \/ OnMetrics \/ SessionEnds
    \/ \E v \in {"acked", "timeout"} : SettleCancelAck(v)
    \/ \E b \in BOOLEAN : OnTurnEnd(b)
    \/ \E t \in Turns :
          \/ DispatchSentence(t) \/ OnTurnAudioBegin(t)
          \/ \E b \in BOOLEAN : ReportMetrics(t, b)
          \/ \E s \in Segments, b \in BOOLEAN : OnGpuTtsMetrics(t, s, b)
          \/ \E measured \in Browsers : NoteUxTelemetry(t, measured)
    \/ \E w \in 1..Len(puts) :
          WriteSnapshot(w) \/ Lands(w) \/ Fails(w) \/ LandsLate(w) \/ Returns(w)

MetricsSpec == MetricsInit /\ [][MetricsNext]_metricsVars

-----------------------------------------------------------------------------
(* Properties                                                                *)

\* A version whose request the store still awaits never replaces a newer one of
\* the same turn, however long requests take and whichever fail: only a request
\* that was settled before, and lands late, can (turn-metrics.ts, put).
Forward == \A t \in Turns : row'[t] >= row[t] \/ puts[row'[t]].state \in Sent
RowsGoForward == [][Forward]_metricsVars

\* A figure of a turn is sampled once under a schema, as long as the turn is
\* remembered.
SampledOnce == \A x \in repeated : x[1] \in forgotten

\* The figures of one speech are never in the rows of two turns.
SpeechHasOneTurn ==
    \A i, j \in 1..Len(puts) : \A f \in EndpointFields :
        /\ puts[i].what.ep[f] # 0
        /\ puts[i].what.ep[f] = puts[j].what.ep[f]
        => puts[i].turn = puts[j].turn

\* A later version of a turn has all that an earlier one has: the verdict of an
\* acknowledgement and the segments heard from always, the endpoint and what the
\* browser measured as long as they were not deleted from the maps.
NothingIsLost ==
    \A i, j \in 1..Len(puts) :
        i < j /\ puts[i].turn = puts[j].turn =>
            LET a == puts[i].what
                b == puts[j].what
            IN  /\ a.em.ack # "open" => b.em.ack = a.em.ack
                /\ a.em.heard \subseteq b.em.heard
                /\ a.em.whole => b.em.whole
                /\ puts[i].turn \notin outrun => b.ep = a.ep
                /\ puts[i].turn \notin dropped =>
                      \A f \in Fields : a.ux[f] # Absent => b.ux[f] = a.ux[f]

=============================================================================
