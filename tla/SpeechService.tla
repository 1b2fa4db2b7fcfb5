---------------------------- MODULE SpeechService ----------------------------
(***************************************************************************)
(* One instance of the GPU speech service (gpu/gpu_service): connections   *)
(* that share one recogniser.                                              *)
(*                                                                         *)
(*   conn     server.py stream(): a connection's receive loop, at one of   *)
(*            its awaits; session.py: the input turn, the generation of    *)
(*            cancellations; the task that speaks its sentences            *)
(*   jobs     asr_execution.py: recognitions queued for the one thread,    *)
(*            the first of them running; "left" when nobody awaits it      *)
(*   hung     the running one is a native call that never returns          *)
(*   active, draining, loaded, healthy    admission: a thread loads the    *)
(*            models and probes them, which may fail; healthy until a      *)
(*            recognition times out: the executor then takes no other, and *)
(*            the instance is not ready any more                           *)
(* The requests to ECS that protect the task while it is used are modelled *)
(* only as awaits of the connection that makes them, which they let others *)
(* overtake: what ECS does with them is not modelled.                      *)
(*                                                                         *)
(* A coroutine runs from one await to the next, so a step ends where the   *)
(* code awaits a recognition, a request to ECS or a chunk of speech.       *)
(* What a client may send it may send whenever the loop receives; audio is *)
(* speech or the silence that ends a turn.  Protocol errors, which answer  *)
(* with an error frame and change nothing, are left out, and metrics.      *)
(***************************************************************************)
EXTENDS Integers, Sequences, FiniteSets

CONSTANTS
    Connections,  \* bound: connections made to the instance
    Slots,        \* gpu_max_sessions
    FailClosed,   \* AIM_PROTECT_FAIL_CLOSED
    MaxRequests,  \* bound: requests received on all connections
    MaxSentences, \* bound: sentences to be spoken on a connection
    MaxChunks     \* bound: chunks of a sentence

Conns == 1..Connections   \* in the order they come

ASSUME ServiceAssumption ==
    /\ {Connections, Slots, MaxRequests, MaxSentences, MaxChunks} \subseteq Nat \ {0}
    /\ FailClosed \in BOOLEAN

VARIABLES
    conn, jobs, active, draining, loaded, healthy, hung,
    requests    \* counts the requests received

vars == <<conn, jobs, active, draining, loaded, healthy, hung, requests>>
instance == <<draining, loaded, healthy, hung>>

Silent == [ph |-> "none", s |-> 0, cut |-> 0, n |-> 0, frame |-> "none"]

\* "ends", "acked" and "late" observe what was sent: the ends of each sentence,
\* the generation last acknowledged, audio of a sentence older than that.
Away == [at |-> "away", up |-> TRUE, admitted |-> FALSE,
         speech |-> FALSE, rest |-> FALSE, todo |-> <<>>, reply |-> "none",
         cut |-> 0, cancelled |-> FALSE, said |-> 0, q |-> <<>>, tts |-> Silent,
         ends |-> [s \in 1..MaxSentences |-> 0], acked |-> 0, late |-> FALSE]

Init ==
    /\ conn = [c \in Conns |-> Away]
    /\ jobs = <<>> /\ active = 0 /\ requests = 0
    /\ draining = FALSE /\ loaded = "no" /\ healthy = TRUE /\ hung = FALSE

Put(c, r) == conn' = [conn EXCEPT ![c] = r]

-----------------------------------------------------------------------------
(* Frames to the client                                                    *)

Audio(r) == [r EXCEPT !.late = @ \/ r.tts.cut < r.acked, !.tts.n = @ + 1]
Done(r) == [r EXCEPT !.ends[r.tts.s] = @ + 1]

(* stop_tts *)
StopTts(r) == [r EXCEPT !.cut = @ + 1, !.cancelled = TRUE]

(* The end of the receive loop's finally: speech stops only now, after the *)
(* request to ECS if there was one.                                        *)
Gone(r) == [Away EXCEPT !.at = "gone", !.up = FALSE, !.late = r.late]

(* finally: the last session of the instance waits for a request to ECS.   *)
Leave(c, r) ==
    /\ active' = active - 1
    /\ Put(c, IF active = 1 THEN [r EXCEPT !.at = "closing", !.admitted = FALSE]
              ELSE Gone(r))

-----------------------------------------------------------------------------
(* Admission                                                               *)

Arrives(c) ==
    /\ conn[c].at = "away" /\ \A d \in 1..(c - 1) : conn[d].at # "away"
    /\ UNCHANGED <<jobs, instance, requests>>

\* _self_probe: every voice speaks, and the recogniser hears silence, or not.
Probed == {"yes", "failed"}
\* The thread that loads the models and probes them is through.
Loads ==
    /\ loaded = "no" /\ loaded' \in Probed
    /\ UNCHANGED <<conn, jobs, active, draining, healthy, hung, requests>>

\* A connection to an instance that is not ready, or a start on one that is full
\* or draining (CAPACITY_FULL).
Refuse(c) ==
    /\ Arrives(c)
    /\ loaded # "yes" \/ ~healthy \/ draining \/ active >= Slots
    /\ Put(c, Gone(conn[c])) /\ UNCHANGED active

\* start: the slot is taken before anything is awaited; the first session of
\* the instance waits until its task is protected.  The connection may have been
\* made while the instance was still ready.
Start(c) ==
    /\ Arrives(c) /\ loaded = "yes" /\ ~draining /\ active < Slots
    /\ Put(c, [conn[c] EXCEPT !.at = IF active = 0 THEN "protect" ELSE "live",
                              !.admitted = TRUE])
    /\ active' = active + 1

\* The request to ECS has come back: the session is served, unless it failed
\* and FailClosed asks for protection; a connection that closes is gone.
Protects(c) ==
    /\ \/ /\ conn[c].at = "protect"
          /\ Put(c, [conn[c] EXCEPT !.at = "live"]) /\ UNCHANGED active
       \/ conn[c].at = "protect" /\ FailClosed /\ Leave(c, conn[c])
       \/ conn[c].at = "closing" /\ Put(c, Gone(conn[c])) /\ UNCHANGED active
    /\ UNCHANGED <<jobs, instance, requests>>

\* POST /drain: new sessions are refused, which matters while one may come; it
\* can be taken back.
Drain ==
    /\ draining' = ~draining
    /\ loaded = "yes" /\ \E c \in Conns : conn[c].at = "away"
    /\ UNCHANGED <<conn, jobs, active, loaded, healthy, hung, requests>>

-----------------------------------------------------------------------------
(* Recognition                                                             *)

(* What a handler does when its recognitions are done.                     *)
Reply(r) ==
    [r EXCEPT !.at = "live", !.reply = "none",
              !.acked = IF r.reply = "cancel" THEN r.cut ELSE @]

(* enqueued: behind all that are queued or run.                            *)
Queued(queue, c, kind) == Append(queue, [c |-> c, kind |-> kind, left |-> FALSE])
(* idle_marker: nothing is queued or runs.                                 *)
Idle == jobs = <<>>

(* run: the next recognition of a handler is queued, or refused by an      *)
(* executor one of whose operations timed out, which ends the connection.  *)
Proceed(c, r, queue) ==
    IF r.todo = <<>>
    THEN Put(c, Reply(r)) /\ jobs' = queue /\ UNCHANGED active
    ELSE IF healthy
    THEN /\ Put(c, [r EXCEPT !.at = "asr", !.todo = Tail(@)])
         /\ jobs' = Queued(queue, c, Head(r.todo))
         /\ UNCHANGED active
    ELSE Leave(c, r) /\ jobs' = queue

Receives(c) ==
    /\ conn[c].at = "live" /\ conn[c].up /\ requests < MaxRequests
    /\ requests' = requests + 1
    /\ UNCHANGED instance

(* _finalize_asr: what is left of the audio first.                         *)
Finalize(r) == IF r.rest THEN <<"residual", "finalize">> ELSE <<"finalize">>

\* on_audio with speech, which may complete a chunk for the recogniser.
Speech(c) ==
    /\ Receives(c)
    /\ \E chunk, rest \in BOOLEAN :
          /\ chunk \/ rest
          /\ Proceed(c, [conn[c] EXCEPT !.speech = TRUE, !.rest = rest,
                           !.todo = IF chunk THEN <<"stream">> ELSE <<>>,
                           !.reply = "audio"],
                     jobs)

\* on_audio with the silence that ends the turn.
Endpoint(c) ==
    /\ Receives(c) /\ conn[c].speech
    /\ Proceed(c, [conn[c] EXCEPT !.speech = FALSE, !.todo = Finalize(conn[c]),
                                  !.rest = FALSE, !.reply = "turn"],
               jobs)

\* flush of the turn the client means, if it is the current one: always a turn_end.
Flush(c) ==
    /\ Receives(c)
    /\ \E current \in BOOLEAN :
          IF current
          THEN Proceed(c, [conn[c] EXCEPT !.speech = FALSE, !.rest = FALSE,
                             !.todo = IF conn[c].speech THEN Finalize(conn[c]) ELSE <<>>,
                             !.reply = "turn"],
                       jobs)
          ELSE UNCHANGED <<conn, jobs, active>>

(* _reset_uncommitted_input *)
Uncommitted(r, reply) ==
    [r EXCEPT !.speech = FALSE, !.rest = FALSE, !.todo = <<"reset">>, !.reply = reply]

\* input_reset
InputReset(c) ==
    Receives(c) /\ Proceed(c, Uncommitted(conn[c], "reset"), jobs)

\* cancel: speech stops now; the acknowledgement waits for the recogniser.
Cancel(c) ==
    Receives(c) /\ Proceed(c, Uncommitted(StopTts(conn[c]), "cancel"), jobs)

\* The recogniser's thread finishes its job, well or with an exception.
JobDone ==
    /\ jobs # <<>> /\ ~hung
    /\ LET job == Head(jobs)
           r == conn[job.c]
       IN IF job.left
          THEN jobs' = Tail(jobs) /\ UNCHANGED <<conn, active>>
          ELSE \/ Proceed(job.c, r, Tail(jobs))
               \/ Leave(job.c, r) /\ jobs' = Tail(jobs)
    /\ UNCHANGED <<instance, requests>>

\* The running recognition will never return, and nothing can stop it: the jobs
\* behind it never run, and the recogniser is never idle again.
JobHangs ==
    /\ jobs # <<>> /\ ~hung
    /\ hung' = TRUE
    /\ UNCHANGED <<conn, jobs, active, draining, loaded, healthy, requests>>

Mine(c) == {i \in DOMAIN jobs : jobs[i].c = c /\ ~jobs[i].left}

\* Mutant of JobTimeout: only this session suffers.
JobTimeoutForgiven(c) ==
    /\ conn[c].at = "asr"
    /\ jobs' = [i \in DOMAIN jobs |->
                  IF i \in Mine(c) THEN [jobs[i] EXCEPT !.left = TRUE] ELSE jobs[i]]
    /\ Leave(c, conn[c])
    /\ UNCHANGED <<instance, requests>>
\* AsrExecutionTimeout: the job cannot be stopped, the executor takes no other,
\* the instance is not ready any more and the connection ends.
JobTimeout(c) ==
    /\ conn[c].at = "asr"
    /\ healthy' = FALSE
    /\ jobs' = [i \in DOMAIN jobs |->
                  IF i \in Mine(c) THEN [jobs[i] EXCEPT !.left = TRUE] ELSE jobs[i]]
    /\ Leave(c, conn[c])
    /\ UNCHANGED <<draining, loaded, hung, requests>>

-----------------------------------------------------------------------------
(* Speech                                                                  *)

\* tts_text: only queued, with the generation it belongs to.
TtsText(c) ==
    /\ Receives(c) /\ conn[c].said < MaxSentences
    /\ LET s == conn[c].said + 1
       IN Put(c, [conn[c] EXCEPT !.said = s,
                                 !.q = Append(@, [s |-> s, cut |-> conn[c].cut]),
                                 !.tts.ph = IF @ = "none" THEN "get" ELSE @])
    /\ UNCHANGED <<jobs, active>>

Speaking(c, ph) == conn[c].tts.ph = ph /\ UNCHANGED <<jobs, active, instance, requests>>

\* _tts_consumer takes the oldest sentence.
TtsTakes(c) ==
    /\ Speaking(c, "get") /\ conn[c].q # <<>>
    /\ LET item == Head(conn[c].q)
       IN Put(c, [conn[c] EXCEPT !.q = Tail(@),
                    !.tts = [ph |-> "idle", s |-> item.s, cut |-> item.cut,
                             n |-> 0, frame |-> "none"]])

NextSentence(r) == [r EXCEPT !.tts = [Silent EXCEPT !.ph = "get"]]

\* Mutant of TtsBegins: a sentence of an older generation is not dropped.
TtsBeginsKeeps(c) ==
    /\ Speaking(c, "idle") /\ Idle /\ conn[c].tts.cut = conn[c].cut
    /\ Put(c, [conn[c] EXCEPT !.tts.ph = "clear"])
\* wait_until_idle, then on_tts_text up to its check of the generation.
TtsBegins(c) ==
    /\ Speaking(c, "idle") /\ Idle
    /\ Put(c, IF conn[c].tts.cut # conn[c].cut THEN NextSentence(conn[c])
              ELSE [conn[c] EXCEPT !.tts.ph = "clear"])

\* The thread resets the flag; a cancellation may have come since the check.
TtsClears(c) ==
    /\ Speaking(c, "clear")
    /\ Put(c, [conn[c] EXCEPT !.cancelled = FALSE, !.tts.ph = "compute"])

\* The generator in the thread: a chunk, the end, or an exception.
TtsComputes(c) ==
    /\ Speaking(c, "compute")
    /\ LET r == conn[c]
           finish == IF r.cancelled THEN NextSentence(r)
                     ELSE [r EXCEPT !.tts.ph = "send", !.tts.frame = "done"]
       IN \/ r.tts.n < MaxChunks
             /\ Put(c, IF r.cancelled \/ r.tts.cut # r.cut THEN finish
                       ELSE [r EXCEPT !.tts.ph = "send", !.tts.frame = "audio"])
          \/ Put(c, finish)
          \/ Put(c, [r EXCEPT !.tts.ph = "failed"])

Frame(r) == IF r.tts.frame = "done" THEN NextSentence(Done(r))
            ELSE [Audio(r) EXCEPT !.tts.ph = "compute"]

\* Mutant of TtsSends: the generation is not checked again after the chunk.
TtsSendsBlindly(c) == Speaking(c, "send") /\ Put(c, Frame(conn[c]))
\* _run_tts and _send: the generation is checked under the lock that orders frames.
TtsSends(c) ==
    /\ Speaking(c, "send")
    /\ LET r == conn[c]
       IN Put(c, IF r.tts.cut # r.cut THEN NextSentence(r) ELSE Frame(r))

\* Mutant of TtsFails: a sentence that fails is not ended.
TtsFailsSilently(c) == Speaking(c, "failed") /\ Put(c, NextSentence(conn[c]))
\* A sentence that fails is ended for the client all the same, unless cancelled.
TtsFails(c) ==
    /\ Speaking(c, "failed")
    /\ LET r == conn[c]
       IN Put(c, NextSentence(IF r.cancelled THEN r ELSE Done(r)))

-----------------------------------------------------------------------------
(* The end of a connection                                                 *)

\* end: speech stops; bye waits until every sentence has been taken and dropped.
End(c) ==
    /\ Receives(c)
    /\ Put(c, [StopTts(conn[c]) EXCEPT !.at = "join"])
    /\ UNCHANGED <<jobs, active>>

Bye(c) ==
    /\ conn[c].at = "join" /\ conn[c].q = <<>> /\ conn[c].tts.ph \in {"none", "get"}
    /\ Leave(c, conn[c])
    /\ UNCHANGED <<jobs, instance, requests>>

\* The client is gone, which the loop notices when it receives.
ClientLeaves(c) ==
    /\ conn[c].at \in {"protect", "live", "asr"} /\ conn[c].up
    /\ Put(c, [conn[c] EXCEPT !.up = FALSE])
    /\ UNCHANGED <<jobs, active, instance, requests>>
Disconnects(c) ==
    /\ conn[c].at = "live" /\ ~conn[c].up
    /\ Leave(c, conn[c])
    /\ UNCHANGED <<jobs, instance, requests>>

-----------------------------------------------------------------------------
Consumer(c) ==
    \/ TtsTakes(c) \/ TtsBegins(c) \/ TtsClears(c) \/ TtsComputes(c)
    \/ TtsSends(c) \/ TtsFails(c)

Closing(c) == Protects(c) \/ Bye(c) \/ Disconnects(c)

Next ==
    \/ Loads \/ Drain \/ JobDone \/ JobHangs
    \/ \E c \in Conns :
          \/ Refuse(c) \/ Start(c)
          \/ Speech(c) \/ Endpoint(c) \/ Flush(c) \/ InputReset(c) \/ Cancel(c)
          \/ JobTimeout(c) \/ TtsText(c) \/ Consumer(c)
          \/ End(c) \/ ClientLeaves(c) \/ Closing(c)

(* A recognition ends unless it hangs, and its timer fires if it does; a   *)
(* chunk and a request to ECS end; and the event loop runs what is ready.  *)
(* Clients need not do anything.                                           *)
Fairness ==
    /\ WF_vars(JobDone)
    /\ \A c \in Conns : WF_vars(JobTimeout(c)) /\ WF_vars(Consumer(c)) /\ WF_vars(Closing(c))

Spec == Init /\ [][Next]_vars /\ Fairness

-----------------------------------------------------------------------------
(* Properties                                                              *)

Kinds == {"stream", "residual", "finalize", "reset"}
Sessions ==
    [at : {"away", "protect", "live", "asr", "join", "closing", "gone"},
     up : BOOLEAN, admitted : BOOLEAN, speech : BOOLEAN, rest : BOOLEAN,
     todo : Seq(Kinds), reply : {"none", "audio", "turn", "reset", "cancel", "end"},
     cut : Nat, cancelled : BOOLEAN, said : 0..MaxSentences,
     q : Seq([s : 1..MaxSentences, cut : Nat]),
     tts : [ph : {"none", "get", "idle", "clear", "compute", "send", "failed"},
            s : 0..MaxSentences, cut : Nat, n : 0..MaxChunks,
            frame : {"none", "audio", "done"}],
     ends : [1..MaxSentences -> Nat], acked : Nat, late : BOOLEAN]

TypeOK ==
    /\ conn \in [Conns -> Sessions]
    /\ jobs \in Seq([c : Conns, kind : Kinds, left : BOOLEAN])
    /\ active \in 0..Slots /\ requests \in 0..MaxRequests
    /\ draining \in BOOLEAN /\ loaded \in {"no"} \cup Probed
    /\ healthy \in BOOLEAN /\ hung \in BOOLEAN

\* cancel_ack is a fence: after it no audio of a sentence that was queued before
\* the cancellation is sent, whatever the synthesis thread was doing.
CancelIsFence ==
    \A c \in Conns : ~conn[c].late

\* A sentence is ended for the client at most once, and when the speaker has
\* nothing left, each sentence of the current generation has been.
SentencesEndOnce ==
    \A c \in Conns : \A s \in 1..MaxSentences :
        /\ conn[c].ends[s] <= 1
        /\ (conn[c].at = "live" /\ conn[c].cut = 0 /\ s <= conn[c].said
              /\ conn[c].q = <<>> /\ conn[c].tts.ph = "get") => conn[c].ends[s] = 1

\* Only while the executor may still be used is a job queued behind others: the
\* recogniser is never shared with an operation everybody has given up on.
NoJobBehindAbandoned ==
    [][Len(jobs') > Len(jobs) => \A i \in DOMAIN jobs : ~jobs[i].left]_vars

\* The connection has asked to end while its speaker waits for a recogniser that
\* will never be idle again (wait_until_idle has no timeout).
HeldUp(c) == hung /\ conn[c].at = "join" /\ conn[c].tts.ph = "idle"

\* Whoever has left, or has asked to end, gives its slot back, whatever the
\* recogniser and the speaker were doing for it; only an end whose sentence
\* waits for a recognition that never returns is held up for ever, while one
\* whose own recognition hangs leaves with its timeout (server.py:1029,
\* asr_execution.py:429, 452).
SlotsComeBack ==
    \A c \in Conns : (conn[c].admitted /\ (~conn[c].up \/ conn[c].at = "join"))
                        ~> (~conn[c].admitted \/ HeldUp(c))

=============================================================================
