--------------------------- MODULE ExamConnection ---------------------------
(***************************************************************************)
(* The page of an interview, frontend/src/views/Exam.tsx: microphone and    *)
(* audio context, the request to join, the socket, its retries, the timer of*)
(* a requested end, and the view that may be left at any moment.            *)
(*                                                                         *)
(* An `attempt` is one run of startExam, retry or the retry timer's         *)
(* connect(): an asynchronous function that is suspended at an await and    *)
(* goes on whatever has happened to the page meanwhile.  A socket is closed *)
(* on this side at once ("closing"), after which it delivers nothing but its*)
(* close event.  What the server sends first is one of ready, an error or   *)
(* ended; after an error or ended it sends no more (index.ts).              *)
(*                                                                         *)
(* halfBuilt and leftBusy are history: a microphone was opened and the rest *)
(* of the pipeline failed; an attempt was under way when the view was left. *)
(***************************************************************************)
EXTENDS Integers

CONSTANTS MaxRetry,     \* MAX_RETRY
          MaxAttempts,  \* bound: the attempts of a page
          MaxSockets    \* bound: the sockets it opens

VARIABLES phase,        \* phaseRef
          tries,        \* attemptRef
          retryTimers,  \* the timers of scheduleRetry that are armed
          endTimers,    \* those of endExam
          endKnown,     \* endTimerRef is one of them
          ended,        \* endedRef
          handled,      \* closeHandledRef
          sendsAudio,   \* readyRef
          context,      \* ctxRef
          mic,          \* micRef: the microphone is on
          attempt,      \* where each attempt is suspended
          begun,        \* the attempts begun
          from,         \* the phase an attempt falls back to
          ws,           \* wsRef, 0 for null
          socket,       \* the state of each socket
          heard,        \* what the page was told on it
          opened,       \* the sockets opened
          gone,         \* the view was left
          halfBuilt, leftBusy

pageVars == <<phase, tries, ended, handled, sendsAudio, gone>>
timerVars == <<retryTimers, endTimers, endKnown>>
audioVars == <<context, mic, halfBuilt>>
attemptVars == <<attempt, begun, from>>
socketVars == <<ws, socket, heard, opened>>
examVars == <<pageVars, timerVars, audioVars, attemptVars, socketVars, leftBusy>>

Phases == {"idle", "connecting", "live", "ending", "ended", "failed"}
Attempts == 1..MaxAttempts
SocketIds == 1..MaxSockets
Awaits == {"context", "microphone", "join"}
UnderWay(a) == attempt[a] \in Awaits

FlagsTyped ==
    /\ ended \in BOOLEAN /\ handled \in BOOLEAN /\ sendsAudio \in BOOLEAN /\ gone \in BOOLEAN
    /\ endKnown \in BOOLEAN /\ context \in BOOLEAN /\ mic \in BOOLEAN
    /\ halfBuilt \in BOOLEAN /\ leftBusy \in BOOLEAN
CountsTyped ==
    /\ tries \in 0..MaxRetry /\ retryTimers \in Nat /\ endTimers \in Nat
    /\ endKnown => endTimers > 0
AttemptsTyped ==
    /\ attempt \in [Attempts -> {"unused", "over"} \cup Awaits] /\ begun \in 0..MaxAttempts
    /\ from \in [Attempts -> {"idle", "failed"}]
SocketsTyped ==
    /\ ws \in 0..opened /\ opened \in 0..MaxSockets
    /\ socket \in [SocketIds -> {"unused", "connecting", "open", "closing", "closed"}]
    /\ heard \in [SocketIds -> {"nothing", "ready", "over"}]
ExamTypeOK == phase \in Phases /\ FlagsTyped /\ CountsTyped /\ AttemptsTyped /\ SocketsTyped

ExamInit ==
    /\ phase = "idle" /\ tries = 0 /\ retryTimers = 0 /\ endTimers = 0 /\ endKnown = FALSE
    /\ ended = FALSE /\ handled = FALSE /\ sendsAudio = FALSE
    /\ context = FALSE /\ mic = FALSE /\ halfBuilt = FALSE
    /\ attempt = [a \in Attempts |-> "unused"] /\ begun = 0
    /\ from = [a \in Attempts |-> "idle"]
    /\ ws = 0 /\ socket = [s \in SocketIds |-> "unused"] /\ heard = [s \in SocketIds |-> "nothing"]
    /\ opened = 0 /\ gone = FALSE /\ leftBusy = FALSE

-----------------------------------------------------------------------------
(* The pipeline of sound                                                     *)

TeardownAudio ==
    /\ sendsAudio' = FALSE
    /\ context' = FALSE /\ mic' = FALSE /\ halfBuilt' = FALSE

\* ensureAudio, up to its first await; at once when there is a pipeline already,
\* and then the request to join follows.
Begin(fallback) ==
    /\ begun < MaxAttempts
    /\ begun' = begun + 1
    /\ from' = [from EXCEPT ![begun + 1] = fallback]
    /\ attempt' = [attempt EXCEPT ![begun + 1] =
                      IF context /\ mic THEN "join" ELSE "context"]
    /\ context' = TRUE

\* The attempt is given up and the page shows where it came from.
FallsBack(a) ==
    /\ attempt' = [attempt EXCEPT ![a] = "over"]
    /\ phase' = from[a]

ContextReady(a) ==
    /\ attempt[a] = "context"
    /\ attempt' = [attempt EXCEPT ![a] = "microphone"]
    /\ UNCHANGED <<pageVars, timerVars, audioVars, begun, from, socketVars, leftBusy>>

ContextFails(a) ==
    /\ attempt[a] = "context"
    /\ FallsBack(a)
    /\ UNCHANGED <<tries, ended, handled, sendsAudio, gone, timerVars, audioVars, begun, from,
                   socketVars, leftBusy>>

MicGranted(a) ==
    /\ attempt[a] = "microphone"
    /\ mic' = TRUE
    /\ attempt' = [attempt EXCEPT ![a] = "join"]
    /\ UNCHANGED <<pageVars, timerVars, context, halfBuilt, begun, from, socketVars, leftBusy>>

MicDenied(a) ==
    /\ attempt[a] = "microphone"
    /\ FallsBack(a)
    /\ UNCHANGED <<tries, ended, handled, sendsAudio, gone, timerVars, audioVars, begun, from,
                   socketVars, leftBusy>>

\* The microphone is on and its worklet cannot be made.
CaptureFails(a) ==
    /\ attempt[a] = "microphone"
    /\ mic' = TRUE /\ halfBuilt' = TRUE
    /\ FallsBack(a)
    /\ UNCHANGED <<tries, ended, handled, sendsAudio, gone, timerVars, context, begun, from,
                   socketVars, leftBusy>>

-----------------------------------------------------------------------------
(* Attempts and retries                                                      *)

StartExam ==
    /\ ~gone /\ phase = "idle"
    /\ phase' = "connecting" /\ tries' = 0 /\ ended' = FALSE
    /\ Begin("idle")
    /\ UNCHANGED <<handled, sendsAudio, gone, timerVars, mic, halfBuilt, socketVars, leftBusy>>

Retry ==
    /\ ~gone /\ phase = "failed"
    /\ phase' = "connecting" /\ tries' = 0
    /\ Begin("failed")
    /\ UNCHANGED <<ended, handled, sendsAudio, gone, timerVars, mic, halfBuilt, socketVars, leftBusy>>

JoinRefused(a) ==
    /\ attempt[a] = "join"
    /\ TeardownAudio
    /\ attempt' = [attempt EXCEPT ![a] = "over"]
    /\ phase' = "idle"
    /\ UNCHANGED <<tries, ended, handled, gone, timerVars, begun, from, socketVars, leftBusy>>

Shut(sockets, s) ==
    [t \in SocketIds |-> IF t = s /\ sockets[t] # "closed" THEN "closing" ELSE sockets[t]]

\* openWs: what is left of an earlier socket is closed.
JoinGranted(a) ==
    /\ attempt[a] = "join" /\ opened < MaxSockets
    /\ attempt' = [attempt EXCEPT ![a] = "over"]
    /\ opened' = opened + 1 /\ ws' = opened + 1
    /\ socket' = [Shut(socket, ws) EXCEPT ![opened + 1] = "connecting"]
    /\ sendsAudio' = FALSE /\ handled' = FALSE
    /\ UNCHANGED <<phase, tries, ended, gone, timerVars, audioVars, begun, from, heard, leftBusy>>

\* scheduleRetry: another attempt after a pause, or none any more.
ScheduleRetry ==
    IF tries + 1 > MaxRetry
    THEN TeardownAudio /\ phase' = "failed" /\ UNCHANGED <<tries, retryTimers>>
    ELSE /\ tries' = tries + 1 /\ phase' = "connecting" /\ retryTimers' = retryTimers + 1
         /\ UNCHANGED <<sendsAudio, audioVars>>

RetryFires ==
    /\ retryTimers > 0 /\ begun < MaxAttempts
    /\ retryTimers' = retryTimers - 1
    /\ begun' = begun + 1
    /\ attempt' = [attempt EXCEPT ![begun + 1] = "join"]
    /\ UNCHANGED <<pageVars, endTimers, endKnown, audioVars, from, socketVars, leftBusy>>

-----------------------------------------------------------------------------
(* The socket                                                                *)

SocketOpens(s) ==
    /\ socket[s] = "connecting"
    /\ socket' = [socket EXCEPT ![s] = "open"]
    /\ UNCHANGED <<pageVars, timerVars, audioVars, attemptVars, ws, heard, opened, leftBusy>>

\* The other end begins to close it.
ServerCloses(s) ==
    /\ socket[s] = "open"
    /\ socket' = [socket EXCEPT ![s] = "closing"]
    /\ UNCHANGED <<pageVars, timerVars, audioVars, attemptVars, ws, heard, opened, leftBusy>>

\* A frame of a socket that was replaced is not looked at.
Receives(s, what) ==
    /\ socket[s] = "open"
    /\ heard' = [heard EXCEPT ![s] = what]

OnReady(s) ==
    /\ heard[s] = "nothing"
    /\ Receives(s, "ready")
    /\ IF ws = s
       THEN sendsAudio' = TRUE /\ tries' = 0 /\ phase' = "live"
       ELSE UNCHANGED <<sendsAudio, tries, phase>>
    /\ UNCHANGED <<ended, handled, gone, timerVars, audioVars, attemptVars, ws, socket, opened,
                   leftBusy>>

OnEnded(s) ==
    /\ heard[s] # "over"
    /\ Receives(s, "over")
    /\ IF ws = s
       THEN /\ ended' = TRUE /\ handled' = TRUE /\ phase' = "ended"
            /\ endTimers' = IF endKnown THEN endTimers - 1 ELSE endTimers
            /\ endKnown' = FALSE
            /\ TeardownAudio
       ELSE UNCHANGED <<ended, handled, phase, endTimers, endKnown, sendsAudio, audioVars>>
    /\ UNCHANGED <<tries, gone, retryTimers, attemptVars, ws, socket, opened, leftBusy>>

\* The bridge is not ready for the session: only before ready.
OnNotReady(s) ==
    /\ heard[s] = "nothing"
    /\ Receives(s, "over")
    /\ IF ws = s
       THEN handled' = TRUE /\ ScheduleRetry
       ELSE UNCHANGED <<handled, phase, tries, retryTimers, sendsAudio, audioVars>>
    /\ UNCHANGED <<ended, gone, endTimers, endKnown, attemptVars, ws, socket, opened, leftBusy>>

\* Another connection took the session over ("ended"), or any other error.
OnError(s, outcome) ==
    /\ heard[s] # "over"
    /\ Receives(s, "over")
    /\ IF ws = s
       THEN handled' = TRUE /\ TeardownAudio /\ phase' = outcome
       ELSE UNCHANGED <<handled, phase, sendsAudio, audioVars>>
    /\ UNCHANGED <<tries, ended, gone, timerVars, attemptVars, ws, socket, opened, leftBusy>>

OnClose(s) ==
    /\ socket[s] \notin {"unused", "closed"}
    /\ socket' = [socket EXCEPT ![s] = "closed"]
    /\ IF ws # s \/ ended \/ handled
       THEN UNCHANGED <<phase, tries, retryTimers, sendsAudio, audioVars>>
       ELSE IF phase \in {"live", "ending"}
       THEN TeardownAudio /\ phase' = "failed" /\ UNCHANGED <<tries, retryTimers>>
       ELSE IF phase = "connecting" THEN ScheduleRetry
       ELSE UNCHANGED <<phase, tries, retryTimers, sendsAudio, audioVars>>
    /\ UNCHANGED <<ended, handled, gone, endTimers, endKnown, attemptVars, ws, heard, opened,
                   leftBusy>>

-----------------------------------------------------------------------------
(* The end, and the view                                                     *)

\* The candidate ends the interview: the page waits for the server's frame, but
\* not longer than a timer.
EndExam ==
    /\ ~gone /\ phase = "live"
    /\ IF ws # 0 /\ socket[ws] = "open"
       THEN /\ phase' = "ending" /\ endTimers' = endTimers + 1 /\ endKnown' = TRUE
            /\ UNCHANGED <<ended, sendsAudio, audioVars>>
       ELSE /\ ended' = TRUE /\ TeardownAudio /\ phase' = "ended"
            /\ UNCHANGED <<endTimers, endKnown>>
    /\ UNCHANGED <<tries, handled, gone, retryTimers, attemptVars, socketVars, leftBusy>>

EndFires ==
    /\ endTimers > 0
    /\ endTimers' = endTimers - 1 /\ endKnown' = FALSE
    /\ IF phase = "ending"
       THEN /\ ended' = TRUE /\ handled' = TRUE /\ phase' = "ended"
            /\ socket' = Shut(socket, ws)
            /\ TeardownAudio
       ELSE UNCHANGED <<ended, handled, phase, socket, sendsAudio, audioVars>>
    /\ UNCHANGED <<tries, gone, retryTimers, attemptVars, ws, heard, opened, leftBusy>>

\* The view is left: what can be stopped is stopped, but no await.
Leave ==
    /\ ~gone
    /\ gone' = TRUE /\ handled' = TRUE
    /\ retryTimers' = IF retryTimers = 0 THEN 0 ELSE retryTimers - 1
    /\ endTimers' = IF endKnown THEN endTimers - 1 ELSE endTimers
    /\ endKnown' = FALSE
    /\ socket' = Shut(socket, ws)
    /\ TeardownAudio
    /\ leftBusy' = \E a \in Attempts : UnderWay(a)
    /\ UNCHANGED <<phase, tries, ended, attemptVars, ws, heard, opened>>

-----------------------------------------------------------------------------
ExamNext ==
    \/ StartExam \/ Retry \/ RetryFires \/ EndExam \/ EndFires \/ Leave
    \/ \E a \in Attempts :
          \/ ContextReady(a) \/ ContextFails(a) \/ MicGranted(a) \/ MicDenied(a)
          \/ CaptureFails(a) \/ JoinRefused(a) \/ JoinGranted(a)
    \/ \E s \in SocketIds :
          \/ SocketOpens(s) \/ ServerCloses(s) \/ OnReady(s) \/ OnEnded(s) \/ OnNotReady(s) \/ OnClose(s)
          \/ \E o \in {"ended", "failed"} : OnError(s, o)

ExamSpec == ExamInit /\ [][ExamNext]_examVars

-----------------------------------------------------------------------------
(* Properties                                                                *)

\* The page never has two ways to a connection at once: one attempt under way, a
\* retry timer, or a socket that may still answer.
MayAnswer(s) == socket[s] \in {"connecting", "open"} /\ heard[s] # "over"
OneConnection ==
    /\ retryTimers <= 1
    /\ \A a, b \in Attempts : UnderWay(a) /\ UnderWay(b) => a = b
    /\ \A s, t \in SocketIds : MayAnswer(s) /\ MayAnswer(t) => s = t
    /\ \A a \in Attempts : UnderWay(a) => retryTimers = 0
    /\ \A s \in SocketIds :
          MayAnswer(s) => retryTimers = 0 /\ \A a \in Attempts : ~UnderWay(a)

\* What the microphone hears is sent only on the socket that said ready, and only
\* while the interview lasts.
AudioIsInvited ==
    sendsAudio => ws # 0 /\ heard[ws] = "ready" /\ phase \in {"live", "ending"}

\* Outside of an interview the microphone is off, unless the rest of the pipeline
\* could not be built.
MicIsOff == mic /\ ~halfBuilt => phase \in {"connecting", "live", "ending"}

\* A page that shows an interview or the way to one waits for something that will
\* come: an attempt, a timer, or an event of its socket that it will heed.
NeverStuck ==
    ~gone /\ phase \in {"connecting", "live", "ending"} =>
        \/ \E a \in Attempts : UnderWay(a)
        \/ retryTimers > 0
        \/ ws # 0 /\ socket[ws] # "closed" /\ heard[ws] # "over" /\ ~handled /\ ~ended

\* When the view was left nothing goes on, unless an attempt was under way: no
\* await is cut short, and what it comes to is not undone.
LeftInPeace ==
    gone /\ ~leftBusy =>
        /\ ~mic /\ ~sendsAudio /\ retryTimers = 0
        /\ \A a \in Attempts : ~UnderWay(a)
        /\ \A s \in SocketIds : ~MayAnswer(s)

\* An interview that is over is not opened again.
OverIsOver == [][phase = "ended" => phase' = "ended"]_examVars

=============================================================================
