------------------------- MODULE TerminalAuthority -------------------------
(***************************************************************************)
(* The bridge process's side of one session id (bridge/src/index.ts with    *)
(* session-context.ts and the end of a MediaSession): the stored context,   *)
(* the table of live sessions, and the authority to report the session's    *)
(* end to the control plane.  Connections replace each other; the turns     *)
(* that RealtimeConnectionOwners hands out (module ConnectionOwner) are     *)
(* here the variable section.  A session that is being torn down uploads    *)
(* its recording for an unbounded time, while its successor starts.         *)
(* A client of the Realtime API is spoken to before its dialogue runs; what *)
(* of its events can end the connection or the session is here, too         *)
(* (openai-realtime/adapter.ts, session-state.ts; its audio is in module    *)
(* SpeechInput, its responses in ResponseDelivery).                         *)
(***************************************************************************)
EXTENDS Naturals, FiniteSets

CONSTANTS Conns,       \* the connections that may arrive for the session
          Sdk,         \* those that come to /v1/realtime; the others come to /ws
          None,        \* no connection
          MaxReady,    \* bound: /ready requests of the control plane
          Violations,  \* MAX_PROTOCOL_VIOLATIONS in their window
          Insisting    \* END_REQUEST_ESCAPE_THRESHOLD

ASSUME AuthorityAssumption ==
    /\ Sdk \subseteq Conns /\ None \notin Conns
    /\ MaxReady \in Nat
    /\ {Violations, Insisting} \subseteq Nat \ {0}

VARIABLES
    context,      \* a live SessionContext is stored
    sessions,     \* the sessions map: the table's MediaSession
    authority,    \* the sessionAuthorities map: who may report the end
    section,      \* whose turn it is in the serialized section, and its phase
    current,      \* the connection whose core a takeover would revoke
    socket,       \* "new", "auth" until it authenticated, "open", "closing", "closed"
    client,       \* what the adapter knows of a client of the Realtime API
    begin,        \* how far begin() of the connection's session is
    closed,       \* how its session was closed: not yet, by end() or by detach()
    teardown,     \* "none", "working" (upload, engine stop) or "done"
    \* history
    readies,      \* number of accepted /ready requests
    ended,        \* an end was reported since the last /ready
    reported,     \* the connections whose session reported its end
    replaced      \* the connections that lost their authority to a successor

process == <<context, sessions, authority, section, current>>
local   == <<socket, client, begin, closed, teardown>>
history == <<readies, ended, reported, replaced>>
vars    == <<process, local, history>>

Stranger == [configured |-> FALSE, strikes |-> 0, held |-> 0, asked |-> 0]
Idle == [conn |-> None, phase |-> "idle"]
Phases == {"idle", "draining", "beginning", "failing", "closing"}

\* The session exists and can command the dialogue.
Live(c) == begin[c] # "none" /\ closed[c] = "no"

----------------------------------------------------------------------------
(* Session context *)

\* handleSessionReady stores the context, also when one is stored already.
Ready ==
    /\ readies < MaxReady
    /\ context' = TRUE
    /\ readies' = readies + 1
    /\ ended' = FALSE
    /\ UNCHANGED <<sessions, authority, section, current, local, reported,
                   replaced>>

\* Its time to live or the connect deadline passes: a read finds nothing.
ContextExpires ==
    /\ context
    /\ context' = FALSE
    /\ UNCHANGED <<sessions, authority, section, current, local, history>>

----------------------------------------------------------------------------
(* End of a session *)

\* teardown(): the first close wins, the others return at once.  What the client
\* has said matters no more.
Close(c, how) ==
    IF Live(c)
    THEN /\ closed' = [closed EXCEPT ![c] = how]
         /\ teardown' = [teardown EXCEPT ![c] = "working"]
         /\ client' = [client EXCEPT ![c] = Stranger]
    ELSE UNCHANGED <<closed, teardown, client>>

\* end() by a violation of the candidate or an error of the engine.
EndSession(c) ==
    /\ Live(c)
    /\ Close(c, "end")
    /\ UNCHANGED <<process, socket, begin, history>>

\* POST /sessions/:id/hangup ends the session the table holds.
Hangup ==
    /\ sessions # None
    /\ Live(sessions)
    /\ Close(sessions, "end")
    /\ UNCHANGED <<process, socket, begin, history>>

\* Mutant of SocketCloses: the table entry is dropped without a look at whose it is.
SocketClosesBlindly(c) ==
    /\ socket[c] \in {"open", "closing"}
    /\ socket' = [socket EXCEPT ![c] = "closed"]
    /\ Close(c, "end")
    /\ sessions' = IF begin[c] = "ok" THEN None ELSE sessions
    /\ current' = IF current = c THEN None ELSE current
    /\ UNCHANGED <<context, authority, section, begin, history>>

\* The socket closes: the session ends with peer_hangup, and once begin()
\* returned the table forgets the session, if it is still its entry.  The
\* release of the connection's lease then finds nothing left to revoke.
SocketCloses(c) ==
    /\ socket[c] \in {"open", "closing"}
    /\ socket' = [socket EXCEPT ![c] = "closed"]
    /\ Close(c, "end")
    /\ sessions' = IF begin[c] = "ok" /\ sessions = c THEN None ELSE sessions
    /\ current' = IF current = c THEN None ELSE current
    /\ UNCHANGED <<context, authority, section, begin, history>>

\* Mutant of HasAuthority: any ended session may report.
AnyoneHasAuthority(c) == authority # None

\* releaseAuthority() succeeds: no newer session has claimed the authority.
HasAuthority(c) == authority = c

\* The bookkeeping of a session that ended while it had the authority.
Forget(c) ==
    /\ authority' = None
    /\ sessions' = IF sessions = c THEN None ELSE sessions
    /\ context' = FALSE

\* The upload and the engine's stop are over.  onEnded, only after an end():
\* whoever still has the authority forgets the session and reports its end.
TeardownEnds(c) ==
    /\ teardown[c] = "working"
    /\ teardown' = [teardown EXCEPT ![c] = "done"]
    /\ IF closed[c] = "end" /\ HasAuthority(c)
       THEN /\ Forget(c)
            /\ ended' = TRUE /\ reported' = reported \cup {c}
       ELSE UNCHANGED <<authority, sessions, context, ended, reported>>
    /\ UNCHANGED <<section, current, socket, client, begin, closed, readies, replaced>>

----------------------------------------------------------------------------
(* The events of a client of the Realtime API *)

\* The adapter reads the client's events, from adapter.start() on.  What is sent
\* when the session is over can only close the socket sooner.
Reads(c) == c \in Sdk /\ socket[c] = "open" /\ Live(c)

\* requestSocketClose: what was held back is dropped, what still comes is not read.
RequestClose(c) ==
    /\ socket' = [socket EXCEPT ![c] = "closing"]
    /\ client' = [client EXCEPT ![c].held = 0]

\* handleProtocolError: an error the connection survives, but for the last of many.
Violation(c) ==
    IF client[c].strikes + 1 = Violations THEN RequestClose(c)
    ELSE socket' = socket /\ client' = [client EXCEPT ![c].strikes = @ + 1]

\* The oldest violation is PROTOCOL_VIOLATION_WINDOW_MS ago.
ViolationForgotten(c) ==
    /\ Reads(c) /\ client[c].strikes > 0
    /\ client' = [client EXCEPT ![c].strikes = @ - 1]
    /\ UNCHANGED <<process, socket, begin, closed, teardown, history>>

\* A session.update: whether it sets more than type, tracing, metadata and no
\* tools, whether it sets what R1 does not have, what it says of the audio.
Updates == [full : BOOLEAN, foreign : BOOLEAN, audio : {"absent", "pinned", "other"}]

\* validateInitialAudioConfig: of formats, detection, voice and speed, only what
\* the SDK sends to begin with.
AudioRefused(update) == update.audio = "other"

\* handleSessionUpdate: a client may configure the session once, as it is.
UpdateSession(c) ==
    /\ Reads(c)
    /\ \E update \in Updates :
          CASE update.foreign -> Violation(c)
            [] ~update.foreign /\ ~update.full -> UNCHANGED <<socket, client>>
            [] ~update.foreign /\ update.full ->
                  IF client[c].configured \/ AudioRefused(update) THEN Violation(c)
                  ELSE /\ client' = [client EXCEPT ![c].configured = TRUE]
                       /\ socket' = socket
    /\ UNCHANGED <<process, begin, closed, teardown, history>>

\* response.create while no committed input awaits a response, and none is spoken.
CreateUnasked(c) == Reads(c) /\ Violation(c)
\* conversation.item.retrieve of an item this connection does not know.
RetrieveUnknown(c) == Reads(c) /\ Violation(c)
\* dispatchClientEvent: an event R1 does not have, or does not know.
UnknownEvent(c) == Reads(c) /\ Violation(c)
\* handleSocketMessage: a frame that is no event, or one that is no text or too large.
BadFrame(c) == Reads(c) /\ (Violation(c) \/ RequestClose(c))

Misuses(c) ==
    /\ CreateUnasked(c) \/ RetrieveUnknown(c) \/ UnknownEvent(c) \/ BadFrame(c)
    /\ UNCHANGED <<process, begin, closed, teardown, history>>

\* request_end, n times: the session ends unless questions are left; then it ends
\* for a candidate who insists (noteEndRequest).
RequestEnd(c, n) ==
    LET asked == client[c].asked + n IN
    \/ n > 0 /\ Close(c, "end")
    \/ /\ n = 0 \/ asked < Insisting
       /\ client' = [client EXCEPT ![c].held = 0, ![c].asked = asked]
       /\ UNCHANGED <<closed, teardown>>

\* viva.session.end: sendCoreCommand hands it to the session, or holds it back
\* until the session takes commands.
AskToEnd(c) ==
    /\ Reads(c) /\ client[c].asked + client[c].held < Insisting
    /\ IF begin[c] = "ok" THEN RequestEnd(c, 1)
       ELSE /\ client' = [client EXCEPT ![c].held = @ + 1]
            /\ UNCHANGED <<closed, teardown>>
    /\ UNCHANGED <<process, socket, begin, history>>

----------------------------------------------------------------------------
(* Connections and takeovers *)

\* A connection comes to /ws: its first text frame must authenticate it.
Connect(c) ==
    /\ c \notin Sdk /\ socket[c] = "new"
    /\ socket' = [socket EXCEPT ![c] = "auth"]
    /\ UNCHANGED <<process, client, begin, closed, teardown, history>>

\* It is sent away, or goes: it never gets a session.
SendAway(c) ==
    /\ socket' = [socket EXCEPT ![c] = "closed"]
    /\ begin' = [begin EXCEPT ![c] = "refused"]
    /\ closed' = [closed EXCEPT ![c] = "refused"]

\* No auth frame within AUTH_TIMEOUT_MS, a token or a version that will not do,
\* no context (not_ready), or the peer leaves.
AuthFails(c) ==
    /\ socket[c] = "auth"
    /\ SendAway(c)
    /\ UNCHANGED <<process, client, teardown, history>>

\* The token names the session and its context is stored: ready is sent.
Authenticate(c) ==
    /\ socket[c] = "auth" /\ context
    /\ socket' = [socket EXCEPT ![c] = "open"]
    /\ UNCHANGED <<process, client, begin, closed, teardown, history>>

\* A connection comes to /v1/realtime: the request itself authenticates it, and
\* the socket is accepted when its turn to take over comes.
Upgrade(c) ==
    /\ c \in Sdk /\ socket[c] = "new" /\ context
    /\ socket' = [socket EXCEPT ![c] = "open"]
    /\ UNCHANGED <<process, client, begin, closed, teardown, history>>

\* The request is malformed, its secret will not do, or there is no context.
UpgradeRejected(c) ==
    /\ c \in Sdk /\ socket[c] = "new"
    /\ SendAway(c)
    /\ UNCHANGED <<process, client, teardown, history>>

\* Its turn comes: the present core is revoked by a detach that nobody waits
\* for, and the old connection gets some time to close.
TakeOver(c) ==
    /\ section = Idle
    /\ socket[c] \in {"open", "closed"} /\ begin[c] = "none"
    /\ section' = [conn |-> c, phase |-> "draining"]
    /\ IF current # None THEN Close(current, "detach")
                         ELSE UNCHANGED <<closed, teardown, client>>
    /\ current' = None
    /\ UNCHANGED <<context, sessions, authority, socket, begin, history>>

\* The new connection is gone, or the context is, or the engine or the session
\* cannot be made: it gets no session, and a predecessor that is being torn down
\* keeps its authority.
TakeOverRefused(c) ==
    /\ section = [conn |-> c, phase |-> "draining"]
    /\ SendAway(c)
    /\ section' = Idle
    /\ UNCHANGED <<context, sessions, authority, current, client, teardown, history>>

\* startMediaSessionWithTransport up to begin(): without an await it finds the
\* context, claims the authority and the table, and reports "connected".
StartSession(c) ==
    /\ section = [conn |-> c, phase |-> "draining"]
    /\ socket[c] = "open" /\ context
    /\ begin' = [begin EXCEPT ![c] = "running"]
    /\ authority' = c /\ sessions' = c /\ current' = c
    /\ section' = [conn |-> c, phase |-> "beginning"]
    /\ replaced' = IF authority = None THEN replaced ELSE replaced \cup {authority}
    /\ UNCHANGED <<context, socket, client, closed, teardown, readies, ended, reported>>

\* Mutant of BeginReturns: what the client sent before is not handed to the session.
BeginReturnsAnew(c) ==
    /\ section = [conn |-> c, phase |-> "beginning"]
    /\ begin' = [begin EXCEPT ![c] = "ok"]
    /\ section' = Idle
    /\ client' = [client EXCEPT ![c].held = 0]
    /\ UNCHANGED <<context, sessions, authority, current, socket, closed, teardown,
                   history>>

\* begin() returns, also when its session was closed meanwhile.  One that was not
\* is handed the commands the adapter held back (flushCoreBacklog).
BeginReturns(c) ==
    /\ section = [conn |-> c, phase |-> "beginning"]
    /\ begin' = [begin EXCEPT ![c] = "ok"]
    /\ section' = Idle
    /\ IF Live(c) THEN RequestEnd(c, client[c].held)
                  ELSE UNCHANGED <<client, closed, teardown>>
    /\ UNCHANGED <<context, sessions, authority, current, socket, history>>

\* begin() may reject when its session was closed before: what it awaits goes on.
Rejection(c) == IF Live(c) THEN "rejected" ELSE "late"

\* Mutant of BeginRejects: the caller does not wait for end("error").
BeginRejectsUnawaited(c) ==
    /\ section = [conn |-> c, phase |-> "beginning"]
    /\ begin' = [begin EXCEPT ![c] = Rejection(c)]
    /\ Close(c, "end")
    /\ section' = [conn |-> c, phase |-> "closing"]
    /\ UNCHANGED <<context, sessions, authority, current, socket, history>>

\* begin() rejects: the caller ends the session with "error" and waits for it.
BeginRejects(c) ==
    /\ section = [conn |-> c, phase |-> "beginning"]
    /\ begin' = [begin EXCEPT ![c] = Rejection(c)]
    /\ Close(c, "end")
    /\ section' = [conn |-> c, phase |-> IF Live(c) THEN "failing" ELSE "closing"]
    /\ UNCHANGED <<context, sessions, authority, current, socket, history>>

\* The rest of the failed start, once end("error") returned: at once when the
\* session was closed before, else when its teardown is over.
StartFails(c) ==
    /\ section.conn = c
    /\ \/ section.phase = "closing"
       \/ section.phase = "failing" /\ teardown[c] = "done"
    /\ IF HasAuthority(c) THEN Forget(c)
                          ELSE UNCHANGED <<authority, sessions, context>>
    /\ section' = Idle
    /\ current' = IF current = c THEN None ELSE current
    /\ UNCHANGED <<local, history>>

----------------------------------------------------------------------------
Init ==
    /\ context = FALSE /\ sessions = None /\ authority = None
    /\ section = Idle /\ current = None
    /\ socket = [c \in Conns |-> "new"]
    /\ client = [c \in Conns |-> Stranger]
    /\ begin = [c \in Conns |-> "none"]
    /\ closed = [c \in Conns |-> "no"]
    /\ teardown = [c \in Conns |-> "none"]
    /\ readies = 0 /\ ended = FALSE
    /\ reported = {} /\ replaced = {}

Session(c) ==
    \/ EndSession(c) \/ SocketCloses(c) \/ TeardownEnds(c)
    \/ BeginReturns(c) \/ BeginRejects(c) \/ StartFails(c)

Next ==
    \/ Ready \/ ContextExpires \/ Hangup
    \/ \E c \in Conns :
          \/ Connect(c) \/ AuthFails(c) \/ Authenticate(c)
          \/ Upgrade(c) \/ UpgradeRejected(c)
          \/ TakeOver(c) \/ TakeOverRefused(c)
          \/ StartSession(c) \/ Session(c)
          \/ UpdateSession(c) \/ Misuses(c) \/ ViolationForgotten(c) \/ AskToEnd(c)

Spec == Init /\ [][Next]_vars

\* The event loop finishes what it started.  That the upload of a recording
\* ends is assumed: this code sets no limit of its own on it.  begin() has no
\* unbounded wait, and a socket that was asked to close is terminated in the end
\* (scheduleCloseFallback).
Fairness ==
    \A c \in Conns : /\ WF_vars(TeardownEnds(c))
                     /\ WF_vars(BeginReturns(c) \/ BeginRejects(c))
                     /\ WF_vars(StartFails(c))
                     /\ WF_vars(socket[c] = "closing" /\ SocketCloses(c))

LiveSpec == Spec /\ Fairness

----------------------------------------------------------------------------
(* Properties *)

\* The state has the shape the code gives it.
TypeOK ==
    /\ context \in BOOLEAN
    /\ sessions \in Conns \cup {None}
    /\ authority \in Conns \cup {None}
    /\ current \in Conns \cup {None}
    /\ section \in [conn : Conns \cup {None}, phase : Phases]
    /\ socket \in [Conns -> {"new", "auth", "open", "closing", "closed"}]
    /\ client \in [Conns -> [configured : BOOLEAN, strikes : 0..Violations - 1,
                             held : 0..Insisting, asked : 0..Insisting]]
    /\ begin \in [Conns -> {"none", "running", "ok", "rejected", "late", "refused"}]
    /\ closed \in [Conns -> {"no", "end", "detach", "refused"}]
    /\ teardown \in [Conns -> {"none", "working", "done"}]
    /\ readies \in 0..MaxReady /\ ended \in BOOLEAN
    /\ reported \in SUBSET Conns /\ replaced \in SUBSET Conns

\* Once the end of the session was reported, and until the control plane
\* prepares it anew, no session is live: a slow teardown of an old connection
\* cannot end the session under a connection that took it over, and a
\* connection that raced the end does not bring it back.
EndIsFinal == ended => \A c \in Conns : ~Live(c)

\* A session that can command the dialogue is the one in the table, so the
\* control plane's hangup reaches it, and the one whose end will be reported.
LiveIsReachable == \A c \in Conns : Live(c) => sessions = c /\ authority = c

\* "A session closed at any time of its start MUST report its end too": every
\* session that end() closed has reported once its teardown is over, unless a
\* successor took over its authority.  The code keeps this but for a session
\* whose start rejected only after it was closed: its caller does not wait for
\* the teardown, and takes the authority from it.
EndedSessionsReport ==
    \A c \in Conns : closed[c] = "end" /\ teardown[c] = "done"
                        => c \in reported \cup replaced \/ begin[c] = "late"

\* "Replacing the old session is not the end of the session", the reason detach()
\* reports nothing: once the turn is over, a detached session has a successor.
DetachedIsReplaced ==
    \A c \in Conns : closed[c] = "detach" /\ section = Idle => c \in replaced

\* A client who insists: each of its requests counts, those sent before its
\* session took commands too, or its connection is gone.
Insists(c) == client[c].asked + client[c].held >= Insisting

\* An end that is due concludes.  A session that is ended while it has the
\* authority gives it up in the end, by its report or to a successor: the control
\* plane is not left waiting.  And a session whose client insists on its end is
\* closed, though the questions are not through and the requests were early.
EndsConclude ==
    /\ \A c \in Conns : (closed[c] = "end" /\ authority = c) ~> (authority # c)
    /\ \A c \in Sdk : Insists(c) ~> (closed[c] # "no")

=============================================================================
