-------------------------- MODULE ConnectionOwner --------------------------
(***************************************************************************)
(* RealtimeConnectionOwners (bridge/src/openai-realtime/connection-owner.ts)*)
(* for one session id.  Every connection that authenticates asks to replace *)
(* the present owner.  Operations on one session are serialized in arrival  *)
(* order; a replacement first revokes the core of the old connection, waits *)
(* a bounded time for the revocation and then for the old transport to ask  *)
(* for its close, and only then opens and activates the new connection.     *)
(*                                                                          *)
(* A core is whatever drives the session through a connection.  Its revoker *)
(* is a callback this class does not control: it may finish, be slow beyond *)
(* the time limit, or fail.  CoreFaults says which of the last two occur.   *)
(***************************************************************************)
EXTENDS Naturals, Sequences, FiniteSets

CONSTANTS Conns,       \* the connections that may arrive for the session
          None,        \* no connection
          CoreFaults   \* faults of a revoker: a subset of {"hang", "reject"}

ASSUME OwnerAssumption == /\ None \notin Conns
                          /\ CoreFaults \subseteq {"hang", "reject"}

VARIABLES
    queue,       \* serialized operations; the head is the one running
    pc,          \* where the running operation waits
    owner,       \* owners.get(sessionId): the registered connection
    outcome,     \* what became of each connection's request
    socket,      \* the WebSocket of each connection
    active,      \* lease.active
    revoker,     \* lease.coreRevoker is set
    controller,  \* lease.supersedeController is set
    revocation,  \* the memoized revocation promise
    core,        \* whether the connection's core has command authority
    drained,     \* waitForCloseRequest has resolved
    cleanup      \* owner.cleanupScheduled

lease == <<active, revoker, controller, revocation, core, drained, cleanup>>
vars  == <<queue, pc, owner, outcome, socket, lease>>

Op(kind, c) == [kind |-> kind, conn |-> c]
Ops == [kind : {"replace", "release", "cleanup"}, conn : Conns]

Running(kind, c, at) ==
    /\ queue # <<>>
    /\ Head(queue) = Op(kind, c)
    /\ pc = at

\* The operation ends and the next one in the queue may start.
Finish == queue' = Tail(queue) /\ pc' = "start"

----------------------------------------------------------------------------
(* Leases. *)

\* lease.revoke(): the first call takes authority away and starts the revoker;
\* without a revoker the promise resolves at once.  Later calls share it.
Revoke(c) ==
    IF revocation[c] # "none"
    THEN UNCHANGED <<active, revoker, revocation>>
    ELSE /\ active' = [active EXCEPT ![c] = FALSE]
         /\ revoker' = [revoker EXCEPT ![c] = FALSE]
         /\ revocation' = [revocation EXCEPT
                ![c] = IF revoker[c] THEN "pending" ELSE "resolved"]

\* Mutant of RevokeGaveUp: the wait for a revocation has no time limit.
RevokeGaveUpUnbounded(c) == revocation[c] = "rejected"

\* settleWithin(revoke()) is false: the revoker failed, or is still running
\* when the time limit passes.
RevokeGaveUp(c) ==
    \/ revocation[c] = "rejected"
    \/ "hang" \in CoreFaults /\ revocation[c] = "pending"

\* failSupersede: a closing handshake is started, by the controller if the
\* connection has one; the controller counts that as the close request.
FailSupersede(c) ==
    /\ socket' = [socket EXCEPT ![c] = IF @ = "open" THEN "closing" ELSE @]
    /\ drained' = [drained EXCEPT ![c] = @ \/ controller[c]]

\* releaseWhenRevoked: the entry stays as a tombstone until the revocation
\* confirms that the core stopped; then one cleanup operation is queued.
GiveUp(c) ==
    /\ cleanup' = [cleanup EXCEPT ![c] = TRUE]
    /\ Finish

----------------------------------------------------------------------------
(* The environment: clients and cores. *)

\* An authenticated connection asks for the session.  A v1 socket is already
\* open; a Realtime API socket is upgraded only when its turn comes.
Connect(c) ==
    /\ outcome[c] = "none"
    /\ outcome' = [outcome EXCEPT ![c] = "waiting"]
    /\ \E s \in {"open", "upgrading"} : socket' = [socket EXCEPT ![c] = s]
    /\ queue' = Append(queue, Op("replace", c))
    /\ UNCHANGED <<pc, owner, lease>>

\* open(lease) succeeded: its socket has the close listener.
Registered(c) == active[c] \/ revocation[c] # "none"

\* The socket closes: by the peer, or at the end of a closing handshake.  A
\* registered connection has a close listener that queues its release; the
\* Realtime API transport also counts the close as its close request.
SocketCloses(c) ==
    /\ socket[c] \in {"open", "closing"}
    /\ socket' = [socket EXCEPT ![c] = "closed"]
    /\ \E asked \in BOOLEAN :
           drained' = [drained EXCEPT ![c] = @ \/ (controller[c] /\ asked)]
    /\ queue' = IF Registered(c) THEN Append(queue, Op("release", c)) ELSE queue
    /\ UNCHANGED <<pc, owner, outcome, active, revoker, controller, revocation,
                   core, cleanup>>

\* The core ends by itself: the session is over.
CoreEnds(c) ==
    /\ core[c] = "live"
    /\ core' = [core EXCEPT ![c] = "stopped"]
    /\ UNCHANGED <<queue, pc, owner, outcome, socket, active, revoker, controller,
                   revocation, drained, cleanup>>

\* The revoker finishes: the core no longer commands the session.
CoreStops(c) ==
    /\ revocation[c] = "pending"
    /\ revocation' = [revocation EXCEPT ![c] = "resolved"]
    /\ core' = [core EXCEPT ![c] = "stopped"]
    /\ queue' = IF cleanup[c] THEN Append(queue, Op("cleanup", c)) ELSE queue
    /\ UNCHANGED <<pc, owner, outcome, socket, active, revoker, controller,
                   drained, cleanup>>

\* The revoker fails: nothing says that the core stopped.
CoreFailsToStop(c) ==
    /\ "reject" \in CoreFaults
    /\ revocation[c] = "pending"
    /\ revocation' = [revocation EXCEPT ![c] = "rejected"]
    /\ UNCHANGED <<queue, pc, owner, outcome, socket, active, revoker,
                   controller, core, drained, cleanup>>

\* The stopped core's transport hands off its last frame and asks for a close.
TransportDrains(c) ==
    /\ controller[c] /\ ~drained[c]
    /\ core[c] = "stopped"
    /\ drained' = [drained EXCEPT ![c] = TRUE]
    /\ socket' = [socket EXCEPT ![c] = IF @ = "open" THEN "closing" ELSE @]
    /\ UNCHANGED <<queue, pc, owner, outcome, active, revoker, controller,
                   revocation, core, cleanup>>

----------------------------------------------------------------------------
(* replace *)

ReplaceStart(c) ==
    /\ Running("replace", c, "start")
    /\ IF owner = None
       THEN /\ pc' = "opening"
            /\ UNCHANGED <<active, revoker, revocation>>
       ELSE /\ pc' = "revoking"
            /\ Revoke(owner)
    /\ UNCHANGED <<queue, owner, outcome, socket, controller, core, drained, cleanup>>

ReplaceRevoked(c) ==
    /\ Running("replace", c, "revoking")
    /\ revocation[owner] = "resolved"
    /\ pc' = "draining"
    /\ UNCHANGED <<queue, owner, outcome, socket, lease>>

\* Mutant of ReplaceRefused: the entry is dropped although the old core did not confirm its stop.
RefuseWithoutTombstone(c) ==
    /\ Running("replace", c, "revoking")
    /\ RevokeGaveUp(owner)
    /\ FailSupersede(owner)
    /\ Finish
    /\ owner' = None
    /\ outcome' = [outcome EXCEPT ![c] = "failed"]
    /\ UNCHANGED <<active, revoker, controller, revocation, core, cleanup>>

\* "Existing realtime core did not stop": the request is refused.
ReplaceRefused(c) ==
    /\ Running("replace", c, "revoking")
    /\ RevokeGaveUp(owner)
    /\ FailSupersede(owner)
    /\ GiveUp(owner)
    /\ outcome' = [outcome EXCEPT ![c] = "failed"]
    /\ UNCHANGED <<owner, active, revoker, controller, revocation, core>>

\* The old transport asked for its close within the time limit, or the limit
\* passed (or there was no controller) and it is closed by force.
ReplaceDrained(c) ==
    /\ Running("replace", c, "draining")
    /\ \/ /\ controller[owner] /\ drained[owner]
          /\ UNCHANGED <<socket, drained>>
       \/ ~(controller[owner] /\ drained[owner]) /\ FailSupersede(owner)
    /\ owner' = None
    /\ pc' = "opening"
    /\ UNCHANGED <<queue, outcome, active, revoker, controller, revocation, core,
                   cleanup>>

\* open(lease) succeeds on an open socket: the connection is registered.
OpenSucceeds(c) ==
    /\ Running("replace", c, "opening")
    /\ socket[c] \in {"open", "upgrading"}
    /\ socket' = [socket EXCEPT ![c] = "open"]
    /\ active' = [active EXCEPT ![c] = TRUE]
    /\ owner' = c
    /\ pc' = "activating"
    /\ UNCHANGED <<queue, outcome, revoker, controller, revocation, core, drained,
                   cleanup>>

\* open(lease) throws (the context is gone), or the socket is not OPEN any
\* more: the lease is revoked and the connection is never registered.
OpenFails(c) ==
    /\ Running("replace", c, "opening")
    /\ socket[c] \in {"upgrading", "closed"}
    /\ socket' = [socket EXCEPT ![c] = "closed"]
    /\ revocation' = [revocation EXCEPT ![c] = "resolved"]
    /\ outcome' = [outcome EXCEPT ![c] = "failed"]
    /\ Finish
    /\ UNCHANGED <<owner, active, revoker, controller, core, drained, cleanup>>

\* activate(): the transport takes over the close transition, then the core
\* registers its revoker and starts to command the session.
ActivateTransport(c) ==
    /\ Running("replace", c, "activating")
    /\ active[c] /\ ~controller[c]
    /\ controller' = [controller EXCEPT ![c] = TRUE]
    /\ UNCHANGED <<queue, pc, owner, outcome, socket, active, revoker, revocation,
                   core, drained, cleanup>>

ActivateCore(c) ==
    /\ Running("replace", c, "activating")
    /\ active[c] /\ controller[c] /\ ~revoker[c]
    /\ revoker' = [revoker EXCEPT ![c] = TRUE]
    /\ core' = [core EXCEPT ![c] = "live"]
    /\ UNCHANGED <<queue, pc, owner, outcome, socket, active, controller, revocation,
                   drained, cleanup>>

ActivateSucceeds(c) ==
    /\ Running("replace", c, "activating")
    /\ revoker[c]
    /\ outcome' = [outcome EXCEPT ![c] = "serving"]
    /\ Finish
    /\ UNCHANGED <<owner, socket, lease>>

\* activate() throws, before or after its core was started.
ActivateFails(c) ==
    /\ Running("replace", c, "activating")
    /\ FailSupersede(c)
    /\ Revoke(c)
    /\ pc' = "abandoning"
    /\ UNCHANGED <<queue, owner, outcome, controller, core, cleanup>>

AbandonRevoked(c) ==
    /\ Running("replace", c, "abandoning")
    /\ revocation[c] = "resolved"
    /\ owner' = None
    /\ outcome' = [outcome EXCEPT ![c] = "failed"]
    /\ Finish
    /\ UNCHANGED <<socket, lease>>

AbandonGivesUp(c) ==
    /\ Running("replace", c, "abandoning")
    /\ RevokeGaveUp(c)
    /\ GiveUp(c)
    /\ outcome' = [outcome EXCEPT ![c] = "failed"]
    /\ UNCHANGED <<owner, socket, active, revoker, controller, revocation, core,
                   drained>>

----------------------------------------------------------------------------
(* release, and the cleanup of a tombstone *)

\* A close of a connection that was replaced in the meantime changes nothing.
ReleaseStart(c) ==
    /\ Running("release", c, "start")
    /\ IF owner # c
       THEN Finish /\ UNCHANGED <<active, revoker, revocation>>
       ELSE pc' = "releasing" /\ Revoke(c) /\ UNCHANGED queue
    /\ UNCHANGED <<owner, outcome, socket, controller, core, drained, cleanup>>

ReleaseRevoked(c) ==
    /\ Running("release", c, "releasing")
    /\ revocation[c] = "resolved"
    /\ owner' = None
    /\ Finish
    /\ UNCHANGED <<outcome, socket, lease>>

ReleaseGivesUp(c) ==
    /\ Running("release", c, "releasing")
    /\ RevokeGaveUp(c)
    /\ GiveUp(c)
    /\ UNCHANGED <<owner, outcome, socket, active, revoker, controller, revocation,
                   core, drained>>

Cleanup(c) ==
    /\ Running("cleanup", c, "start")
    /\ owner' = IF owner = c THEN None ELSE owner
    /\ Finish
    /\ UNCHANGED <<outcome, socket, lease>>

----------------------------------------------------------------------------
Init ==
    /\ queue = <<>> /\ pc = "start" /\ owner = None
    /\ outcome = [c \in Conns |-> "none"]
    /\ socket = [c \in Conns |-> "none"]
    /\ active = [c \in Conns |-> FALSE]
    /\ revoker = [c \in Conns |-> FALSE]
    /\ controller = [c \in Conns |-> FALSE]
    /\ revocation = [c \in Conns |-> "none"]
    /\ core = [c \in Conns |-> "none"]
    /\ drained = [c \in Conns |-> FALSE]
    /\ cleanup = [c \in Conns |-> FALSE]

Environment(c) ==
    \/ Connect(c) \/ SocketCloses(c) \/ CoreEnds(c) \/ CoreStops(c)
    \/ CoreFailsToStop(c) \/ TransportDrains(c)

Replace(c) ==
    \/ ReplaceStart(c) \/ ReplaceRevoked(c) \/ ReplaceRefused(c)
    \/ ReplaceDrained(c) \/ OpenSucceeds(c) \/ OpenFails(c)
    \/ ActivateTransport(c) \/ ActivateCore(c) \/ ActivateSucceeds(c)
    \/ ActivateFails(c) \/ AbandonRevoked(c) \/ AbandonGivesUp(c)

Release(c) ==
    \/ ReleaseStart(c) \/ ReleaseRevoked(c) \/ ReleaseGivesUp(c) \/ Cleanup(c)

Next == \E c \in Conns : Environment(c) \/ Replace(c) \/ Release(c)

Spec == Init /\ [][Next]_vars

\* The event loop runs what is ready: the operation at the head of the queue
\* moves on (its waits are bounded, and begin(), which activate() awaits, has
\* no unbounded wait), a revoker that does not hang finishes, a closing
\* handshake ends (the transport terminates the socket after a delay).
Fairness ==
    \A c \in Conns :
        /\ WF_vars(Replace(c) \/ Release(c))
        /\ WF_vars("hang" \notin CoreFaults /\ (CoreStops(c) \/ CoreFailsToStop(c)))
        /\ WF_vars(socket[c] = "closing" /\ SocketCloses(c))

LiveSpec == Spec /\ Fairness

----------------------------------------------------------------------------
(* Properties *)

\* The state has the shape the class gives it.
TypeOK ==
    /\ queue \in Seq(Ops)
    /\ pc \in {"start", "revoking", "draining", "opening", "activating",
               "abandoning", "releasing"}
    /\ owner \in Conns \cup {None}
    /\ outcome \in [Conns -> {"none", "waiting", "serving", "failed"}]
    /\ socket \in [Conns -> {"none", "upgrading", "open", "closing", "closed"}]
    /\ active \in [Conns -> BOOLEAN]
    /\ revoker \in [Conns -> BOOLEAN]
    /\ controller \in [Conns -> BOOLEAN]
    /\ revocation \in [Conns -> {"none", "pending", "resolved", "rejected"}]
    /\ core \in [Conns -> {"none", "live", "stopped"}]
    /\ drained \in [Conns -> BOOLEAN]
    /\ cleanup \in [Conns -> BOOLEAN]

\* Every core that may still command the session belongs to the registered
\* connection, so a later takeover can reach and revoke it, and at most one
\* core commands the session: the reason replace() keeps a tombstone when a
\* revocation is slow or fails, instead of deleting the entry.
LiveCoreIsOwned == \A c \in Conns : core[c] = "live" => owner = c

\* Every connection that asks for the session gets an answer, also when the
\* core it replaces hangs: each wait of a takeover is bounded.
EveryRequestDecided ==
    \A c \in Conns : (outcome[c] = "waiting") ~> (outcome[c] # "waiting")

=============================================================================
