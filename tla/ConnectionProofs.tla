-------------------------- MODULE ConnectionProofs --------------------------
(***************************************************************************)
(* One session's connections.  ConnectionOwner: for any set of connections *)
(* and any faults of the revokers, at most one core commands the session,  *)
(* and it belongs to the registered connection.  ResponseDelivery: for any *)
(* number of turns and frames, any water marks and any behaviour of the    *)
(* client, what the connection sends is well-formed, its gate is opened    *)
(* again, and the ends the engine waits for are on their way.              *)
(***************************************************************************)
EXTENDS ConnectionOwner, ResponseDelivery, SequenceTheorems, WellFoundedInduction, TLAPS

(***************************************************************************)
(* Who owns the session (ConnectionOwner)                                  *)
(***************************************************************************)

\* The strengthening.  A connection that still waits for its turn has an
\* untouched lease, and asks only once.
Fresh(c) == /\ ~active[c] /\ ~revoker[c]
            /\ revocation[c] = "none" /\ core[c] = "none"

Unstarted(i) == /\ queue[i].kind = "replace"
                /\ ~(i = 1 /\ pc \in {"activating", "abandoning"})

WaitingIsFresh == \A i \in 1..Len(queue) : Unstarted(i) => Fresh(queue[i].conn)

AsksOnce ==
    \A i, j \in 1..Len(queue) :
        /\ queue[i].kind = "replace" /\ queue[j].kind = "replace"
        /\ queue[i].conn = queue[j].conn
        => i = j

UnseenIsFresh ==
    \A c \in Conns : outcome[c] = "none" =>
        Fresh(c) /\ \A i \in 1..Len(queue) : queue[i].conn # c

\* A cleanup is queued only when the core has stopped.
CleanupAfterStop ==
    \A i \in 1..Len(queue) :
        queue[i].kind = "cleanup" => revocation[queue[i].conn] = "resolved"

\* What the running operation knows at each of its waits.
PcInv ==
    /\ pc # "start" => queue # <<>>
    /\ pc \in {"revoking", "draining", "opening", "activating", "abandoning"}
           => queue[1].kind = "replace"
    /\ pc = "releasing" => queue[1].kind = "release"
    /\ pc \in {"revoking", "draining"} => owner # None
    /\ pc = "draining" => revocation[owner] = "resolved"
    /\ pc = "opening" => owner = None
    /\ pc \in {"activating", "abandoning", "releasing"} => owner = queue[1].conn

\* A lease is active until its revocation, and a live core can be revoked.
LeaseInv ==
    /\ owner # None => Registered(owner)
    /\ \A c \in Conns :
           /\ active[c] => revocation[c] = "none"
           /\ revocation[c] = "resolved" => core[c] # "live"
           /\ core[c] = "live" => revoker[c] \/ revocation[c] # "none"

IInv == /\ TypeOK
        /\ WaitingIsFresh /\ AsksOnce /\ UnseenIsFresh /\ CleanupAfterStop
        /\ PcInv /\ LeaseInv
        /\ LiveCoreIsOwned

-------------------------------------------------------------------------------

\* The queue only ever loses its head or gains an operation at its end.
LEMMA QueueTyped ==
    ASSUME TypeOK, NEW kind \in {"replace", "release", "cleanup"}, NEW c \in Conns
    PROVE  /\ Append(queue, Op(kind, c)) \in Seq(Ops)
           /\ queue # <<>> => Tail(queue) \in Seq(Ops)
BY DEF TypeOK, Ops, Op

LEMMA RevokeTyped ==
    ASSUME TypeOK, NEW c \in Conns, Revoke(c)
    PROVE  /\ active' \in [Conns -> BOOLEAN]
           /\ revoker' \in [Conns -> BOOLEAN]
           /\ revocation' \in [Conns -> {"none", "pending", "resolved", "rejected"}]
<1>1. CASE revocation[c] # "none"
  BY <1>1 DEF TypeOK, Revoke
<1>2. CASE revocation[c] = "none"
  BY <1>2 DEF TypeOK, Revoke
<1> QED
  BY <1>1, <1>2

LEMMA TypeStep == ASSUME TypeOK, [Next]_vars PROVE TypeOK'
<1> USE OwnerAssumption DEF TypeOK, Ops, Op, lease
<1>1. CASE UNCHANGED vars
  BY <1>1 DEF vars
<1>2. ASSUME NEW c \in Conns, Environment(c) PROVE TypeOK'
  <2>1. CASE Connect(c)
    BY <2>1 DEF Connect
  <2>2. CASE SocketCloses(c)
    <3>1. queue' \in Seq(Ops)
      BY <2>2, QueueTyped DEF SocketCloses
    <3> QED
      BY <2>2, <3>1 DEF SocketCloses
  <2>3. CASE CoreEnds(c)
    BY <2>3 DEF CoreEnds
  <2>4. CASE CoreStops(c)
    <3>1. queue' \in Seq(Ops)
      BY <2>4, QueueTyped DEF CoreStops
    <3> QED
      BY <2>4, <3>1 DEF CoreStops
  <2>5. CASE CoreFailsToStop(c)
    BY <2>5 DEF CoreFailsToStop
  <2>6. CASE TransportDrains(c)
    BY <2>6 DEF TransportDrains
  <2> QED
    BY <1>2, <2>1, <2>2, <2>3, <2>4, <2>5, <2>6 DEF Environment
<1>3. ASSUME NEW c \in Conns, Replace(c) PROVE TypeOK'
  <2>1. CASE ReplaceStart(c)
    <3>1. CASE owner = None
      BY <2>1, <3>1 DEF ReplaceStart
    <3>2. CASE owner # None
      BY <2>1, <3>2, RevokeTyped DEF ReplaceStart
    <3> QED
      BY <3>1, <3>2
  <2>2. CASE ReplaceRevoked(c)
    BY <2>2 DEF ReplaceRevoked, Running
  <2>3. CASE ReplaceRefused(c)
    <3>1. queue' \in Seq(Ops) /\ pc' = "start"
      BY <2>3, QueueTyped DEF ReplaceRefused, Running, GiveUp, Finish
    <3>2. socket' \in [Conns -> {"none", "upgrading", "open", "closing", "closed"}]
      BY <2>3 DEF ReplaceRefused, FailSupersede
    <3>3. drained' \in [Conns -> BOOLEAN] /\ cleanup' \in [Conns -> BOOLEAN]
      BY <2>3 DEF ReplaceRefused, FailSupersede, GiveUp
    <3> QED
      BY <2>3, <3>1, <3>2, <3>3 DEF ReplaceRefused
  <2>4. CASE ReplaceDrained(c)
    BY <2>4 DEF ReplaceDrained, Running, FailSupersede
  <2>5. CASE OpenSucceeds(c)
    BY <2>5 DEF OpenSucceeds, Running
  <2>6. CASE OpenFails(c)
    BY <2>6 DEF OpenFails, Running, Finish
  <2>7. CASE ActivateTransport(c)
    BY <2>7 DEF ActivateTransport, Running
  <2>8. CASE ActivateCore(c)
    BY <2>8 DEF ActivateCore, Running
  <2>9. CASE ActivateSucceeds(c)
    BY <2>9 DEF ActivateSucceeds, Running, Finish
  <2>10. CASE ActivateFails(c)
    <3>1. socket' \in [Conns -> {"none", "upgrading", "open", "closing", "closed"}]
      BY <2>10 DEF ActivateFails, FailSupersede
    <3>2. drained' \in [Conns -> BOOLEAN]
      BY <2>10 DEF ActivateFails, FailSupersede
    <3> QED
      BY <2>10, <3>1, <3>2, RevokeTyped DEF ActivateFails
  <2>11. CASE AbandonRevoked(c)
    BY <2>11 DEF AbandonRevoked, Running, Finish
  <2>12. CASE AbandonGivesUp(c)
    BY <2>12 DEF AbandonGivesUp, Running, GiveUp, Finish
  <2> QED
    BY <1>3, <2>1, <2>2, <2>3, <2>4, <2>5, <2>6, <2>7, <2>8, <2>9, <2>10, <2>11, <2>12
        DEF Replace
<1>4. ASSUME NEW c \in Conns, Release(c) PROVE TypeOK'
  <2>1. CASE ReleaseStart(c)
    <3>1. CASE owner # c
      BY <2>1, <3>1, QueueTyped DEF ReleaseStart, Running, Finish
    <3>2. CASE owner = c
      BY <2>1, <3>2, RevokeTyped DEF ReleaseStart
    <3> QED
      BY <3>1, <3>2
  <2>2. CASE ReleaseRevoked(c)
    BY <2>2 DEF ReleaseRevoked, Running, Finish
  <2>3. CASE ReleaseGivesUp(c)
    BY <2>3 DEF ReleaseGivesUp, Running, GiveUp, Finish
  <2>4. CASE Cleanup(c)
    BY <2>4 DEF Cleanup, Running, Finish
  <2> QED
    BY <1>4, <2>1, <2>2, <2>3, <2>4 DEF Release
<1> QED
  BY <1>1, <1>2, <1>3, <1>4 DEF Next

\* The state keeps its shape.
THEOREM TypeCorrect == Spec => []TypeOK
<1>1. Init => TypeOK
  BY OwnerAssumption DEF Init, TypeOK, Ops
<1> QED
  BY <1>1, TypeStep, PTL DEF Spec

\* How the queue moves.
LEMMA Appended ==
    ASSUME TypeOK, NEW kind \in {"replace", "release", "cleanup"}, NEW c \in Conns,
           queue' = Append(queue, Op(kind, c))
    PROVE  /\ Len(queue) \in Nat /\ Len(queue') = Len(queue) + 1
           /\ \A i \in 1..Len(queue) : queue'[i] = queue[i]
           /\ queue'[Len(queue) + 1].kind = kind
           /\ queue'[Len(queue) + 1].conn = c
           /\ queue' # <<>>
           /\ queue # <<>> => queue'[1] = queue[1]
<1> DEFINE o == Op(kind, c)
<1>1. o.kind = kind /\ o.conn = c
  BY DEF Op
<1>2. queue \in Seq(Ops) /\ o \in Ops
  BY DEF TypeOK, Ops, Op
<1> HIDE DEF o
<1>3. /\ Len(queue) \in Nat /\ Len(queue') = Len(queue) + 1
      /\ \A i \in 1..Len(queue) : queue'[i] = queue[i]
      /\ queue'[Len(queue) + 1] = o
      /\ queue' # <<>>
  BY <1>2 DEF o
<1>4. queue # <<>> => 1 \in 1..Len(queue)
  BY <1>2
<1> QED
  BY <1>1, <1>3, <1>4

LEMMA HeadRuns ==
    ASSUME TypeOK, NEW kind, NEW c, NEW at, Running(kind, c, at)
    PROVE  /\ pc = at /\ queue # <<>> /\ 1 \in 1..Len(queue)
           /\ queue[1].kind = kind /\ queue[1].conn = c
BY DEF TypeOK, Ops, Op, Running

LEMMA Popped ==
    ASSUME TypeOK, queue # <<>>, queue' = Tail(queue)
    PROVE  /\ Len(queue) \in Nat /\ Len(queue') = Len(queue) - 1
           /\ \A i \in 1..Len(queue') : /\ queue'[i] = queue[i + 1]
                                        /\ i + 1 \in 1..Len(queue)
                                        /\ i + 1 # 1
BY DEF TypeOK, Ops, Op

\* What the operations left in the queue keep when the running one ends.
LEMMA PoppedAsksOnce ==
    ASSUME TypeOK, queue # <<>>, queue' = Tail(queue), AsksOnce
    PROVE  AsksOnce'
<1> SUFFICES ASSUME NEW i \in 1..Len(queue'), NEW j \in 1..Len(queue'),
                    queue'[i].kind = "replace", queue'[j].kind = "replace",
                    queue'[i].conn = queue'[j].conn
             PROVE  i = j
  BY DEF AsksOnce
<1>1. /\ queue'[i] = queue[i + 1] /\ i + 1 \in 1..Len(queue)
      /\ queue'[j] = queue[j + 1] /\ j + 1 \in 1..Len(queue)
  BY Popped
<1>2. i + 1 = j + 1
  BY <1>1 DEF AsksOnce
<1> QED
  BY <1>2

LEMMA PoppedWaiting ==
    ASSUME TypeOK, queue # <<>>, queue' = Tail(queue), pc = "start", WaitingIsFresh,
           UNCHANGED <<active, revoker, revocation, core>>
    PROVE  WaitingIsFresh'
<1>1. SUFFICES ASSUME NEW i \in 1..Len(queue'), queue'[i].kind = "replace"
               PROVE  Fresh(queue'[i].conn)
  BY DEF WaitingIsFresh, Unstarted, Fresh
<1>2. queue'[i] = queue[i + 1] /\ i + 1 \in 1..Len(queue)
  BY Popped
<1>3. Fresh(queue[i + 1].conn)
  BY <1>1, <1>2 DEF WaitingIsFresh, Unstarted
<1> QED
  BY <1>2, <1>3

LEMMA QueueConns ==
    ASSUME TypeOK
    PROVE  \A i \in 1..Len(queue) : queue[i] \in Ops /\ queue[i].conn \in Conns
<1>1. \A i \in 1..Len(queue) : queue[i] \in Ops
  BY DEF TypeOK
<1> QED
  BY <1>1 DEF Ops

LEMMA ConnectKeeps ==
    ASSUME IInv, TypeOK', NEW c \in Conns, Connect(c)
    PROVE  IInv'
<1> USE OwnerAssumption DEF IInv, TypeOK, lease
<1>1. /\ Len(queue) \in Nat /\ Len(queue') = Len(queue) + 1
      /\ \A i \in 1..Len(queue) : queue'[i] = queue[i]
      /\ queue'[Len(queue) + 1].kind = "replace"
      /\ queue'[Len(queue) + 1].conn = c
      /\ queue' # <<>>
      /\ queue # <<>> => queue'[1] = queue[1]
  BY Appended DEF Connect
<1>2. WaitingIsFresh'
  BY <1>1, QueueConns DEF Connect, WaitingIsFresh, Unstarted, Fresh, UnseenIsFresh
<1>3. AsksOnce'
  BY <1>1 DEF Connect, AsksOnce, UnseenIsFresh
<1>4. UnseenIsFresh'
  BY <1>1, QueueConns DEF Connect, UnseenIsFresh, Fresh
<1>5. CleanupAfterStop'
  BY <1>1, QueueConns DEF Connect, CleanupAfterStop
<1>6. PcInv'
  BY <1>1, QueueConns DEF Connect, PcInv
<1>7. LeaseInv'
  BY <1>1, QueueConns DEF Connect, LeaseInv, Registered
<1>8. LiveCoreIsOwned'
  BY <1>1, QueueConns DEF Connect, LiveCoreIsOwned, LeaseInv
<1> QED
  BY <1>2, <1>3, <1>4, <1>5, <1>6, <1>7, <1>8

LEMMA SocketClosesKeeps ==
    ASSUME IInv, TypeOK', NEW c \in Conns, SocketCloses(c)
    PROVE  IInv'
<1> USE OwnerAssumption DEF IInv, TypeOK, lease
<1>1. /\ Len(queue) \in Nat /\ Len(queue') \in {Len(queue), Len(queue) + 1}
      /\ \A i \in 1..Len(queue) : queue'[i] = queue[i]
      /\ Len(queue') # Len(queue) =>
            /\ queue'[Len(queue) + 1].kind = "release"
            /\ queue'[Len(queue) + 1].conn = c
            /\ Registered(c)
      /\ queue # <<>> => queue' # <<>> /\ queue'[1] = queue[1]
  BY Appended DEF SocketCloses
<1>2. WaitingIsFresh'
  BY <1>1, QueueConns DEF SocketCloses, WaitingIsFresh, Unstarted, Fresh
<1>3. AsksOnce'
  BY <1>1, QueueConns DEF AsksOnce
<1>4. UnseenIsFresh'
  BY <1>1, QueueConns DEF SocketCloses, UnseenIsFresh, Fresh, LeaseInv, Registered
<1>5. CleanupAfterStop'
  BY <1>1, QueueConns DEF SocketCloses, CleanupAfterStop
<1>6. PcInv'
  BY <1>1, QueueConns DEF SocketCloses, PcInv
<1>7. LeaseInv'
  BY <1>1, QueueConns DEF SocketCloses, LeaseInv, Registered
<1>8. LiveCoreIsOwned'
  BY <1>1, QueueConns DEF SocketCloses, Registered, LiveCoreIsOwned
<1> QED
  BY <1>2, <1>3, <1>4, <1>5, <1>6, <1>7, <1>8

LEMMA CoreEndsKeeps ==
    ASSUME IInv, TypeOK', NEW c \in Conns, CoreEnds(c)
    PROVE  IInv'
<1> USE OwnerAssumption DEF IInv, TypeOK, lease
<1>1. WaitingIsFresh'
  BY QueueConns DEF CoreEnds, WaitingIsFresh, Unstarted, Fresh
<1>2. AsksOnce'
  BY DEF CoreEnds, AsksOnce
<1>3. UnseenIsFresh'
  BY QueueConns DEF CoreEnds, UnseenIsFresh, Fresh
<1>4. CleanupAfterStop'
  BY QueueConns DEF CoreEnds, CleanupAfterStop
<1>5. PcInv'
  BY QueueConns DEF CoreEnds, PcInv
<1>6. LeaseInv'
  BY QueueConns DEF CoreEnds, LeaseInv, Registered
<1>7. LiveCoreIsOwned'
  BY QueueConns DEF CoreEnds, LiveCoreIsOwned, LeaseInv
<1> QED
  BY <1>1, <1>2, <1>3, <1>4, <1>5, <1>6, <1>7

LEMMA CoreStopsKeeps ==
    ASSUME IInv, TypeOK', NEW c \in Conns, CoreStops(c)
    PROVE  IInv'
<1> USE OwnerAssumption DEF IInv, TypeOK, lease
<1>1. /\ Len(queue) \in Nat /\ Len(queue') \in {Len(queue), Len(queue) + 1}
      /\ \A i \in 1..Len(queue) : queue'[i] = queue[i]
      /\ Len(queue') # Len(queue) =>
            /\ queue'[Len(queue) + 1].kind = "cleanup"
            /\ queue'[Len(queue) + 1].conn = c
            /\ cleanup[c]
      /\ queue # <<>> => queue' # <<>> /\ queue'[1] = queue[1]
  BY Appended DEF CoreStops
<1>2. WaitingIsFresh'
  BY <1>1, QueueConns DEF CoreStops, WaitingIsFresh, Unstarted, Fresh
<1>3. AsksOnce'
  BY <1>1 DEF AsksOnce
<1>4. UnseenIsFresh'
  BY <1>1, QueueConns DEF CoreStops, UnseenIsFresh, Fresh
<1>5. CleanupAfterStop'
  BY <1>1, QueueConns DEF CoreStops, CleanupAfterStop
<1>6. PcInv'
  BY <1>1, QueueConns DEF CoreStops, PcInv
<1>7. LeaseInv'
  BY <1>1, QueueConns DEF CoreStops, LeaseInv, Registered
<1>8. LiveCoreIsOwned'
  BY <1>1, QueueConns DEF CoreStops, LiveCoreIsOwned, LeaseInv
<1> QED
  BY <1>2, <1>3, <1>4, <1>5, <1>6, <1>7, <1>8

LEMMA CoreFailsToStopKeeps ==
    ASSUME IInv, TypeOK', NEW c \in Conns, CoreFailsToStop(c)
    PROVE  IInv'
<1> USE OwnerAssumption DEF IInv, TypeOK, lease
<1>1. WaitingIsFresh'
  BY QueueConns DEF CoreFailsToStop, WaitingIsFresh, Unstarted, Fresh
<1>2. AsksOnce'
  BY DEF CoreFailsToStop, AsksOnce
<1>3. UnseenIsFresh'
  BY QueueConns DEF CoreFailsToStop, UnseenIsFresh, Fresh
<1>4. CleanupAfterStop'
  BY QueueConns DEF CoreFailsToStop, CleanupAfterStop
<1>5. PcInv'
  BY QueueConns DEF CoreFailsToStop, PcInv
<1>6. LeaseInv'
  BY QueueConns DEF CoreFailsToStop, LeaseInv, Registered
<1>7. LiveCoreIsOwned'
  BY QueueConns DEF CoreFailsToStop, LiveCoreIsOwned, LeaseInv
<1> QED
  BY <1>1, <1>2, <1>3, <1>4, <1>5, <1>6, <1>7

LEMMA TransportDrainsKeeps ==
    ASSUME IInv, TypeOK', NEW c \in Conns, TransportDrains(c)
    PROVE  IInv'
<1> USE OwnerAssumption DEF IInv, TypeOK, lease
<1>1. WaitingIsFresh'
  BY QueueConns DEF TransportDrains, WaitingIsFresh, Unstarted, Fresh
<1>2. AsksOnce'
  BY DEF TransportDrains, AsksOnce
<1>3. UnseenIsFresh'
  BY QueueConns DEF TransportDrains, UnseenIsFresh, Fresh
<1>4. CleanupAfterStop'
  BY QueueConns DEF TransportDrains, CleanupAfterStop
<1>5. PcInv'
  BY QueueConns DEF TransportDrains, PcInv
<1>6. LeaseInv'
  BY QueueConns DEF TransportDrains, LeaseInv, Registered
<1>7. LiveCoreIsOwned'
  BY QueueConns DEF TransportDrains, LiveCoreIsOwned, LeaseInv
<1> QED
  BY <1>1, <1>2, <1>3, <1>4, <1>5, <1>6, <1>7

LEMMA ReplaceStartKeeps ==
    ASSUME IInv, TypeOK', NEW c \in Conns, ReplaceStart(c)
    PROVE  IInv'
<1> USE OwnerAssumption DEF IInv, TypeOK, lease
<1>1. /\ queue # <<>> /\ 1 \in 1..Len(queue)
      /\ queue[1].kind = "replace" /\ queue[1].conn = c
  BY HeadRuns DEF ReplaceStart
<1>2. WaitingIsFresh'
  BY <1>1, QueueConns
      DEF ReplaceStart, Running, Revoke, WaitingIsFresh, Unstarted, Fresh, LeaseInv,
          Registered
<1>3. AsksOnce'
  BY DEF ReplaceStart, AsksOnce
<1>4. UnseenIsFresh'
  BY <1>1, QueueConns
      DEF ReplaceStart, Running, Revoke, UnseenIsFresh, Fresh, LeaseInv, Registered
<1>5. CleanupAfterStop'
  BY <1>1, QueueConns DEF ReplaceStart, Running, Revoke, CleanupAfterStop
<1>6. PcInv'
  BY <1>1, QueueConns DEF ReplaceStart, Running, Revoke, PcInv
<1>7. LeaseInv'
  BY <1>1, QueueConns DEF ReplaceStart, Running, Revoke, LeaseInv, Registered
<1>8. LiveCoreIsOwned'
  BY <1>1, QueueConns DEF ReplaceStart, Running, Revoke, LiveCoreIsOwned, LeaseInv
<1> QED
  BY <1>2, <1>3, <1>4, <1>5, <1>6, <1>7, <1>8

LEMMA ReplaceRevokedKeeps ==
    ASSUME IInv, TypeOK', NEW c \in Conns, ReplaceRevoked(c)
    PROVE  IInv'
<1> USE OwnerAssumption DEF IInv, TypeOK, lease
<1>1. /\ queue # <<>> /\ 1 \in 1..Len(queue)
      /\ queue[1].kind = "replace" /\ queue[1].conn = c
  BY HeadRuns DEF ReplaceRevoked
<1>2. WaitingIsFresh'
  BY <1>1, QueueConns DEF ReplaceRevoked, Running, WaitingIsFresh, Unstarted, Fresh
<1>3. AsksOnce'
  BY DEF ReplaceRevoked, AsksOnce
<1>4. UnseenIsFresh'
  BY <1>1, QueueConns DEF ReplaceRevoked, Running, UnseenIsFresh, Fresh
<1>5. CleanupAfterStop'
  BY <1>1, QueueConns DEF ReplaceRevoked, Running, CleanupAfterStop
<1>6. PcInv'
  BY <1>1, QueueConns DEF ReplaceRevoked, Running, PcInv
<1>7. LeaseInv'
  BY <1>1, QueueConns DEF ReplaceRevoked, Running, LeaseInv, Registered
<1>8. LiveCoreIsOwned'
  BY <1>1, QueueConns DEF ReplaceRevoked, Running, LiveCoreIsOwned, LeaseInv
<1> QED
  BY <1>2, <1>3, <1>4, <1>5, <1>6, <1>7, <1>8

LEMMA ReplaceRefusedKeeps ==
    ASSUME IInv, TypeOK', NEW c \in Conns, ReplaceRefused(c)
    PROVE  IInv'
<1> USE OwnerAssumption DEF IInv, TypeOK, lease
<1>1. /\ queue # <<>> /\ 1 \in 1..Len(queue)
      /\ queue[1].kind = "replace" /\ queue[1].conn = c
  BY HeadRuns DEF ReplaceRefused
<1>2. /\ Len(queue) \in Nat /\ Len(queue') = Len(queue) - 1
      /\ \A i \in 1..Len(queue') : /\ queue'[i] = queue[i + 1]
                                   /\ i + 1 \in 1..Len(queue)
                                   /\ i + 1 # 1
  BY DEF ReplaceRefused, GiveUp, Finish
<1>3. WaitingIsFresh'
  BY <1>1, <1>2, QueueConns
      DEF ReplaceRefused, Running, GiveUp, Finish, WaitingIsFresh, Unstarted, Fresh
<1>4. AsksOnce'
  BY <1>1, <1>2, QueueConns DEF ReplaceRefused, Running, GiveUp, Finish, AsksOnce
<1>5. UnseenIsFresh'
  BY <1>1, <1>2, QueueConns
      DEF ReplaceRefused, Running, GiveUp, Finish, UnseenIsFresh, Fresh
<1>6. CleanupAfterStop'
  BY <1>1, <1>2, QueueConns
      DEF ReplaceRefused, Running, GiveUp, Finish, CleanupAfterStop, PcInv
<1>7. PcInv'
  BY <1>1, <1>2, QueueConns DEF ReplaceRefused, Running, GiveUp, Finish, PcInv
<1>8. LeaseInv'
  BY <1>1, <1>2, QueueConns
      DEF ReplaceRefused, Running, GiveUp, Finish, LeaseInv, Registered
<1>9. LiveCoreIsOwned'
  BY <1>1, <1>2, QueueConns
      DEF ReplaceRefused, Running, GiveUp, Finish, LiveCoreIsOwned, LeaseInv
<1> QED
  BY <1>3, <1>4, <1>5, <1>6, <1>7, <1>8, <1>9

LEMMA ReplaceDrainedKeeps ==
    ASSUME IInv, TypeOK', NEW c \in Conns, ReplaceDrained(c)
    PROVE  IInv'
<1> USE OwnerAssumption DEF IInv, TypeOK, lease
<1>1. /\ queue # <<>> /\ 1 \in 1..Len(queue)
      /\ queue[1].kind = "replace" /\ queue[1].conn = c
  BY HeadRuns DEF ReplaceDrained
<1>2. WaitingIsFresh'
  BY <1>1, QueueConns DEF ReplaceDrained, Running, WaitingIsFresh, Unstarted, Fresh
<1>3. AsksOnce'
  BY DEF ReplaceDrained, AsksOnce
<1>4. UnseenIsFresh'
  BY <1>1, QueueConns DEF ReplaceDrained, Running, UnseenIsFresh, Fresh
<1>5. CleanupAfterStop'
  BY <1>1, QueueConns DEF ReplaceDrained, Running, CleanupAfterStop
<1>6. PcInv'
  BY <1>1, QueueConns DEF ReplaceDrained, Running, PcInv
<1>7. LeaseInv'
  BY <1>1, QueueConns DEF ReplaceDrained, Running, LeaseInv
<1>8. LiveCoreIsOwned'
  BY <1>1, QueueConns DEF ReplaceDrained, Running, LiveCoreIsOwned, LeaseInv, PcInv
<1> QED
  BY <1>2, <1>3, <1>4, <1>5, <1>6, <1>7, <1>8

LEMMA OpenSucceedsKeeps ==
    ASSUME IInv, TypeOK', NEW c \in Conns, OpenSucceeds(c)
    PROVE  IInv'
<1> USE OwnerAssumption DEF IInv, TypeOK, lease
<1>1. /\ queue # <<>> /\ 1 \in 1..Len(queue)
      /\ queue[1].kind = "replace" /\ queue[1].conn = c
  BY HeadRuns DEF OpenSucceeds
<1>2. WaitingIsFresh'
  BY <1>1, QueueConns
      DEF OpenSucceeds, Running, AsksOnce, WaitingIsFresh, Unstarted, Fresh, LeaseInv,
          UnseenIsFresh, PcInv, Registered, CleanupAfterStop
<1>3. AsksOnce'
  BY DEF OpenSucceeds, AsksOnce
<1>4. UnseenIsFresh'
  BY <1>1, QueueConns DEF OpenSucceeds, Running, UnseenIsFresh, Fresh
<1>5. CleanupAfterStop'
  BY <1>1, QueueConns DEF OpenSucceeds, Running, CleanupAfterStop
<1>6. PcInv'
  BY <1>1, QueueConns DEF OpenSucceeds, Running, PcInv
<1>7. LeaseInv'
  BY <1>1, QueueConns
      DEF OpenSucceeds, Running, LeaseInv, Registered, WaitingIsFresh, Unstarted, Fresh
<1>8. LiveCoreIsOwned'
  BY <1>1, QueueConns DEF OpenSucceeds, Running, LiveCoreIsOwned, PcInv
<1> QED
  BY <1>2, <1>3, <1>4, <1>5, <1>6, <1>7, <1>8

LEMMA OpenFailsKeeps ==
    ASSUME IInv, TypeOK', NEW c \in Conns, OpenFails(c)
    PROVE  IInv'
<1> USE OwnerAssumption DEF IInv, TypeOK, lease
<1>1. /\ queue # <<>> /\ 1 \in 1..Len(queue)
      /\ queue[1].kind = "replace" /\ queue[1].conn = c
  BY HeadRuns DEF OpenFails
<1>2. /\ Len(queue) \in Nat /\ Len(queue') = Len(queue) - 1
      /\ \A i \in 1..Len(queue') : /\ queue'[i] = queue[i + 1]
                                   /\ i + 1 \in 1..Len(queue)
                                   /\ i + 1 # 1
  BY DEF OpenFails, Finish
<1>3. WaitingIsFresh'
  BY <1>1, <1>2, QueueConns
      DEF OpenFails, Running, Finish, AsksOnce, WaitingIsFresh, Unstarted, Fresh, LeaseInv,
          UnseenIsFresh, PcInv, Registered, CleanupAfterStop
<1>4. AsksOnce'
  BY <1>1, <1>2, QueueConns DEF OpenFails, Running, Finish, AsksOnce
<1>5. UnseenIsFresh'
  BY <1>1, <1>2, QueueConns DEF OpenFails, Running, Finish, UnseenIsFresh, Fresh
<1>6. CleanupAfterStop'
  BY <1>1, <1>2, QueueConns DEF OpenFails, Running, Finish, CleanupAfterStop
<1>7. PcInv'
  BY <1>1, <1>2, QueueConns DEF OpenFails, Running, Finish, PcInv
<1>8. LeaseInv'
  BY <1>1, <1>2, QueueConns
      DEF OpenFails, Running, Finish, LeaseInv, Registered, WaitingIsFresh, Unstarted, Fresh
<1>9. LiveCoreIsOwned'
  BY <1>1, <1>2, QueueConns DEF OpenFails, Running, Finish, LiveCoreIsOwned, LeaseInv
<1> QED
  BY <1>3, <1>4, <1>5, <1>6, <1>7, <1>8, <1>9

LEMMA ActivateTransportKeeps ==
    ASSUME IInv, TypeOK', NEW c \in Conns, ActivateTransport(c)
    PROVE  IInv'
<1> USE OwnerAssumption DEF IInv, TypeOK, lease
<1>1. /\ queue # <<>> /\ 1 \in 1..Len(queue)
      /\ queue[1].kind = "replace" /\ queue[1].conn = c
  BY HeadRuns DEF ActivateTransport
<1>2. WaitingIsFresh'
  BY <1>1, QueueConns DEF ActivateTransport, Running, WaitingIsFresh, Unstarted, Fresh
<1>3. AsksOnce'
  BY DEF ActivateTransport, AsksOnce
<1>4. UnseenIsFresh'
  BY <1>1, QueueConns DEF ActivateTransport, Running, UnseenIsFresh, Fresh
<1>5. CleanupAfterStop'
  BY <1>1, QueueConns DEF ActivateTransport, Running, CleanupAfterStop
<1>6. PcInv'
  BY <1>1, QueueConns DEF ActivateTransport, Running, PcInv
<1>7. LeaseInv'
  BY <1>1, QueueConns DEF ActivateTransport, Running, LeaseInv, Registered
<1>8. LiveCoreIsOwned'
  BY <1>1, QueueConns DEF ActivateTransport, Running, LiveCoreIsOwned, LeaseInv
<1> QED
  BY <1>2, <1>3, <1>4, <1>5, <1>6, <1>7, <1>8

LEMMA ActivateCoreKeeps ==
    ASSUME IInv, TypeOK', NEW c \in Conns, ActivateCore(c)
    PROVE  IInv'
<1> USE OwnerAssumption DEF IInv, TypeOK, lease
<1>1. /\ queue # <<>> /\ 1 \in 1..Len(queue)
      /\ queue[1].kind = "replace" /\ queue[1].conn = c
  BY HeadRuns DEF ActivateCore
<1>2. WaitingIsFresh'
  BY <1>1, QueueConns DEF ActivateCore, Running, WaitingIsFresh, Unstarted, Fresh
<1>3. AsksOnce'
  BY DEF ActivateCore, AsksOnce
<1>4. UnseenIsFresh'
  BY <1>1, QueueConns DEF ActivateCore, Running, UnseenIsFresh, Fresh
<1>5. CleanupAfterStop'
  BY <1>1, QueueConns DEF ActivateCore, Running, CleanupAfterStop
<1>6. PcInv'
  BY <1>1, QueueConns DEF ActivateCore, Running, PcInv
<1>7. LeaseInv'
  BY <1>1, QueueConns DEF ActivateCore, Running, LeaseInv, Registered
<1>8. LiveCoreIsOwned'
  BY <1>1, QueueConns DEF ActivateCore, Running, LiveCoreIsOwned, PcInv
<1> QED
  BY <1>2, <1>3, <1>4, <1>5, <1>6, <1>7, <1>8

LEMMA ActivateSucceedsKeeps ==
    ASSUME IInv, TypeOK', NEW c \in Conns, ActivateSucceeds(c)
    PROVE  IInv'
<1> USE OwnerAssumption DEF IInv, TypeOK, lease
<1>1. /\ queue # <<>> /\ 1 \in 1..Len(queue)
      /\ queue[1].kind = "replace" /\ queue[1].conn = c
  BY HeadRuns DEF ActivateSucceeds
<1>2. /\ Len(queue) \in Nat /\ Len(queue') = Len(queue) - 1
      /\ \A i \in 1..Len(queue') : /\ queue'[i] = queue[i + 1]
                                   /\ i + 1 \in 1..Len(queue)
                                   /\ i + 1 # 1
  BY DEF ActivateSucceeds, Finish
<1>3. WaitingIsFresh'
  BY <1>1, <1>2, QueueConns
      DEF ActivateSucceeds, Running, Finish, WaitingIsFresh, Unstarted, Fresh
<1>4. AsksOnce'
  BY <1>2 DEF ActivateSucceeds, AsksOnce
<1>5. UnseenIsFresh'
  BY <1>1, <1>2, QueueConns DEF ActivateSucceeds, Running, Finish, UnseenIsFresh, Fresh
<1>6. CleanupAfterStop'
  BY <1>1, <1>2, QueueConns DEF ActivateSucceeds, Running, Finish, CleanupAfterStop
<1>7. PcInv'
  BY <1>1, <1>2, QueueConns DEF ActivateSucceeds, Running, Finish, PcInv
<1>8. LeaseInv'
  BY <1>1, <1>2, QueueConns DEF ActivateSucceeds, Running, Finish, LeaseInv, Registered
<1>9. LiveCoreIsOwned'
  BY <1>1, <1>2, QueueConns DEF ActivateSucceeds, Running, Finish, LiveCoreIsOwned, LeaseInv
<1> QED
  BY <1>3, <1>4, <1>5, <1>6, <1>7, <1>8, <1>9

LEMMA ActivateFailsKeeps ==
    ASSUME IInv, TypeOK', NEW c \in Conns, ActivateFails(c)
    PROVE  IInv'
<1> USE OwnerAssumption DEF IInv, TypeOK, lease
<1>1. /\ queue # <<>> /\ 1 \in 1..Len(queue)
      /\ queue[1].kind = "replace" /\ queue[1].conn = c
  BY HeadRuns DEF ActivateFails
<1>2. WaitingIsFresh'
  BY <1>1, QueueConns
      DEF ActivateFails, Running, Revoke, WaitingIsFresh, Unstarted, Fresh, PcInv, LeaseInv,
          Registered
<1>3. AsksOnce'
  BY DEF ActivateFails, AsksOnce
<1>4. UnseenIsFresh'
  BY <1>1, QueueConns DEF ActivateFails, Running, Revoke, UnseenIsFresh, Fresh
<1>5. CleanupAfterStop'
  BY <1>1, QueueConns DEF ActivateFails, Running, Revoke, CleanupAfterStop
<1>6. PcInv'
  BY <1>1, QueueConns DEF ActivateFails, Running, Revoke, PcInv
<1>7. LeaseInv'
  BY <1>1, QueueConns DEF ActivateFails, Running, Revoke, LeaseInv, Registered
<1>8. LiveCoreIsOwned'
  BY <1>1, QueueConns DEF ActivateFails, Running, Revoke, LiveCoreIsOwned, LeaseInv
<1> QED
  BY <1>2, <1>3, <1>4, <1>5, <1>6, <1>7, <1>8

LEMMA AbandonRevokedKeeps ==
    ASSUME IInv, TypeOK', NEW c \in Conns, AbandonRevoked(c)
    PROVE  IInv'
<1> USE OwnerAssumption DEF IInv, TypeOK, lease
<1>1. /\ queue # <<>> /\ 1 \in 1..Len(queue)
      /\ queue[1].kind = "replace" /\ queue[1].conn = c
  BY HeadRuns DEF AbandonRevoked
<1>2. /\ Len(queue) \in Nat /\ Len(queue') = Len(queue) - 1
      /\ \A i \in 1..Len(queue') : /\ queue'[i] = queue[i + 1]
                                   /\ i + 1 \in 1..Len(queue)
                                   /\ i + 1 # 1
  BY DEF AbandonRevoked, Finish
<1>3. WaitingIsFresh'
  BY <1>1, <1>2, QueueConns
      DEF AbandonRevoked, Running, Finish, WaitingIsFresh, Unstarted, Fresh
<1>4. AsksOnce'
  BY <1>1, <1>2, QueueConns DEF AbandonRevoked, Running, Finish, AsksOnce
<1>5. UnseenIsFresh'
  BY <1>1, <1>2, QueueConns DEF AbandonRevoked, Running, Finish, UnseenIsFresh, Fresh
<1>6. CleanupAfterStop'
  BY <1>1, <1>2, QueueConns DEF AbandonRevoked, Running, Finish, CleanupAfterStop
<1>7. PcInv'
  BY <1>1, <1>2, QueueConns DEF AbandonRevoked, Running, Finish, PcInv
<1>8. LeaseInv'
  BY <1>1, <1>2, QueueConns DEF AbandonRevoked, Running, Finish, LeaseInv
<1>9. LiveCoreIsOwned'
  BY <1>1, <1>2, QueueConns
      DEF AbandonRevoked, Running, Finish, LiveCoreIsOwned, LeaseInv, PcInv
<1> QED
  BY <1>3, <1>4, <1>5, <1>6, <1>7, <1>8, <1>9

LEMMA AbandonGivesUpKeeps ==
    ASSUME IInv, TypeOK', NEW c \in Conns, AbandonGivesUp(c)
    PROVE  IInv'
<1> USE OwnerAssumption DEF IInv, TypeOK, lease
<1>1. /\ queue # <<>> /\ 1 \in 1..Len(queue)
      /\ queue[1].kind = "replace" /\ queue[1].conn = c
  BY HeadRuns DEF AbandonGivesUp
<1>2. /\ Len(queue) \in Nat /\ Len(queue') = Len(queue) - 1
      /\ \A i \in 1..Len(queue') : /\ queue'[i] = queue[i + 1]
                                   /\ i + 1 \in 1..Len(queue)
                                   /\ i + 1 # 1
  BY DEF AbandonGivesUp, GiveUp, Finish
<1>3. WaitingIsFresh'
  BY <1>1, <1>2, QueueConns
      DEF AbandonGivesUp, Running, GiveUp, Finish, WaitingIsFresh, Unstarted, Fresh
<1>4. AsksOnce'
  BY <1>1, <1>2, QueueConns DEF AbandonGivesUp, Running, GiveUp, Finish, AsksOnce
<1>5. UnseenIsFresh'
  BY <1>1, <1>2, QueueConns
      DEF AbandonGivesUp, Running, GiveUp, Finish, UnseenIsFresh, Fresh
<1>6. CleanupAfterStop'
  BY <1>1, <1>2, QueueConns
      DEF AbandonGivesUp, Running, GiveUp, Finish, CleanupAfterStop, Fresh
<1>7. PcInv'
  BY <1>1, <1>2, QueueConns DEF AbandonGivesUp, Running, GiveUp, Finish, PcInv
<1>8. LeaseInv'
  BY <1>1, <1>2, QueueConns
      DEF AbandonGivesUp, Running, GiveUp, Finish, LeaseInv, Registered
<1>9. LiveCoreIsOwned'
  BY <1>1, <1>2, QueueConns
      DEF AbandonGivesUp, Running, GiveUp, Finish, LiveCoreIsOwned, LeaseInv
<1> QED
  BY <1>3, <1>4, <1>5, <1>6, <1>7, <1>8, <1>9

LEMMA ReleaseStartKeeps ==
    ASSUME IInv, TypeOK', NEW c \in Conns, ReleaseStart(c)
    PROVE  IInv'
<1> USE OwnerAssumption DEF IInv, TypeOK, lease
<1>1. /\ queue # <<>> /\ 1 \in 1..Len(queue)
      /\ queue[1].kind = "release" /\ queue[1].conn = c
  BY HeadRuns DEF ReleaseStart
<1>2. CASE owner # c
  <2>0. queue' = Tail(queue) /\ pc = "start"
    BY <1>2 DEF ReleaseStart, Running, Finish
  <2>1. /\ Len(queue) \in Nat /\ Len(queue') = Len(queue) - 1
        /\ \A i \in 1..Len(queue') : /\ queue'[i] = queue[i + 1]
                                     /\ i + 1 \in 1..Len(queue)
                                     /\ i + 1 # 1
    BY <1>1, <2>0, Popped
  <2>2. WaitingIsFresh'
    BY <1>1, <1>2, <2>0, PoppedWaiting DEF ReleaseStart
  <2>3. AsksOnce'
    BY <1>1, <2>0, PoppedAsksOnce
  <2>4. UnseenIsFresh'
    BY <1>1, <1>2, <2>1, QueueConns DEF ReleaseStart, Running, Finish, UnseenIsFresh, Fresh
  <2>5. CleanupAfterStop'
    <3>1. revocation' = revocation
      BY <1>2 DEF ReleaseStart
    <3>2. \A i \in 1..Len(queue) : queue[i].kind = "cleanup" => revocation[queue[i].conn] = "resolved"
      BY DEF CleanupAfterStop
    <3>3. SUFFICES ASSUME NEW i \in 1..Len(queue'), queue'[i].kind = "cleanup"
                   PROVE  revocation[queue'[i].conn] = "resolved"
      BY <3>1 DEF CleanupAfterStop
    <3> QED
      BY <2>1, <3>2, <3>3
  <2>6. PcInv'
    BY <1>1, <1>2, <2>1, QueueConns DEF ReleaseStart, Running, Finish, PcInv
  <2>7. LeaseInv'
    BY <1>1, <1>2, <2>1, QueueConns DEF ReleaseStart, Running, Finish, LeaseInv, Registered
  <2>8. LiveCoreIsOwned'
    BY <1>1, <1>2, <2>1, QueueConns
        DEF ReleaseStart, Running, Finish, LiveCoreIsOwned, LeaseInv
  <2> QED
    BY <2>2, <2>3, <2>4, <2>5, <2>6, <2>7, <2>8
<1>3. CASE owner = c
  <2>1. WaitingIsFresh'
    BY <1>1, <1>3, QueueConns
        DEF ReleaseStart, Running, Revoke, WaitingIsFresh, Unstarted, Fresh, LeaseInv,
            Registered
  <2>2. AsksOnce'
    BY <1>3 DEF ReleaseStart, AsksOnce
  <2>3. UnseenIsFresh'
    BY <1>1, <1>3, QueueConns DEF ReleaseStart, Running, Revoke, UnseenIsFresh, Fresh
  <2>4. CleanupAfterStop'
    BY <1>1, <1>3, QueueConns DEF ReleaseStart, Running, Revoke, CleanupAfterStop
  <2>5. PcInv'
    BY <1>1, <1>3, QueueConns DEF ReleaseStart, Running, Revoke, PcInv
  <2>6. LeaseInv'
    BY <1>1, <1>3, QueueConns DEF ReleaseStart, Running, Revoke, LeaseInv, Registered
  <2>7. LiveCoreIsOwned'
    BY <1>1, <1>3, QueueConns DEF ReleaseStart, Running, Revoke, LiveCoreIsOwned, LeaseInv
  <2> QED
    BY <2>1, <2>2, <2>3, <2>4, <2>5, <2>6, <2>7
<1> QED
  BY <1>2, <1>3

LEMMA ReleaseRevokedKeeps ==
    ASSUME IInv, TypeOK', NEW c \in Conns, ReleaseRevoked(c)
    PROVE  IInv'
<1> USE OwnerAssumption DEF IInv, TypeOK, lease
<1>1. /\ queue # <<>> /\ 1 \in 1..Len(queue)
      /\ queue[1].kind = "release" /\ queue[1].conn = c
  BY HeadRuns DEF ReleaseRevoked
<1>2. /\ Len(queue) \in Nat /\ Len(queue') = Len(queue) - 1
      /\ \A i \in 1..Len(queue') : /\ queue'[i] = queue[i + 1]
                                   /\ i + 1 \in 1..Len(queue)
                                   /\ i + 1 # 1
  BY DEF ReleaseRevoked, Finish
<1>3. WaitingIsFresh'
  BY <1>1, <1>2, QueueConns
      DEF ReleaseRevoked, Running, Finish, WaitingIsFresh, Unstarted, Fresh
<1>4. AsksOnce'
  BY <1>1, <1>2, QueueConns DEF ReleaseRevoked, Running, Finish, AsksOnce
<1>5. UnseenIsFresh'
  BY <1>1, <1>2, QueueConns DEF ReleaseRevoked, Running, Finish, UnseenIsFresh, Fresh
<1>6. CleanupAfterStop'
  BY <1>1, <1>2, QueueConns DEF ReleaseRevoked, Running, Finish, CleanupAfterStop
<1>7. PcInv'
  BY <1>1, <1>2, QueueConns DEF ReleaseRevoked, Running, Finish, PcInv
<1>8. LeaseInv'
  BY <1>1, <1>2, QueueConns DEF ReleaseRevoked, Running, Finish, LeaseInv
<1>9. LiveCoreIsOwned'
  BY <1>1, <1>2, QueueConns
      DEF ReleaseRevoked, Running, Finish, LiveCoreIsOwned, LeaseInv, PcInv
<1> QED
  BY <1>3, <1>4, <1>5, <1>6, <1>7, <1>8, <1>9

LEMMA ReleaseGivesUpKeeps ==
    ASSUME IInv, TypeOK', NEW c \in Conns, ReleaseGivesUp(c)
    PROVE  IInv'
<1> USE OwnerAssumption DEF IInv, TypeOK, lease
<1>1. /\ queue # <<>> /\ 1 \in 1..Len(queue)
      /\ queue[1].kind = "release" /\ queue[1].conn = c
  BY HeadRuns DEF ReleaseGivesUp
<1>2. /\ Len(queue) \in Nat /\ Len(queue') = Len(queue) - 1
      /\ \A i \in 1..Len(queue') : /\ queue'[i] = queue[i + 1]
                                   /\ i + 1 \in 1..Len(queue)
                                   /\ i + 1 # 1
  BY DEF ReleaseGivesUp, GiveUp, Finish
<1>3. WaitingIsFresh'
  BY <1>1, <1>2, QueueConns
      DEF ReleaseGivesUp, Running, GiveUp, Finish, WaitingIsFresh, Unstarted, Fresh
<1>4. AsksOnce'
  BY <1>1, <1>2, QueueConns DEF ReleaseGivesUp, Running, GiveUp, Finish, AsksOnce
<1>5. UnseenIsFresh'
  BY <1>1, <1>2, QueueConns
      DEF ReleaseGivesUp, Running, GiveUp, Finish, UnseenIsFresh, Fresh
<1>6. CleanupAfterStop'
  BY <1>1, <1>2, QueueConns DEF ReleaseGivesUp, Running, GiveUp, Finish, CleanupAfterStop
<1>7. PcInv'
  BY <1>1, <1>2, QueueConns DEF ReleaseGivesUp, Running, GiveUp, Finish, PcInv
<1>8. LeaseInv'
  BY <1>1, <1>2, QueueConns
      DEF ReleaseGivesUp, Running, GiveUp, Finish, LeaseInv, Registered
<1>9. LiveCoreIsOwned'
  BY <1>1, <1>2, QueueConns
      DEF ReleaseGivesUp, Running, GiveUp, Finish, LiveCoreIsOwned, LeaseInv
<1> QED
  BY <1>3, <1>4, <1>5, <1>6, <1>7, <1>8, <1>9

LEMMA CleanupKeeps ==
    ASSUME IInv, TypeOK', NEW c \in Conns, Cleanup(c)
    PROVE  IInv'
<1> USE OwnerAssumption DEF IInv, TypeOK, lease
<1>1. /\ queue # <<>> /\ 1 \in 1..Len(queue)
      /\ queue[1].kind = "cleanup" /\ queue[1].conn = c
  BY HeadRuns DEF Cleanup
<1>2. /\ Len(queue) \in Nat /\ Len(queue') = Len(queue) - 1
      /\ \A i \in 1..Len(queue') : /\ queue'[i] = queue[i + 1]
                                   /\ i + 1 \in 1..Len(queue)
                                   /\ i + 1 # 1
  BY DEF Cleanup, Finish
<1>3. WaitingIsFresh'
  BY <1>1, <1>2, QueueConns DEF Cleanup, Running, Finish, WaitingIsFresh, Unstarted, Fresh
<1>4. AsksOnce'
  BY <1>1, <1>2, QueueConns DEF Cleanup, Running, Finish, AsksOnce
<1>5. UnseenIsFresh'
  BY <1>1, <1>2, QueueConns DEF Cleanup, Running, Finish, UnseenIsFresh, Fresh
<1>6. CleanupAfterStop'
  BY <1>1, <1>2, QueueConns DEF Cleanup, Running, Finish, CleanupAfterStop
<1>7. PcInv'
  BY <1>1, <1>2, QueueConns DEF Cleanup, Running, Finish, PcInv
<1>8. LeaseInv'
  BY <1>1, <1>2, QueueConns DEF Cleanup, Running, Finish, LeaseInv, Registered
<1>9. LiveCoreIsOwned'
  BY <1>1, <1>2, QueueConns
      DEF Cleanup, Running, Finish, LiveCoreIsOwned, LeaseInv, CleanupAfterStop
<1> QED
  BY <1>3, <1>4, <1>5, <1>6, <1>7, <1>8, <1>9

\* For every number of connections, whatever their revokers do: at most one core
\* can command the session, and the registered connection owns it.
THEOREM OneCoreCommands == Spec => []LiveCoreIsOwned
<1>1. Init => IInv
  <2> SUFFICES ASSUME Init PROVE IInv
    OBVIOUS
  <2>1. TypeOK
    BY DEF Init, TypeOK
  <2> QED
    BY <2>1 DEF Init, IInv, WaitingIsFresh, AsksOnce, UnseenIsFresh, Fresh,
         CleanupAfterStop, PcInv, LeaseInv, LiveCoreIsOwned
<1>2. IInv /\ [Next]_vars => IInv'
  <2> SUFFICES ASSUME IInv, [Next]_vars PROVE IInv'
    OBVIOUS
  <2>1. TypeOK'
    BY TypeStep DEF IInv
  <2>2. CASE UNCHANGED vars
    BY <2>2 DEF vars, lease, IInv, TypeOK, WaitingIsFresh, Unstarted, AsksOnce,
         UnseenIsFresh, Fresh, CleanupAfterStop, PcInv, LeaseInv, Registered,
         LiveCoreIsOwned
  <2>3. ASSUME NEW c \in Conns, Environment(c) PROVE IInv'
    BY <2>1, <2>3, ConnectKeeps, SocketClosesKeeps, CoreEndsKeeps, CoreStopsKeeps,
           CoreFailsToStopKeeps, TransportDrainsKeeps
        DEF Environment
  <2>4. ASSUME NEW c \in Conns, Replace(c) PROVE IInv'
    BY <2>1, <2>4, ReplaceStartKeeps, ReplaceRevokedKeeps, ReplaceRefusedKeeps,
           ReplaceDrainedKeeps,
         OpenSucceedsKeeps, OpenFailsKeeps, ActivateTransportKeeps, ActivateCoreKeeps,
         ActivateSucceedsKeeps, ActivateFailsKeeps, AbandonRevokedKeeps, AbandonGivesUpKeeps
       DEF Replace
  <2>5. ASSUME NEW c \in Conns, Release(c) PROVE IInv'
    BY <2>1, <2>5, ReleaseStartKeeps, ReleaseRevokedKeeps, ReleaseGivesUpKeeps, CleanupKeeps
        DEF Release
  <2> QED
    BY <2>2, <2>3, <2>4, <2>5 DEF Next
<1>3. IInv => LiveCoreIsOwned
  BY DEF IInv
<1> QED
  BY <1>1, <1>2, <1>3, PTL DEF Spec

(***************************************************************************)
(* How a response is delivered (ResponseDelivery)                          *)
(***************************************************************************)

LEMMA Smallest ==
    ASSUME NEW T \in SUBSET Nat, T # {}
    PROVE  \E x \in T : \A y \in T : ~(y < x)
<1>1. \E x \in T : \A y \in T : ~(<<y, x>> \in OpToRel(<, Nat))
    BY WFMin, NatLessThanWellFounded
<1> QED  BY <1>1 DEF OpToRel

\* The account of what was told is the recursion it is written as.
LEMMA ToldRuns ==
    ASSUME NEW seen, NEW S, NEW q \in Seq(S)
    PROVE  /\ Told(seen, q)[0] = seen
           /\ \A n \in 1..Len(q) : Told(seen, q)[n] = After(Told(seen, q)[n - 1], q[n])
<1> DEFINE Step(G, k) == [n \in 0..k |-> IF n = 0 THEN seen ELSE After(G[n - 1], q[n])]
           T == {k \in 0..Len(q) : ~\E G : G = Step(G, k)}
           K == CHOOSE G : G = Step(G, Len(q))
<1>1. Len(q) \in Nat
    OBVIOUS
<1>2. T = {}
    <2> SUFFICES ASSUME T # {} PROVE FALSE
        OBVIOUS
    <2>1. PICK x \in T : \A y \in T : ~(y < x)
        <3>1. T \in SUBSET Nat
            BY <1>1
        <3> HIDE DEF T
        <3> QED  BY <3>1, Smallest
    <2>2. x # 0
        <3>1. [n \in 0..0 |-> seen] = Step([n \in 0..0 |-> seen], 0)
            OBVIOUS
        <3> QED  BY <3>1
    <2>3. x - 1 \in 0..Len(q) /\ x - 1 < x /\ x \in 1..Len(q)
        BY <1>1, <2>2
    <2>4. PICK G : G = Step(G, x - 1)
        BY <2>1, <2>3
    <2> DEFINE H == [n \in 0..x |-> IF n = x THEN After(G[x - 1], q[x]) ELSE G[n]]
    <2>5. H = Step(H, x)
        <3>1. ASSUME NEW n \in 0..x
              PROVE  H[n] = IF n = 0 THEN seen ELSE After(H[n - 1], q[n])
            <4>1. CASE n = x
                BY <2>3, <4>1
            <4>2. CASE n # x
                <5>1. n \in 0..(x - 1) /\ H[n] = G[n]
                    BY <2>3, <4>2
                <5>2. G[n] = IF n = 0 THEN seen ELSE After(G[n - 1], q[n])
                    BY <2>4, <5>1
                <5>3. n # 0 => n - 1 \in 0..x /\ n - 1 # x
                    BY <2>3, <5>1
                <5>4. n # 0 => H[n - 1] = G[n - 1]
                    BY <5>3
                <5> QED  BY <5>1, <5>2, <5>4
            <4> QED  BY <4>1, <4>2
        <3> QED  BY <3>1
    <2> QED  BY <2>1, <2>5
<1>3. K = Step(K, Len(q))
    BY <1>1, <1>2
<1>4. Told(seen, q) = K
    BY DEF Told
<1> HIDE DEF K
<1>5. K[0] = seen /\ \A n \in 1..Len(q) : K[n] = After(K[n - 1], q[n])
    BY <1>1, <1>3
<1> QED  BY <1>4, <1>5

\* A message more changes nothing of what was told before it.
LEMMA ToldAppend ==
    ASSUME NEW seen, NEW S, NEW q \in Seq(S), NEW msg \in S
    PROVE  /\ \A n \in 0..Len(q) : Told(seen, Append(q, msg))[n] = Told(seen, q)[n]
           /\ Told(seen, Append(q, msg))[Len(q) + 1] = After(Told(seen, q)[Len(q)], msg)
<1> DEFINE r == Append(q, msg)
           A == Told(seen, q)
           B == Told(seen, r)
           T == {n \in 0..Len(q) : B[n] # A[n]}
<1>1. /\ r \in Seq(S) /\ Len(r) = Len(q) + 1 /\ Len(q) \in Nat
      /\ \A i \in 1..Len(q) : r[i] = q[i]
      /\ r[Len(q) + 1] = msg
    OBVIOUS
<1> HIDE DEF r
<1>2. A[0] = seen /\ \A n \in 1..Len(q) : A[n] = After(A[n - 1], q[n])
    BY ToldRuns
<1>3. B[0] = seen /\ \A n \in 1..Len(r) : B[n] = After(B[n - 1], r[n])
    BY <1>1, ToldRuns
<1> HIDE DEF A, B
<1>4. T = {}
    <2> SUFFICES ASSUME T # {} PROVE FALSE
        OBVIOUS
    <2>1. PICK x \in T : \A y \in T : ~(y < x)
        <3>1. T \in SUBSET Nat
            BY <1>1
        <3> HIDE DEF T
        <3> QED  BY <3>1, Smallest
    <2>2. x # 0 /\ x \in 1..Len(q) /\ x - 1 \in 0..Len(q) /\ x - 1 < x
        BY <1>1, <1>2, <1>3
    <2>3. B[x - 1] = A[x - 1]
        BY <2>1, <2>2
    <2>4. B[x] = After(B[x - 1], r[x]) /\ r[x] = q[x] /\ A[x] = After(A[x - 1], q[x])
        BY <1>1, <1>2, <1>3, <2>2
    <2> QED  BY <2>1, <2>3, <2>4
<1>5. \A n \in 0..Len(q) : B[n] = A[n]
    BY <1>4
<1>6. B[Len(q) + 1] = After(B[Len(q)], msg) /\ B[Len(q)] = A[Len(q)]
    <2>1. Len(q) + 1 \in 1..Len(r) /\ (Len(q) + 1) - 1 = Len(q) /\ Len(q) \in 0..Len(q)
        BY <1>1
    <2> QED  BY <1>1, <1>3, <1>5, <2>1
<1> QED  BY <1>5, <1>6 DEF A, B, r

\* Once the oldest message is handed off, the account goes on from there.
LEMMA ToldTail ==
    ASSUME NEW seen, NEW S, NEW q \in Seq(S), q # <<>>
    PROVE  \A n \in 0..(Len(q) - 1) :
              Told(After(seen, Head(q)), Tail(q))[n] = Told(seen, q)[n + 1]
<1> DEFINE r == Tail(q)
           A == Told(seen, q)
           B == Told(After(seen, Head(q)), r)
           T == {n \in 0..(Len(q) - 1) : B[n] # A[n + 1]}
<1>1. /\ r \in Seq(S) /\ Len(r) = Len(q) - 1 /\ Len(q) \in Nat \ {0}
      /\ \A i \in 1..Len(r) : r[i] = q[i + 1]
      /\ Head(q) = q[1]
    OBVIOUS
<1> HIDE DEF r
<1>2. A[0] = seen /\ \A n \in 1..Len(q) : A[n] = After(A[n - 1], q[n])
    BY ToldRuns
<1>3. B[0] = After(seen, Head(q)) /\ \A n \in 1..Len(r) : B[n] = After(B[n - 1], r[n])
    BY <1>1, ToldRuns
<1> HIDE DEF A, B
<1>4. T = {}
    <2> SUFFICES ASSUME T # {} PROVE FALSE
        OBVIOUS
    <2>1. PICK x \in T : \A y \in T : ~(y < x)
        <3>1. T \in SUBSET Nat
            BY <1>1
        <3> HIDE DEF T
        <3> QED  BY <3>1, Smallest
    <2>2. A[1] = After(seen, Head(q))
        <3>1. 1 \in 1..Len(q) /\ 1 - 1 = 0 /\ q[1] = Head(q)
            BY <1>1
        <3>2. A[1] = After(A[1 - 1], q[1])
            BY <1>2, <3>1
        <3> QED  BY <1>2, <3>1, <3>2
    <2>3. x # 0 /\ x \in 1..Len(r) /\ x - 1 \in 0..(Len(q) - 1) /\ x - 1 < x
        BY <1>1, <1>3, <2>2
    <2>4. B[x - 1] = A[(x - 1) + 1] /\ (x - 1) + 1 = x
        BY <2>1, <2>3
    <2>5. B[x] = After(B[x - 1], r[x]) /\ r[x] = q[x + 1]
        BY <1>1, <1>3, <2>3
    <2>6. A[x + 1] = After(A[x], q[x + 1])
        <3>1. x + 1 \in 1..Len(q) /\ (x + 1) - 1 = x
            BY <1>1, <2>3
        <3> QED  BY <1>2, <3>1
    <2> QED  BY <2>1, <2>4, <2>5, <2>6
<1> QED  BY <1>4 DEF A, B, r

Responses == Turns \cup {NoTurn}
Closes == {"open", "terminal", "requested", "closed"}

\* What the gate gets, and what the writer gets.
ResponseOutputs == [t : Outputs, g : Turns, ok : BOOLEAN]
WireMessages ==
    [t : {"audio"}, g : Turns, k : Nat]
    \cup [t : {"created", "text", "done"}, g : Turns, k : {0}]
    \cup [t : {"note", "error", "ended"}, g : {NoTurn}, k : {0}]
Tellings == [open : Responses, last : Responses, next : Nat]

Settlements == [g : Responses, ok : BOOLEAN, phase : {"none", "wire", "playback"}]
Speech == [g : Turns, k : Nat, cut : BOOLEAN]
Feedbacks == [st : {"none", "live", "drained", "failed"}, next : Nat]

Engines ==
    [turn : Responses, next : 1..MaxTurns + 1, stream : BOOLEAN, direct : BOOLEAN,
     said : Nat, left : Int, heard : BOOLEAN, held : BOOLEAN, interrupted : BOOLEAN,
     fired : SUBSET Turns, settle : Settlements, gpu : Seq(Speech), voiced : Nat]
MediaSessions ==
    [closed : BOOLEAN, tearing : BOOLEAN, speaking : BOOLEAN, active : Responses,
     flow : Responses, paused : BOOLEAN, by : Responses, queue : Seq(ResponseOutputs),
     retired : Responses, fail : Responses, ending : BOOLEAN,
     feedback : [Turns -> Feedbacks]]
Adapters ==
    [active : Responses, cancelled : BOOLEAN, opened : BOOLEAN, produced : Nat,
     pausedGen : Responses, timers : SUBSET Turns, close : Closes, soon : BOOLEAN,
     fatal : BOOLEAN, tripped : BOOLEAN]
Writers == [q : Seq(WireMessages), paused : BOOLEAN, failed : BOOLEAN]
Composites == [e : Engines, m : MediaSessions, a : Adapters, w : Writers]

\* What the client will have been told when all that is queued was handed off.
Final(seen, q) == Told(seen, q)[Len(q)]

\* What is queued is well-formed, and so no response is told of twice.
WireInv(seen, q) ==
    /\ seen \in Tellings /\ q \in Seq(WireMessages)
    /\ \A i \in 1..Len(q) : Legal(Told(seen, q)[i - 1], q[i])
    /\ \A i \in 0..Len(q) :
          /\ Told(seen, q)[i] \in Tellings
          /\ Told(seen, q)[i].open \in {NoTurn, Told(seen, q)[i].last}
    /\ \A i, j \in 0..Len(q) :
          i <= j =>
             /\ Told(seen, q)[i].last <= Told(seen, q)[j].last
             /\ (Told(seen, q)[i].last = Told(seen, q)[j].last /\ Told(seen, q)[i].open = NoTurn)
                   => Told(seen, q)[j].open = NoTurn

\* Among outputs, or messages, there is one of a kind for a response.
Has(q, t, g) == \E i \in 1..Len(q) : q[i].t = t /\ q[i].g = g

\* The adapter still enqueues, and its writer takes it.
Talks(c) == c.a.close \in {"open", "terminal"} /\ ~c.w.failed

\* The adapter knows what the client will have been told.
AgreesInv(c, seen) ==
    Talks(c) =>
        /\ Final(seen, c.w.q).open = c.a.active
        /\ c.a.active # NoTurn => Final(seen, c.w.q).next = c.a.produced

GateInv(c) ==
    (~c.m.closed /\ c.m.paused) =>
        c.w.paused /\ c.a.pausedGen = c.m.by /\ c.m.by # NoTurn

\* True whether the session lives or not, in the middle of a handler too.
Piped(c, seen) ==
    /\ c \in Composites
    /\ WireInv(seen, c.w.q)
    /\ AgreesInv(c, seen)
    /\ GateInv(c)
    /\ ~c.a.tripped
    /\ Has(c.w.q, "ended", NoTurn) => c.a.close # "open"
Solid(c, seen) ==
    /\ Piped(c, seen)
    /\ c.m.closed => \A g \in Turns : ~Has(c.m.queue, "started", g)
    /\ c.m.fail # NoTurn => (c.m.queue = <<>> /\ c.m.flow = NoTurn)
    /\ c.m.ending => c.m.closed

\* A session that is not over has its connection.
Base(c, seen) ==
    /\ Solid(c, seen)
    /\ ~c.m.closed => ~c.a.fatal /\ ~c.a.soon /\ c.a.close = "open" /\ ~c.w.failed

QueueInv(q, next, last, fired, fb) ==
    /\ \A i \in 1..Len(q) :
          /\ q[i].g < next
          /\ q[i].t = "started" => last < q[i].g /\ fb[q[i].g].st = "live"
          /\ q[i].t = "terminal" => q[i].g \in fired
    /\ \A i, j \in 1..Len(q) :
          i < j => /\ q[i].g <= q[j].g
                   /\ q[j].t = "started" => q[i].g < q[j].g
                   /\ (q[i].t = "terminal" /\ q[j].t = "terminal") => q[i].g # q[j].g

FeedbackInv(fb, seen, q) ==
    /\ \A g \in Turns : fb[g].st = "live" =>
          /\ g = seen.open => fb[g].next = seen.next
          /\ seen.last < g => fb[g].next = 0
    /\ \A g \in Turns : Has(q, "done", g) => fb[g].st = "live"

\* The flow is of the response the adapter has, or of one it will have.
FlowInv(c, last) ==
    /\ c.a.active \in {NoTurn, c.m.flow}
    /\ c.m.flow # NoTurn => c.a.active = c.m.flow \/ last < c.m.flow
    /\ c.a.active # NoTurn => c.m.feedback[c.a.active].st = "live"
    /\ c.m.flow < c.e.next /\ last < c.e.next

TurnInv(c) ==
    /\ c.e.turn \in {NoTurn, c.e.next - 1} /\ c.m.active \in {NoTurn, c.e.next - 1}
    /\ \A g \in c.e.fired : g < c.e.next
    /\ c.e.stream => c.e.turn \notin c.e.fired
    /\ c.m.retired \in c.e.fired \cup {NoTurn}
    /\ c.e.settle.phase = "wire" =>
          /\ c.e.settle.g = c.e.next - 1 /\ c.e.settle.g \in c.e.fired
          /\ Has(c.m.queue, "terminal", c.e.settle.g) => c.m.retired < c.e.settle.g

Live(c, seen) ==
    /\ QueueInv(c.m.queue, c.e.next, Final(seen, c.w.q).last, c.e.fired, c.m.feedback)
    /\ FeedbackInv(c.m.feedback, seen, c.w.q)
    /\ FlowInv(c, Final(seen, c.w.q).last)
    /\ TurnInv(c)

\* The response was announced, or will be: its start is queued and not retired.
Known(c, seen, g) ==
    \/ g <= Final(seen, c.w.q).last
    \/ Has(c.m.queue, "started", g) /\ c.m.retired < g
Ending(c, g) ==
    \/ Has(c.m.queue, "terminal", g)
    \/ Has(c.w.q, "done", g) /\ g \in c.a.timers
SettleInv(c, seen) ==
    (c.e.settle.phase = "wire" /\ Known(c, seen, c.e.settle.g)) => Ending(c, c.e.settle.g)

\* Between two events, what is queued of the settlement's response is not retired,
\* or its end was sent; and an open gate that waits for no response holds nothing
\* back.
Sent(c, g) == Has(c.w.q, "done", g) /\ g \in c.a.timers
FreshInv(c) ==
    (c.e.settle.phase = "wire" /\ Has(c.m.queue, "started", c.e.settle.g))
        => c.m.retired < c.e.settle.g \/ Sent(c, c.e.settle.g)
OpenInv(c) == (~c.m.paused /\ c.m.flow = NoTurn) => c.m.queue = <<>>

Lives(c) == ~c.m.closed /\ c.m.fail = NoTurn
Steady(c, seen) == Base(c, seen) /\ (Lives(c) => Live(c, seen))
Sound(c, seen) ==
    /\ Steady(c, seen)
    /\ Lives(c) => SettleInv(c, seen) /\ FreshInv(c) /\ OpenInv(c)

\* What an event leaves behind.
Calm(c, seen) == Sound(c, seen) /\ c.m.fail = NoTurn /\ ~c.m.tearing
DeliveryInv == Calm(Now, client)

-----------------------------------------------------------------------------
(* The wire                                                                *)

LEMMA MessageIs ==
    ASSUME NEW t, NEW g, NEW k
    PROVE  LET msg == Message(t, g, k)
           IN /\ msg.t = t /\ msg.g = g /\ msg.k = k
              /\ t = "audio" /\ g \in Turns /\ k \in Nat => msg \in WireMessages
              /\ (t \in {"created", "text", "done"} /\ g \in Turns /\ k = 0) => msg \in WireMessages
              /\ (t \in {"note", "error", "ended"} /\ g = 0 /\ k = 0) => msg \in WireMessages
  BY DEF Message, WireMessages, NoTurn

LEMMA WireMessageIs ==
    ASSUME NEW msg \in WireMessages
    PROVE  /\ msg.t \in {"audio", "created", "text", "done", "note", "error", "ended"}
           /\ msg.t \in {"audio", "created", "text", "done"} => msg.g \in Turns
           /\ msg.k \in Nat
           /\ msg.t # "audio" => msg.k = 0
           /\ msg = Message(msg.t, msg.g, msg.k)
  BY DEF Message, WireMessages, NoTurn

\* What a legal message makes of what the client was told.
LEMMA LegalTelling ==
    ASSUME NEW seen \in Tellings, seen.open \in {NoTurn, seen.last},
           NEW msg \in WireMessages, Legal(seen, msg)
    PROVE  LET n == After(seen, msg)
           IN /\ n \in Tellings /\ n.open \in {NoTurn, n.last}
              /\ seen.last <= n.last
              /\ (n.last = seen.last /\ seen.open = NoTurn) => n.open = NoTurn
              /\ msg.t = "created" => /\ n.open = msg.g /\ n.last = msg.g /\ n.next = 0
                                      /\ seen.open = NoTurn /\ seen.last < msg.g
              /\ msg.t = "audio" => /\ n.open = seen.open /\ n.last = seen.last
                                    /\ n.next = seen.next + 1
                                    /\ seen.open = msg.g /\ seen.next = msg.k
              /\ msg.t = "done" => /\ n.open = NoTurn /\ n.last = seen.last /\ n.next = 0
                                   /\ seen.open = msg.g
              /\ msg.t \notin {"created", "audio", "done"} => n = seen
<1>1. /\ seen.open \in Responses /\ seen.last \in Responses /\ seen.next \in Nat
      /\ seen.last \in Nat /\ seen.last <= seen.last
    BY DEF Tellings, Responses, Turns, NoTurn
<1>2. msg.t \in {"audio", "created", "text", "done", "note", "error", "ended"}
      /\ (msg.t \in {"audio", "created", "text", "done"} => msg.g \in Turns)
    BY WireMessageIs
<1>3. CASE msg.t = "created"
    <2>1. After(seen, msg) = [open |-> msg.g, last |-> msg.g, next |-> 0]
        BY <1>3 DEF After
    <2>2. seen.open = NoTurn /\ msg.g > seen.last
        BY <1>3 DEF Legal
    <2> QED  BY <1>1, <1>2, <1>3, <2>1, <2>2 DEF Tellings, Responses, Turns, NoTurn
<1>4. CASE msg.t = "audio"
    <2>1. After(seen, msg) = [seen EXCEPT !.next = @ + 1]
        BY <1>4 DEF After
    <2>2. seen.open = msg.g /\ msg.k = seen.next
        BY <1>4 DEF Legal
    <2> QED  BY <1>1, <1>2, <1>4, <2>1, <2>2 DEF Tellings
<1>5. CASE msg.t = "done"
    <2>1. After(seen, msg) = [seen EXCEPT !.open = NoTurn, !.next = 0]
        BY <1>5 DEF After
    <2>2. seen.open = msg.g
        BY <1>5 DEF Legal
    <2>3. NoTurn \in Responses /\ 0 \in Nat
        BY DEF Responses
    <2> DEFINE n == [seen EXCEPT !.open = NoTurn, !.next = 0]
    <2>4. n \in Tellings /\ n.open = NoTurn /\ n.last = seen.last /\ n.next = 0
        BY <2>3, Zenon DEF Tellings
    <2> HIDE DEF n
    <2>5. After(seen, msg) = n
        BY <2>1 DEF n
    <2> QED  BY <1>1, <1>2, <1>5, <2>2, <2>4, <2>5
<1>6. CASE msg.t \notin {"created", "audio", "done"}
    <2>1. After(seen, msg) = seen
        BY <1>6 DEF After
    <2> QED  BY <1>1, <1>6, <2>1
<1> QED  BY <1>2, <1>3, <1>4, <1>5, <1>6

LEMMA WireEmpty ==
    ASSUME NEW seen \in Tellings, seen.open \in {NoTurn, seen.last}
    PROVE  WireInv(seen, <<>>) /\ Final(seen, <<>>) = seen
<1>1. <<>> \in Seq(WireMessages) /\ Len(<<>>) = 0
    OBVIOUS
<1>2. Told(seen, <<>>)[0] = seen
    BY <1>1, ToldRuns
<1>3. seen.last \in Nat
    BY DEF Tellings, Responses, Turns, NoTurn
<1> QED  BY <1>1, <1>2, <1>3 DEF WireInv, Final

\* A legal message is put behind what is queued.
LEMMA WireAppend ==
    ASSUME NEW seen, NEW q, WireInv(seen, q), NEW msg \in WireMessages,
           Legal(Final(seen, q), msg)
    PROVE  /\ WireInv(seen, Append(q, msg))
           /\ Final(seen, Append(q, msg)) = After(Final(seen, q), msg)
<1> DEFINE r == Append(q, msg)
           A == Told(seen, q)
           B == Told(seen, r)
           n == Len(q)
<1>1. seen \in Tellings /\ q \in Seq(WireMessages) /\ n \in Nat
    BY DEF WireInv
<1>2. /\ r \in Seq(WireMessages) /\ Len(r) = n + 1
      /\ \A i \in 1..n : r[i] = q[i]
      /\ r[n + 1] = msg
    BY <1>1
<1>3. /\ \A i \in 0..n : B[i] = A[i]
      /\ B[n + 1] = After(A[n], msg)
    BY <1>1, ToldAppend
<1>4. /\ \A i \in 1..n : Legal(A[i - 1], q[i])
      /\ \A i \in 0..n : A[i] \in Tellings /\ A[i].open \in {NoTurn, A[i].last}
      /\ \A i, j \in 0..n : i <= j =>
            /\ A[i].last <= A[j].last
            /\ (A[i].last = A[j].last /\ A[i].open = NoTurn) => A[j].open = NoTurn
    BY DEF WireInv
<1>5. Legal(A[n], msg)
    BY DEF Final
<1> HIDE DEF r, A, B
<1> DEFINE a == A[n]
           b == B[n + 1]
<1>6. a \in Tellings /\ a.open \in {NoTurn, a.last}
    BY <1>1, <1>4
<1>7. /\ b \in Tellings /\ b.open \in {NoTurn, b.last}
      /\ a.last <= b.last
      /\ (b.last = a.last /\ a.open = NoTurn) => b.open = NoTurn
    BY <1>3, <1>5, <1>6, LegalTelling
<1>8. \A i \in 1..Len(r) : Legal(B[i - 1], r[i])
    <2> TAKE i \in 1..Len(r)
    <2>1. CASE i = n + 1
        <3>1. i - 1 = n /\ B[i - 1] = A[n]
            BY <1>1, <1>3, <2>1
        <3> QED  BY <1>2, <1>5, <2>1, <3>1
    <2>2. CASE i # n + 1
        <3>1. i \in 1..n /\ i - 1 \in 0..n
            BY <1>1, <1>2, <2>2
        <3> QED  BY <1>2, <1>3, <1>4, <3>1
    <2> QED  BY <2>1, <2>2
<1>9. \A i \in 0..Len(r) : i \in 0..n \/ i = n + 1
    BY <1>1, <1>2
<1>10. \A i \in 0..Len(r) : B[i] \in Tellings /\ B[i].open \in {NoTurn, B[i].last}
    BY <1>3, <1>4, <1>7, <1>9
<1>11. \A i \in 0..n : a.last \in Nat /\ b.last \in Nat /\ A[i].last \in Nat
    BY <1>4, <1>6, <1>7 DEF Tellings, Responses, Turns, NoTurn
<1>12. ASSUME NEW i \in 0..Len(r), NEW j \in 0..Len(r), i <= j
       PROVE  /\ B[i].last <= B[j].last
              /\ (B[i].last = B[j].last /\ B[i].open = NoTurn) => B[j].open = NoTurn
    <2>1. CASE j \in 0..n
        <3>1. i \in 0..n
            BY <1>1, <1>9, <1>12, <2>1
        <3> QED  BY <1>3, <1>4, <1>12, <2>1, <3>1
    <2>2. CASE i \in 0..n /\ j = n + 1
        <3>1. A[i].last <= a.last /\ ((A[i].last = a.last /\ A[i].open = NoTurn) => a.open = NoTurn)
            BY <1>1, <1>4, <2>2
        <3>2. B[i] = A[i]
            BY <1>3, <2>2
        <3> HIDE DEF a, b
        <3>3. A[i].last <= b.last /\ (A[i].last = b.last => A[i].last = a.last /\ a.last = b.last)
            BY <1>7, <1>11, <2>2, <3>1
        <3>4. B[j] = b
            BY <2>2 DEF b
        <3> QED  BY <1>7, <3>1, <3>2, <3>3, <3>4
    <2>3. CASE i = n + 1
        <3>1. j = n + 1
            BY <1>1, <1>9, <1>12, <2>3
        <3> QED  BY <1>1, <1>11, <2>3, <3>1
    <2> QED  BY <1>9, <2>1, <2>2, <2>3
<1>13. WireInv(seen, r)
    BY <1>1, <1>2, <1>8, <1>10, <1>12 DEF WireInv, B
<1>14. Final(seen, r) = After(Final(seen, q), msg)
    BY <1>2, <1>3 DEF Final, A, B
<1> QED  BY <1>13, <1>14 DEF r

\* The oldest message is handed off.
LEMMA WireTail ==
    ASSUME NEW seen, NEW q, WireInv(seen, q), q # <<>>
    PROVE  /\ Legal(seen, Head(q)) /\ Head(q) \in WireMessages
           /\ seen \in Tellings /\ seen.open \in {NoTurn, seen.last}
           /\ WireInv(After(seen, Head(q)), Tail(q))
           /\ Final(After(seen, Head(q)), Tail(q)) = Final(seen, q)
<1> DEFINE r == Tail(q)
           A == Told(seen, q)
           B == Told(After(seen, Head(q)), r)
           n == Len(q)
<1>1. seen \in Tellings /\ q \in Seq(WireMessages) /\ n \in Nat \ {0}
    BY DEF WireInv
<1>2. /\ r \in Seq(WireMessages) /\ Len(r) = n - 1
      /\ \A i \in 1..(n - 1) : r[i] = q[i + 1]
      /\ Head(q) = q[1] /\ Head(q) \in WireMessages
    BY <1>1
<1>3. \A i \in 0..(n - 1) : B[i] = A[i + 1]
    BY <1>1, ToldTail
<1>4. A[0] = seen /\ B[0] = After(seen, Head(q))
    BY <1>1, <1>2, ToldRuns
<1>5. /\ \A i \in 1..n : Legal(A[i - 1], q[i])
      /\ \A i \in 0..n : A[i] \in Tellings /\ A[i].open \in {NoTurn, A[i].last}
      /\ \A i, j \in 0..n : i <= j =>
            /\ A[i].last <= A[j].last
            /\ (A[i].last = A[j].last /\ A[i].open = NoTurn) => A[j].open = NoTurn
    BY DEF WireInv
<1> HIDE DEF r, A, B
<1>6. Legal(seen, Head(q)) /\ seen.open \in {NoTurn, seen.last}
    <2>1. 1 \in 1..n /\ 1 - 1 = 0 /\ 0 \in 0..n
        BY <1>1
    <2> QED  BY <1>2, <1>4, <1>5, <2>1
<1>7. \A i \in 1..Len(r) : Legal(B[i - 1], r[i])
    <2> TAKE i \in 1..Len(r)
    <2>1. i - 1 \in 0..(n - 1) /\ (i - 1) + 1 = i /\ i + 1 \in 1..n /\ (i + 1) - 1 = i
          /\ i \in 1..(n - 1)
        BY <1>1, <1>2
    <2>2. B[i - 1] = A[i] /\ r[i] = q[i + 1]
        BY <1>2, <1>3, <2>1
    <2>3. Legal(A[(i + 1) - 1], q[i + 1])
        BY <1>5, <2>1
    <2> QED  BY <2>1, <2>2, <2>3
<1>8. \A i \in 0..Len(r) : i + 1 \in 0..n /\ B[i] = A[i + 1]
    BY <1>1, <1>2, <1>3
<1>9. \A i \in 0..Len(r) : B[i] \in Tellings /\ B[i].open \in {NoTurn, B[i].last}
    BY <1>5, <1>8
<1>10. \A i, j \in 0..Len(r) : i <= j => i + 1 <= j + 1
    BY <1>1, <1>2
<1>11. \A i, j \in 0..Len(r) : i <= j =>
            /\ B[i].last <= B[j].last
            /\ (B[i].last = B[j].last /\ B[i].open = NoTurn) => B[j].open = NoTurn
    BY <1>5, <1>8, <1>10
<1>12. B[0] \in Tellings
    BY <1>1, <1>2, <1>9
<1>13. WireInv(After(seen, Head(q)), r)
    BY <1>2, <1>4, <1>7, <1>9, <1>11, <1>12 DEF WireInv, B
<1>14. Final(After(seen, Head(q)), r) = Final(seen, q)
    <2>1. Len(r) \in 0..Len(r) /\ Len(r) + 1 = n
        BY <1>1, <1>2
    <2> QED  BY <1>8, <2>1 DEF Final, A, B
<1> QED  BY <1>1, <1>2, <1>6, <1>13, <1>14 DEF r

LEMMA FinalIs ==
    ASSUME NEW seen, NEW q, WireInv(seen, q)
    PROVE  /\ seen \in Tellings /\ seen.last \in Nat /\ seen.next \in Nat
           /\ seen.open \in {NoTurn, seen.last}
           /\ q \in Seq(WireMessages) /\ Len(q) \in Nat
           /\ Final(seen, q) \in Tellings /\ Final(seen, q).last \in Nat
           /\ Final(seen, q).next \in Nat
           /\ Final(seen, q).open \in {NoTurn, Final(seen, q).last}
           /\ seen.last <= Final(seen, q).last
           /\ \A i \in 1..Len(q) : q[i].t = "created" => q[i].g <= Final(seen, q).last
<1> DEFINE A == Told(seen, q)
           n == Len(q)
<1>1. seen \in Tellings /\ q \in Seq(WireMessages) /\ n \in Nat
    BY DEF WireInv
<1>2. A[0] = seen /\ \A i \in 1..n : A[i] = After(A[i - 1], q[i])
    BY <1>1, ToldRuns
<1>3. /\ \A i \in 0..n : A[i] \in Tellings /\ A[i].open \in {NoTurn, A[i].last}
      /\ \A i, j \in 0..n : i <= j => A[i].last <= A[j].last
      /\ \A i \in 1..n : Legal(A[i - 1], q[i])
    BY DEF WireInv
<1> HIDE DEF A
<1>4. 0 \in 0..n /\ n \in 0..n /\ 0 <= n
    BY <1>1
<1>5. /\ A[n] \in Tellings /\ A[n].open \in {NoTurn, A[n].last} /\ A[0].last <= A[n].last
      /\ A[0] \in Tellings /\ A[0].open \in {NoTurn, A[0].last}
    BY <1>3, <1>4
<1>6. ASSUME NEW i \in 1..n, q[i].t = "created"
      PROVE  q[i].g <= A[n].last
    <2>1. i - 1 \in 0..n /\ i \in 0..n /\ i <= n /\ q[i] \in WireMessages
        BY <1>1
    <2>2. A[i].last = q[i].g
        <3>1. A[i - 1] \in Tellings /\ A[i - 1].open \in {NoTurn, A[i - 1].last}
            BY <1>3, <2>1
        <3>2. Legal(A[i - 1], q[i]) /\ A[i] = After(A[i - 1], q[i])
            BY <1>2, <1>3
        <3> QED  BY <1>6, <2>1, <3>1, <3>2, LegalTelling
    <2> QED  BY <1>3, <1>4, <2>1, <2>2
<1>7. Final(seen, q) = A[n]
    BY DEF Final, A
<1>8. \A x \in Tellings : x.last \in Nat /\ x.next \in Nat
    BY DEF Tellings, Responses, Turns, NoTurn
<1> QED  BY <1>1, <1>2, <1>5, <1>6, <1>7, <1>8

\* The end of a response is told once.
LEMMA WireDone ==
    ASSUME NEW seen, NEW q, WireInv(seen, q), q # <<>>, Head(q).t = "done"
    PROVE  /\ Final(seen, q).open # Head(q).g
           /\ \A i \in 1..Len(Tail(q)) : Tail(q)[i].t = "done" => Tail(q)[i].g # Head(q).g
           /\ Head(q).g \in Turns /\ seen.open = Head(q).g
<1> DEFINE A == Told(seen, q)
           n == Len(q)
           g == Head(q).g
<1>1. seen \in Tellings /\ q \in Seq(WireMessages) /\ n \in Nat \ {0}
    BY DEF WireInv
<1>2. A[0] = seen /\ \A i \in 1..n : A[i] = After(A[i - 1], q[i])
    BY <1>1, ToldRuns
<1>3. /\ \A i \in 0..n : A[i] \in Tellings /\ A[i].open \in {NoTurn, A[i].last}
      /\ \A i, j \in 0..n : i <= j =>
            /\ A[i].last <= A[j].last
            /\ (A[i].last = A[j].last /\ A[i].open = NoTurn) => A[j].open = NoTurn
      /\ \A i \in 1..n : Legal(A[i - 1], q[i])
    BY DEF WireInv
<1>4. Legal(seen, Head(q)) /\ Head(q) \in WireMessages /\ seen.open \in {NoTurn, seen.last}
    BY WireTail
<1>5. g \in Turns /\ g # NoTurn /\ g = seen.open /\ g = seen.last
    BY <1>4, WireMessageIs, LegalTelling, <1>1 DEF Turns, NoTurn
<1> HIDE DEF A
<1>6. A[1].open = NoTurn /\ A[1].last = g
    <2>1. A[1] = After(seen, Head(q))
        BY <1>1, <1>2
    <2> QED  BY <1>1, <1>4, <1>5, <2>1, LegalTelling
<1> HIDE DEF g
<1>7. ASSUME NEW j \in 1..n
      PROVE  A[j].open # g
    <2>1. 1 \in 0..n /\ j \in 0..n /\ 1 <= j
        BY <1>1
    <2>2. g <= A[j].last /\ (A[j].last = g => A[j].open = NoTurn) /\ A[j].open \in {NoTurn, A[j].last}
        BY <1>3, <1>6, <2>1
    <2> QED  BY <1>5, <2>2
<1>8. Final(seen, q).open # g
    BY <1>1, <1>7 DEF Final, A
<1>9. ASSUME NEW i \in 1..Len(Tail(q)), Tail(q)[i].t = "done"
      PROVE  Tail(q)[i].g # g
    <2>1. i + 1 \in 1..n /\ Tail(q)[i] = q[i + 1] /\ i \in 1..n /\ (i + 1) - 1 = i
          /\ q[i + 1] \in WireMessages
        BY <1>1
    <2>2. Legal(A[i], q[i + 1])
        BY <1>3, <2>1
    <2>3. A[i].open = q[i + 1].g
        BY <1>9, <2>1, <2>2 DEF Legal
    <2> QED  BY <1>7, <2>1, <2>3
<1> QED  BY <1>5, <1>8, <1>9 DEF g

-----------------------------------------------------------------------------
(* Downwards: adapter and writer                                           *)

LEMMA CompositeParts ==
    ASSUME NEW c \in Composites
    PROVE  /\ c.e \in Engines /\ c.m \in MediaSessions /\ c.a \in Adapters /\ c.w \in Writers
           /\ c.w.q \in Seq(WireMessages) /\ c.w.paused \in BOOLEAN /\ c.w.failed \in BOOLEAN
           /\ c.a.active \in Responses /\ c.a.cancelled \in BOOLEAN /\ c.a.opened \in BOOLEAN
           /\ c.a.produced \in Nat /\ c.a.pausedGen \in Responses
           /\ c.a.timers \in SUBSET Turns /\ c.a.close \in Closes
           /\ c.a.fatal \in BOOLEAN /\ c.a.soon \in BOOLEAN /\ c.a.tripped \in BOOLEAN
           /\ c.m.closed \in BOOLEAN /\ c.m.paused \in BOOLEAN /\ c.m.tearing \in BOOLEAN
           /\ c.m.active \in Responses /\ c.m.flow \in Responses /\ c.m.by \in Responses
           /\ c.m.queue \in Seq(ResponseOutputs) /\ c.m.retired \in Responses
           /\ c.m.fail \in Responses /\ c.m.feedback \in [Turns -> Feedbacks]
           /\ c.e.turn \in Responses /\ c.e.next \in 1..MaxTurns + 1 /\ c.e.fired \in SUBSET Turns
           /\ c.e.settle \in Settlements /\ c.e.gpu \in Seq(Speech) /\ c.e.stream \in BOOLEAN
  BY DEF Composites, Engines, MediaSessions, Adapters, Writers

\* The adapter and the writer touch nothing of the others but the gate's pause.
Below(c, d) ==
    /\ d \in Composites
    /\ d.e = c.e
    /\ d.m.closed = c.m.closed /\ d.m.tearing = c.m.tearing /\ d.m.speaking = c.m.speaking
    /\ d.m.active = c.m.active /\ d.m.flow = c.m.flow /\ d.m.queue = c.m.queue
    /\ d.m.retired = c.m.retired /\ d.m.fail = c.m.fail /\ d.m.ending = c.m.ending
    /\ d.m.feedback = c.m.feedback
    /\ d.a.fatal = c.a.fatal /\ d.a.soon = c.a.soon /\ d.w.failed = c.w.failed

\* Nothing is enqueued either.
Quiet(c, d) ==
    /\ Below(c, d)
    /\ d.a.active = c.a.active /\ d.a.cancelled = c.a.cancelled /\ d.a.opened = c.a.opened
    /\ d.a.produced = c.a.produced /\ d.a.timers = c.a.timers /\ d.a.close = c.a.close
    /\ d.a.tripped = c.a.tripped /\ d.w.q = c.w.q

LEMMA QuietItself ==
    ASSUME NEW c \in Composites
    PROVE  Quiet(c, c)
  BY DEF Quiet, Below

LEMMA QuietChain ==
    ASSUME NEW c, NEW d, NEW f, Quiet(c, d), Quiet(d, f)
    PROVE  Quiet(c, f)
  BY DEF Quiet, Below

LEMMA WriterPauses ==
    ASSUME NEW c \in Composites, NEW p \in BOOLEAN
    PROVE  LET d == [c EXCEPT !.w.paused = p]
           IN Quiet(c, d) /\ d.w.paused = p /\ d.m = c.m /\ d.a = c.a
  BY Zenon DEF Quiet, Below, Composites, Writers

LEMMA PauseGenerationIs ==
    ASSUME NEW c \in Composites, c.w.paused, ~c.m.closed => ~c.m.paused, NEW g \in Turns
    PROVE  Quiet(c, PauseGeneration(c, g)) /\ GateInv(PauseGeneration(c, g))
<1> DEFINE x == [c EXCEPT !.a.pausedGen = g]
           y == [x EXCEPT !.m.paused = TRUE, !.m.by = g]
<1>1. g \in Responses /\ g # NoTurn
    BY DEF Responses, Turns, NoTurn
<1>2. /\ x \in Composites /\ x.e = c.e /\ x.m = c.m /\ x.w = c.w /\ x.a \in Adapters
      /\ x.a.pausedGen = g
      /\ x.a.active = c.a.active /\ x.a.cancelled = c.a.cancelled /\ x.a.opened = c.a.opened
      /\ x.a.produced = c.a.produced /\ x.a.timers = c.a.timers /\ x.a.close = c.a.close
      /\ x.a.tripped = c.a.tripped /\ x.a.fatal = c.a.fatal /\ x.a.soon = c.a.soon
    BY <1>1, Zenon DEF Composites, Adapters
<1> HIDE DEF x
<1>3. /\ y \in Composites /\ y.e = x.e /\ y.w = x.w /\ y.a = x.a /\ y.m \in MediaSessions
      /\ y.m.paused = TRUE /\ y.m.by = g
      /\ y.m.closed = x.m.closed /\ y.m.tearing = x.m.tearing /\ y.m.speaking = x.m.speaking
      /\ y.m.active = x.m.active /\ y.m.flow = x.m.flow /\ y.m.queue = x.m.queue
      /\ y.m.retired = x.m.retired /\ y.m.fail = x.m.fail /\ y.m.ending = x.m.ending
      /\ y.m.feedback = x.m.feedback
    BY <1>1, <1>2, Zenon DEF Composites, MediaSessions
<1> HIDE DEF y
<1>4. PauseGeneration(c, g) \in {c, x, y}
    BY DEF PauseGeneration, PauseFlow, x, y
<1>5. Quiet(c, x) /\ GateInv(x)
    BY <1>2 DEF Quiet, Below, GateInv
<1>6. Quiet(c, y) /\ GateInv(y)
    BY <1>1, <1>2, <1>3 DEF Quiet, Below, GateInv
<1>7. GateInv(c) \/ PauseGeneration(c, g) # c \/ c.m.closed
    BY DEF GateInv
<1>8. GateInv(c)
    BY DEF GateInv
<1> QED  BY <1>4, <1>5, <1>6, <1>8, QuietItself

LEMMA CheckHighIs ==
    ASSUME NEW c \in Composites, GateInv(c)
    PROVE  Quiet(c, CheckHigh(c)) /\ GateInv(CheckHigh(c))
<1> DEFINE x == [c EXCEPT !.w.paused = TRUE]
<1>1. Quiet(c, x) /\ x.w.paused = TRUE /\ x.m = c.m /\ x.a = c.a /\ x \in Composites
    BY WriterPauses DEF Quiet, Below
<1>2. CASE c.w.paused
    BY <1>2, QuietItself DEF CheckHigh
<1>3. CASE ~c.w.paused
    <2>1. ~c.m.closed => ~x.m.paused
        BY <1>1, <1>3 DEF GateInv
    <2>2. GateInv(x)
        BY <1>1, <2>1 DEF GateInv
    <2> HIDE DEF x
    <2>3. c.a.active # NoTurn => c.a.active \in Turns
        BY CompositeParts DEF Responses
    <2>4. c.a.active # NoTurn => Quiet(x, PauseGeneration(x, c.a.active))
                                 /\ GateInv(PauseGeneration(x, c.a.active))
        BY <1>1, <2>1, <2>3, PauseGenerationIs
    <2>5. CheckHigh(c) \in {c, x} \/ (c.a.active # NoTurn /\ CheckHigh(c) = PauseGeneration(x, c.a.active))
        BY DEF CheckHigh, x
    <2> QED  BY <1>1, <2>2, <2>4, <2>5, QuietItself, QuietChain
<1> QED  BY <1>2, <1>3

LEMMA CheckStartedIs ==
    ASSUME NEW c \in Composites, GateInv(c), NEW g \in Turns
    PROVE  Quiet(c, CheckStarted(c, g)) /\ GateInv(CheckStarted(c, g))
<1>1. CASE c.w.paused /\ c.a.pausedGen = NoTurn
    <2>1. ~c.m.closed => ~c.m.paused
        BY <1>1 DEF GateInv
    <2> QED  BY <1>1, <2>1, PauseGenerationIs DEF CheckStarted
<1>2. CASE ~(c.w.paused /\ c.a.pausedGen = NoTurn)
    BY <1>2, QuietItself DEF CheckStarted
<1> QED  BY <1>1, <1>2

\* What enqueueing does: the message is put behind the others while the
\* adapter talks, and nothing else is.
LEMMA EnqueueIs ==
    ASSUME NEW c \in Composites, GateInv(c), NEW msg \in WireMessages
    PROVE  LET d == Enqueue(c, msg)
           IN /\ Below(c, d) /\ GateInv(d)
              /\ d.a.active = c.a.active /\ d.a.cancelled = c.a.cancelled
              /\ d.a.opened = c.a.opened /\ d.a.produced = c.a.produced
              /\ d.a.tripped = c.a.tripped
              /\ Talks(c) => /\ d.w.q = Append(c.w.q, msg)
                             /\ d.a.timers = c.a.timers /\ d.a.close = c.a.close
              /\ ~Talks(c) => /\ d.w.q = c.w.q /\ d.a.timers \subseteq c.a.timers
                              /\ d.a.close = c.a.close \/ d.a.close = "requested"
              /\ msg.t # "ended" => d.a.close = c.a.close
<1> DEFINE x == [c EXCEPT !.w.q = Append(@, msg)]
<1>1. c.w.q \in Seq(WireMessages) /\ c.a.close \in Closes /\ c.w.failed \in BOOLEAN
      /\ c.a.timers \in SUBSET Turns
    BY CompositeParts
<1>2. Talks(c) <=> (c.a.close \notin {"requested", "closed"} /\ ~c.w.failed)
    BY <1>1 DEF Talks, Closes
<1>3. CASE Talks(c)
    <2> DEFINE r == Append(c.w.q, msg)
    <2>1. r \in Seq(WireMessages)
        BY <1>1
    <2>2. x = [c EXCEPT !.w.q = r]
        OBVIOUS
    <2> HIDE DEF r, x
    <2>3. /\ x \in Composites /\ x.e = c.e /\ x.m = c.m /\ x.a = c.a /\ x.w.q = r
          /\ x.w.paused = c.w.paused /\ x.w.failed = c.w.failed
        BY <2>1, <2>2, Zenon DEF Composites, Writers
    <2>4. GateInv(x)
        BY <2>3 DEF GateInv
    <2>5. Quiet(x, CheckHigh(x)) /\ GateInv(CheckHigh(x))
        BY <2>3, <2>4, CheckHighIs
    <2>6. Enqueue(c, msg) = CheckHigh(x)
        BY <1>2, <1>3 DEF Enqueue, x
    <2> QED  BY <1>3, <2>3, <2>5, <2>6 DEF Quiet, Below, r
<1>4. CASE ~Talks(c)
    <2> DEFINE y == [c EXCEPT !.a.close = "requested", !.a.timers = {}]
               z == [c EXCEPT !.a.timers = @ \ {msg.g}]
    <2>1. {} \in SUBSET Turns /\ c.a.timers \ {msg.g} \in SUBSET Turns /\ "requested" \in Closes
        BY <1>1 DEF Closes
    <2>2. /\ y \in Composites /\ y.e = c.e /\ y.m = c.m /\ y.w = c.w
          /\ y.a.close = "requested" /\ y.a.timers = {}
          /\ y.a.active = c.a.active /\ y.a.cancelled = c.a.cancelled /\ y.a.opened = c.a.opened
          /\ y.a.produced = c.a.produced /\ y.a.pausedGen = c.a.pausedGen
          /\ y.a.tripped = c.a.tripped /\ y.a.fatal = c.a.fatal /\ y.a.soon = c.a.soon
        BY <2>1, Zenon DEF Composites, Adapters
    <2>3. /\ z \in Composites /\ z.e = c.e /\ z.m = c.m /\ z.w = c.w
          /\ z.a.close = c.a.close /\ z.a.timers = c.a.timers \ {msg.g}
          /\ z.a.active = c.a.active /\ z.a.cancelled = c.a.cancelled /\ z.a.opened = c.a.opened
          /\ z.a.produced = c.a.produced /\ z.a.pausedGen = c.a.pausedGen
          /\ z.a.tripped = c.a.tripped /\ z.a.fatal = c.a.fatal /\ z.a.soon = c.a.soon
        BY <2>1, Zenon DEF Composites, Adapters
    <2> HIDE DEF y, z
    <2>4. \/ Enqueue(c, msg) = c
          \/ Enqueue(c, msg) = y /\ msg.t = "ended"
          \/ Enqueue(c, msg) = z /\ msg.t = "done"
        BY <1>2, <1>4 DEF Enqueue, RequestClose, y, z
    <2>5. CASE Enqueue(c, msg) = c
        BY <1>1, <1>4, <2>5 DEF Below
    <2>6. CASE Enqueue(c, msg) = y /\ msg.t = "ended"
        BY <1>1, <1>4, <2>2, <2>6 DEF Below, GateInv
    <2>7. CASE Enqueue(c, msg) = z /\ msg.t = "done"
        BY <1>1, <1>4, <2>3, <2>7 DEF Below, GateInv
    <2> QED  BY <2>4, <2>5, <2>6, <2>7
<1> QED  BY <1>3, <1>4

LEMMA HasAppend ==
    ASSUME NEW S, NEW q \in Seq(S), NEW m \in S, NEW t, NEW g
    PROVE  Has(Append(q, m), t, g) <=> Has(q, t, g) \/ (m.t = t /\ m.g = g)
<1> DEFINE r == Append(q, m)
<1>1. /\ Len(r) = Len(q) + 1 /\ Len(q) \in Nat
      /\ \A i \in 1..Len(q) : r[i] = q[i]
      /\ r[Len(q) + 1] = m
    OBVIOUS
<1> HIDE DEF r
<1>2. \A i \in 1..Len(r) : i \in 1..Len(q) \/ i = Len(q) + 1
    BY <1>1
<1>3. \A i \in 1..Len(q) : i \in 1..Len(r)
    BY <1>1
<1>4. Len(q) + 1 \in 1..Len(r)
    BY <1>1
<1>5. Has(r, t, g) <=> Has(q, t, g) \/ (m.t = t /\ m.g = g)
    BY <1>1, <1>2, <1>3, <1>4 DEF Has
<1> QED  BY <1>5 DEF r

LEMMA HasTail ==
    ASSUME NEW S, NEW q \in Seq(S), q # <<>>, NEW t, NEW g
    PROVE  Has(q, t, g) <=> (Head(q).t = t /\ Head(q).g = g) \/ Has(Tail(q), t, g)
<1> DEFINE r == Tail(q)
<1>1. /\ Len(r) = Len(q) - 1 /\ Len(q) \in Nat \ {0}
      /\ \A i \in 1..Len(r) : r[i] = q[i + 1]
      /\ Head(q) = q[1]
    OBVIOUS
<1> HIDE DEF r
<1>2. \A i \in 1..Len(q) : i = 1 \/ (i - 1 \in 1..Len(r) /\ (i - 1) + 1 = i)
    BY <1>1
<1>3. \A i \in 1..Len(r) : i + 1 \in 1..Len(q)
    BY <1>1
<1>4. 1 \in 1..Len(q)
    BY <1>1
<1>5. ASSUME Has(q, t, g) PROVE (q[1].t = t /\ q[1].g = g) \/ Has(r, t, g)
    <2>1. PICK i \in 1..Len(q) : q[i].t = t /\ q[i].g = g
        BY <1>5 DEF Has
    <2>2. CASE i # 1
        <3>1. i - 1 \in 1..Len(r) /\ r[i - 1] = q[i]
            BY <1>1, <1>2, <2>2
        <3> QED  BY <2>1, <3>1 DEF Has
    <2> QED  BY <2>1, <2>2
<1>6. ASSUME Has(r, t, g) PROVE Has(q, t, g)
    <2>1. PICK i \in 1..Len(r) : r[i].t = t /\ r[i].g = g
        BY <1>6 DEF Has
    <2>2. i + 1 \in 1..Len(q) /\ q[i + 1] = r[i]
        BY <1>1, <1>3
    <2> QED  BY <2>1, <2>2 DEF Has
<1>7. q[1].t = t /\ q[1].g = g => Has(q, t, g)
    BY <1>4 DEF Has
<1> QED  BY <1>1, <1>5, <1>6, <1>7 DEF r

LEMMA HasNothing ==
    ASSUME NEW t, NEW g
    PROVE  ~Has(<<>>, t, g)
  BY DEF Has

\* What one output makes of the adapter and the writer.
EmitStarts(c, seen, out) ==
    /\ Talks(c) /\ c.a.active = NoTurn
    /\ Final(seen, c.w.q).last < out.g

Emits(c, d, seen, out) ==
    /\ Below(c, d) /\ Piped(d, seen)
    /\ d.a.close = c.a.close
    /\ Final(seen, d.w.q).last =
          IF out.t = "started" THEN out.g ELSE Final(seen, c.w.q).last
    /\ d.a.active = IF out.t = "started" THEN out.g
                    ELSE IF out.t = "terminal" /\ c.a.active = out.g
                            /\ c.a.close \notin {"requested", "closed"} THEN NoTurn
                    ELSE c.a.active
    /\ \A g \in Turns :
          /\ Has(c.w.q, "done", g) => Has(d.w.q, "done", g)
          /\ Has(d.w.q, "done", g) =>
                \/ Has(c.w.q, "done", g)
                \/ out.t = "terminal" /\ g = out.g /\ c.a.active = g
          /\ Talks(c) /\ g \in c.a.timers => g \in d.a.timers
    /\ Talks(c) /\ out.t = "terminal" /\ c.a.active = out.g =>
          Has(d.w.q, "done", out.g) /\ out.g \in d.a.timers

LEMMA OutputIs ==
    ASSUME NEW out \in ResponseOutputs
    PROVE  /\ out.t \in {"started", "declared", "audio", "completed", "terminal"}
           /\ out.g \in Turns /\ out.g # NoTurn /\ out.g \in Responses /\ out.ok \in BOOLEAN
  BY DEF ResponseOutputs, Outputs, Turns, Responses, NoTurn

LEMMA NothingEmitted ==
    ASSUME NEW c, NEW seen, Piped(c, seen), NEW out \in ResponseOutputs,
           out.t # "started", out.t = "terminal" => ~(Talks(c) /\ c.a.active = out.g),
           (out.t = "terminal" /\ c.a.active = out.g) => c.a.close \in {"requested", "closed"}
    PROVE  Emits(c, c, seen, out)
<1>1. Below(c, c)
    BY DEF Piped, Below
<1> QED  BY <1>1 DEF Emits

LEMMA EmitStarted ==
    ASSUME NEW c, NEW seen, Piped(c, seen), NEW out \in ResponseOutputs,
           out.t = "started", EmitStarts(c, seen, out)
    PROVE  Emits(c, Emit(c, out), seen, out)
<1> DEFINE g == out.g
           msg == Message("created", g, 0)
           x == [c EXCEPT !.a.active = g, !.a.cancelled = FALSE, !.a.opened = FALSE,
                          !.a.produced = 0]
           y == Enqueue(x, msg)
           z == CheckStarted(y, g)
<1>1. c \in Composites /\ g \in Turns /\ g \in Responses /\ g # NoTurn
    BY OutputIs DEF Piped
<1>2. msg \in WireMessages /\ msg.t = "created" /\ msg.g = g /\ msg.k = 0
    BY <1>1, MessageIs
<1>3. /\ x \in Composites /\ x.e = c.e /\ x.m = c.m /\ x.w = c.w
      /\ x.a.active = g /\ x.a.produced = 0
      /\ x.a.pausedGen = c.a.pausedGen /\ x.a.timers = c.a.timers /\ x.a.close = c.a.close
      /\ x.a.tripped = c.a.tripped /\ x.a.fatal = c.a.fatal /\ x.a.soon = c.a.soon
    <2>1. 0 \in Nat
        OBVIOUS
    <2> QED  BY <1>1, <2>1, Zenon DEF Composites, Adapters
<1>4. Emit(c, out) = z
    <2>1. Emit(c, out) = ResponseStarted(c, g)
        BY DEF Emit, EmitStarts, Talks
    <2> QED  BY <2>1 DEF ResponseStarted, EmitStarts
<1> HIDE DEF g, msg, x
<1>5. Talks(x) /\ GateInv(x)
    BY <1>3 DEF EmitStarts, Talks, Piped, GateInv
<1>6. /\ Below(x, y) /\ GateInv(y) /\ y.a.active = g /\ y.a.produced = 0
      /\ y.a.tripped = c.a.tripped /\ y.w.q = Append(c.w.q, msg)
      /\ y.a.timers = c.a.timers /\ y.a.close = c.a.close
    BY <1>2, <1>3, <1>5, EnqueueIs
<1> HIDE DEF y
<1>7. Quiet(y, z) /\ GateInv(z)
    BY <1>1, <1>6, CheckStartedIs DEF Below
<1> HIDE DEF z
<1>8. /\ Below(c, z) /\ z.w.q = Append(c.w.q, msg) /\ z.a.active = g /\ z.a.produced = 0
      /\ z.a.timers = c.a.timers /\ z.a.close = c.a.close /\ z.a.tripped = c.a.tripped
    BY <1>3, <1>6, <1>7 DEF Below, Quiet
<1> DEFINE f == Final(seen, c.w.q)
           n == After(f, msg)
<1>9. /\ f \in Tellings /\ f.open \in {NoTurn, f.last} /\ f.open = NoTurn /\ f.last < g
      /\ c.w.q \in Seq(WireMessages)
    BY FinalIs DEF Piped, AgreesInv, EmitStarts, g
<1>10. Legal(f, msg)
    <2>1. f.last \in Nat /\ g \in Nat
        BY <1>1, <1>9 DEF Tellings, Responses, Turns, NoTurn
    <2> QED  BY <1>2, <1>9, <2>1 DEF Legal
<1>11. WireInv(seen, z.w.q) /\ Final(seen, z.w.q) = n
    BY <1>2, <1>8, <1>10, WireAppend DEF Piped
<1>12. n.open = g /\ n.last = g /\ n.next = 0
    BY <1>2, <1>9, <1>10, LegalTelling
<1> HIDE DEF f, n
<1>13. \A t, h : Has(z.w.q, t, h) <=> Has(c.w.q, t, h) \/ (t = "created" /\ h = g)
    BY <1>2, <1>8, <1>9, HasAppend
<1>14. Piped(z, seen)
    BY <1>7, <1>8, <1>11, <1>12, <1>13 DEF Piped, AgreesInv, Below
<1>15. Emits(c, z, seen, out)
    BY <1>8, <1>11, <1>12, <1>13, <1>14 DEF Emits, g
<1> QED  BY <1>4, <1>15 DEF z

LEMMA EmitDeclared ==
    ASSUME NEW c, NEW seen, Piped(c, seen), NEW out \in ResponseOutputs,
           out.t \in {"declared", "audio"}
    PROVE  Emits(c, Emit(c, out), seen, out)
<1> DEFINE g == out.g
           msg == IF out.t = "declared" THEN Message("text", g, 0)
                  ELSE Message("audio", g, c.a.produced)
           x == [c EXCEPT !.a.opened = IF out.t = "declared" THEN TRUE ELSE @,
                          !.a.produced = IF out.t = "declared" THEN @ ELSE @ + 1]
           y == Enqueue(x, msg)
<1>1. c \in Composites /\ g \in Turns /\ g \in Responses /\ g # NoTurn
      /\ c.a.produced \in Nat /\ c.a.opened \in BOOLEAN
    BY OutputIs, CompositeParts DEF Piped
<1>2. /\ msg \in WireMessages /\ msg.g = g
      /\ msg.t = IF out.t = "declared" THEN "text" ELSE "audio"
      /\ msg.k = IF out.t = "declared" THEN 0 ELSE c.a.produced
    BY <1>1, MessageIs
<1>3. /\ x \in Composites /\ x.e = c.e /\ x.m = c.m /\ x.w = c.w
      /\ x.a.active = c.a.active
      /\ x.a.produced = IF out.t = "declared" THEN c.a.produced ELSE c.a.produced + 1
      /\ x.a.pausedGen = c.a.pausedGen /\ x.a.timers = c.a.timers /\ x.a.close = c.a.close
      /\ x.a.tripped = c.a.tripped /\ x.a.fatal = c.a.fatal /\ x.a.soon = c.a.soon
    <2> DEFINE o == IF out.t = "declared" THEN TRUE ELSE c.a.opened
               p == IF out.t = "declared" THEN c.a.produced ELSE c.a.produced + 1
    <2>1. o \in BOOLEAN /\ p \in Nat
        <3>1. c.a.produced + 1 \in Nat
            BY <1>1
        <3>2. CASE out.t = "declared"
            BY <1>1, <3>2
        <3>3. CASE out.t # "declared"
            BY <1>1, <3>1, <3>3
        <3> QED  BY <3>2, <3>3
    <2>2. x = [c EXCEPT !.a.opened = o, !.a.produced = p]
        BY DEF Composites
    <2> HIDE DEF o, p, x
    <2>3. /\ x \in Composites /\ x.e = c.e /\ x.m = c.m /\ x.w = c.w
          /\ x.a.active = c.a.active /\ x.a.produced = p
          /\ x.a.pausedGen = c.a.pausedGen /\ x.a.timers = c.a.timers /\ x.a.close = c.a.close
          /\ x.a.tripped = c.a.tripped /\ x.a.fatal = c.a.fatal /\ x.a.soon = c.a.soon
        BY <1>1, <2>1, <2>2, Zenon DEF Composites, Adapters
    <2> QED  BY <2>3 DEF p
<1>4. Emit(c, out) = c \/ (Emit(c, out) = y /\ Matches(c, g))
    <2>1. CASE c.a.close \in {"requested", "closed"}
        BY <2>1 DEF Emit
    <2>2. CASE c.a.close \notin {"requested", "closed"} /\ out.t = "declared"
        <3>1. Emit(c, out) = SegmentDeclared(c, g)
            BY <2>2 DEF Emit
        <3>2. x = [c EXCEPT !.a.opened = TRUE]
            BY <1>1, <2>2, Zenon DEF Composites, Adapters
        <3>3. msg = Message("text", g, 0)
            BY <2>2
        <3> HIDE DEF x, msg
        <3> QED  BY <3>1, <3>2, <3>3 DEF SegmentDeclared
    <2>3. CASE c.a.close \notin {"requested", "closed"} /\ out.t = "audio"
        <3>1. Emit(c, out) = ResponseAudio(c, g)
            BY <2>3 DEF Emit
        <3>2. x = [c EXCEPT !.a.produced = @ + 1]
            BY <1>1, <2>3, Zenon DEF Composites, Adapters
        <3>3. msg = Message("audio", g, c.a.produced)
            BY <2>3
        <3> HIDE DEF x, msg
        <3> QED  BY <3>1, <3>2, <3>3 DEF ResponseAudio
    <2> QED  BY <2>1, <2>2, <2>3
<1>5. CASE Emit(c, out) = c
    BY <1>5, NothingEmitted
<1>6. CASE Emit(c, out) = y /\ Matches(c, g)
    <2> HIDE DEF g, msg, x
    <2>1. GateInv(x) /\ (Talks(x) <=> Talks(c))
        BY <1>3 DEF Talks, Piped, GateInv
    <2>2. msg.t # "ended" /\ msg.t # "done"
        BY <1>2
    <2>3. /\ Below(x, y) /\ GateInv(y) /\ y.a.active = c.a.active
          /\ y.a.produced = x.a.produced /\ y.a.tripped = c.a.tripped /\ y.a.close = c.a.close
          /\ Talks(c) => y.w.q = Append(c.w.q, msg) /\ y.a.timers = c.a.timers
          /\ ~Talks(c) => y.w.q = c.w.q
        BY <1>2, <1>3, <2>1, <2>2, EnqueueIs
    <2> HIDE DEF y
    <2>4. Below(c, y)
        BY <1>3, <2>3 DEF Below
    <2>5. Talks(y) <=> Talks(c)
        BY <2>3, <2>4 DEF Talks, Below
    <2>6. CASE ~Talks(c)
        <3>1. Piped(y, seen)
            BY <2>3, <2>4, <2>5, <2>6 DEF Piped, AgreesInv, Below
        <3>2. Emits(c, y, seen, out)
            BY <2>3, <2>4, <2>6, <3>1 DEF Emits
        <3> QED  BY <1>6, <3>2
    <2>7. CASE Talks(c)
        <3> DEFINE f == Final(seen, c.w.q)
                   n == After(f, msg)
        <3>1. /\ f \in Tellings /\ f.open \in {NoTurn, f.last} /\ f.open = g
              /\ f.next = c.a.produced /\ c.w.q \in Seq(WireMessages) /\ c.a.active = g
            BY <1>1, <1>6, <2>7, FinalIs DEF Piped, AgreesInv, Matches
        <3>2. Legal(f, msg)
            BY <1>2, <3>1 DEF Legal
        <3>9. y.w.q = Append(c.w.q, msg) /\ msg \in WireMessages /\ WireInv(seen, c.w.q)
            BY <1>2, <2>3, <2>7 DEF Piped
        <3>3. WireInv(seen, y.w.q) /\ Final(seen, y.w.q) = n
            BY <3>2, <3>9, WireAppend
        <3>4. n.open = g /\ n.last = f.last /\ n.next = y.a.produced
            BY <1>1, <1>2, <1>3, <2>3, <3>1, <3>2, LegalTelling
        <3> HIDE DEF f, n
        <3>5. \A t, h : Has(y.w.q, t, h) <=> Has(c.w.q, t, h) \/ (t = msg.t /\ h = g)
            BY <1>2, <3>1, <3>9, HasAppend
        <3>6. Piped(y, seen)
            BY <2>2, <2>3, <2>4, <3>1, <3>3, <3>4, <3>5 DEF Piped, AgreesInv, Below
        <3>7. Final(seen, y.w.q).last = Final(seen, c.w.q).last
            BY <3>3, <3>4 DEF f
        <3>8. Emits(c, y, seen, out)
            BY <2>2, <2>3, <2>4, <2>7, <3>5, <3>6, <3>7 DEF Emits
        <3> QED  BY <1>6, <3>8
    <2> QED  BY <2>6, <2>7
<1> QED  BY <1>4, <1>5, <1>6

LEMMA EmitTerminal ==
    ASSUME NEW c, NEW seen, Piped(c, seen), NEW out \in ResponseOutputs, out.t = "terminal"
    PROVE  Emits(c, Emit(c, out), seen, out)
<1> DEFINE g == out.g
           msg == Message("done", g, 0)
           x == [c EXCEPT !.a.timers = @ \cup {g}]
           y == Enqueue(x, msg)
           z == [y EXCEPT !.a.active = NoTurn, !.a.cancelled = FALSE,
                          !.a.opened = FALSE, !.a.produced = 0]
<1>1. c \in Composites /\ g \in Turns /\ g # NoTurn /\ c.a.timers \in SUBSET Turns
      /\ NoTurn \in Responses /\ 0 \in Nat /\ c.a.close \in Closes
    BY OutputIs, CompositeParts DEF Piped, Responses
<1>2. msg \in WireMessages /\ msg.t = "done" /\ msg.g = g /\ msg.t # "ended"
    BY <1>1, MessageIs
<1>3. CASE c.a.close \in {"requested", "closed"} \/ c.a.active # g
    <2>1. Emit(c, out) = c
        BY <1>3 DEF Emit, ResponseTerminal
    <2>2. ~(Talks(c) /\ c.a.active = out.g)
        BY <1>3 DEF Talks
    <2> QED  BY <1>3, <2>1, <2>2, NothingEmitted
<1>4. CASE c.a.close \notin {"requested", "closed"} /\ c.a.active = g
    <2>1. Emit(c, out) = z
        BY <1>4 DEF Emit, ResponseTerminal
    <2>2. c.a.timers \cup {g} \in SUBSET Turns
        BY <1>1
    <2>3. /\ x \in Composites /\ x.e = c.e /\ x.m = c.m /\ x.w = c.w
          /\ x.a.active = c.a.active /\ x.a.timers = c.a.timers \cup {g}
          /\ x.a.pausedGen = c.a.pausedGen /\ x.a.close = c.a.close
          /\ x.a.tripped = c.a.tripped /\ x.a.fatal = c.a.fatal /\ x.a.soon = c.a.soon
        BY <1>1, <2>2, Zenon DEF Composites, Adapters
    <2> HIDE DEF g, msg, x
    <2>4. GateInv(x) /\ (Talks(x) <=> Talks(c))
        BY <2>3 DEF Talks, Piped, GateInv
    <2>5. /\ Below(x, y) /\ GateInv(y)
          /\ y.a.tripped = c.a.tripped /\ y.a.close = c.a.close
          /\ Talks(c) => y.w.q = Append(c.w.q, msg) /\ y.a.timers = c.a.timers \cup {g}
          /\ ~Talks(c) => y.w.q = c.w.q
        BY <1>2, <2>3, <2>4, EnqueueIs, SMTT(30)
    <2> HIDE DEF y
    <2>6. /\ z \in Composites /\ z.e = y.e /\ z.m = y.m /\ z.w = y.w
          /\ z.a.active = NoTurn /\ z.a.timers = y.a.timers
          /\ z.a.pausedGen = y.a.pausedGen /\ z.a.close = y.a.close
          /\ z.a.tripped = y.a.tripped /\ z.a.fatal = y.a.fatal /\ z.a.soon = y.a.soon
        BY <1>1, <2>5, Zenon DEF Composites, Adapters, Below
    <2> HIDE DEF z
    <2>7. Below(c, z) /\ GateInv(z)
        BY <2>3, <2>5, <2>6 DEF Below, GateInv
    <2>8. Talks(z) <=> Talks(c)
        BY <2>5, <2>6, <2>7 DEF Talks, Below
    <2>9. CASE ~Talks(c)
        <3>1. Piped(z, seen)
            BY <2>5, <2>6, <2>7, <2>8, <2>9 DEF Piped, AgreesInv
        <3>2. Emits(c, z, seen, out)
            BY <1>4, <2>5, <2>6, <2>7, <2>9, <3>1 DEF Emits, g
        <3> QED  BY <2>1, <3>2
    <2>10. CASE Talks(c)
        <3> DEFINE f == Final(seen, c.w.q)
                   n == After(f, msg)
        <3>1. /\ f \in Tellings /\ f.open \in {NoTurn, f.last} /\ f.open = g
              /\ c.w.q \in Seq(WireMessages)
            BY <1>1, <1>4, <2>10, FinalIs DEF Piped, AgreesInv
        <3>2. Legal(f, msg)
            BY <1>2, <3>1 DEF Legal
        <3>9. z.w.q = Append(c.w.q, msg) /\ msg \in WireMessages /\ WireInv(seen, c.w.q)
            BY <1>2, <2>5, <2>6, <2>10 DEF Piped
        <3>3. WireInv(seen, z.w.q) /\ Final(seen, z.w.q) = n
            BY <3>2, <3>9, WireAppend
        <3>4. n.open = NoTurn /\ n.last = f.last
            BY <1>1, <1>2, <3>1, <3>2, LegalTelling
        <3> HIDE DEF f, n
        <3>5. \A t, h : Has(z.w.q, t, h) <=> Has(c.w.q, t, h) \/ (t = "done" /\ h = g)
            BY <1>2, <3>1, <3>9, HasAppend
        <3>6. Piped(z, seen)
            BY <2>5, <2>6, <2>7, <3>3, <3>4, <3>5 DEF Piped, AgreesInv
        <3>7. Final(seen, z.w.q).last = Final(seen, c.w.q).last
            BY <3>3, <3>4 DEF f
        <3>8. Emits(c, z, seen, out)
            BY <1>4, <2>5, <2>6, <2>7, <2>10, <3>5, <3>6, <3>7 DEF Emits, g
        <3> QED  BY <2>1, <3>8
    <2> QED  BY <2>9, <2>10
<1> QED  BY <1>3, <1>4

LEMMA EmitIs ==
    ASSUME NEW c, NEW seen, Piped(c, seen), NEW out \in ResponseOutputs,
           out.t = "started" => EmitStarts(c, seen, out)
    PROVE  Emits(c, Emit(c, out), seen, out)
<1>1. CASE out.t = "started"
    BY <1>1, EmitStarted
<1>2. CASE out.t \in {"declared", "audio"}
    BY <1>2, EmitDeclared
<1>3. CASE out.t = "terminal"
    BY <1>3, EmitTerminal
<1>4. CASE out.t = "completed"
    <2>1. Emit(c, out) = c
        BY <1>4 DEF Emit
    <2> QED  BY <1>4, <2>1, NothingEmitted
<1> QED  BY <1>1, <1>2, <1>3, <1>4, OutputIs

-----------------------------------------------------------------------------
(* The gate                                                                *)

\* What the gate leaves alone.
Frame(c, d) ==
    /\ d.e = c.e
    /\ d.m.closed = c.m.closed /\ d.m.tearing = c.m.tearing /\ d.m.speaking = c.m.speaking
    /\ d.m.ending = c.m.ending /\ d.m.feedback = c.m.feedback
    /\ d.m.active \in {c.m.active, NoTurn}
    /\ c.m.fail # NoTurn => d.m.fail # NoTurn
    /\ d.a.fatal = c.a.fatal /\ d.a.soon = c.a.soon /\ d.a.close = c.a.close
    /\ d.w.failed = c.w.failed

LEMMA FrameChain ==
    ASSUME NEW c, NEW d, NEW f, Frame(c, d), Frame(d, f)
    PROVE  Frame(c, f)
  BY DEF Frame

LEMMA QueueTail ==
    ASSUME NEW q \in Seq(ResponseOutputs), q # <<>>,
           NEW next, NEW last, NEW fired, NEW fb, QueueInv(q, next, last, fired, fb)
    PROVE  /\ QueueInv(Tail(q), next, last, fired, fb)
           /\ Tail(q) \in Seq(ResponseOutputs) /\ Len(Tail(q)) < Len(q)
           /\ Head(q) \in ResponseOutputs
           /\ Head(q).g < next
           /\ Head(q).t = "started" => last < Head(q).g /\ fb[Head(q).g].st = "live"
           /\ Head(q).t = "terminal" =>
                 Head(q).g \in fired /\ ~Has(Tail(q), "terminal", Head(q).g)
           /\ \A g \in Turns : Has(Tail(q), "started", g) => Head(q).g < g
<1> DEFINE r == Tail(q)
<1>1. /\ r \in Seq(ResponseOutputs) /\ Len(r) = Len(q) - 1 /\ Len(q) \in Nat \ {0}
      /\ \A i \in 1..Len(r) : r[i] = q[i + 1]
      /\ Head(q) = q[1]
    OBVIOUS
<1> HIDE DEF r
<1>2. \A i \in 1..Len(r) : i + 1 \in 1..Len(q) /\ 1 < i + 1
    BY <1>1
<1>3. 1 \in 1..Len(q) /\ q[1] \in ResponseOutputs
    BY <1>1
<1>4. \A i, j \in 1..Len(r) : i < j => i + 1 < j + 1
    BY <1>1
<1>5. \A i \in 1..Len(r) :
         /\ r[i].g < next
         /\ r[i].t = "started" => last < r[i].g /\ fb[r[i].g].st = "live"
         /\ r[i].t = "terminal" => r[i].g \in fired
    BY <1>1, <1>2, SMTT(30) DEF QueueInv
<1>6. \A i, j \in 1..Len(r) :
          i < j => /\ r[i].g <= r[j].g
                   /\ r[j].t = "started" => r[i].g < r[j].g
                   /\ (r[i].t = "terminal" /\ r[j].t = "terminal") => r[i].g # r[j].g
    BY <1>1, <1>2, <1>4, ZenonT(60) DEF QueueInv
<1>7. \A i \in 1..Len(r) :
          /\ r[i].t = "started" => q[1].g < r[i].g
          /\ (q[1].t = "terminal" /\ r[i].t = "terminal") => q[1].g # r[i].g
    BY <1>1, <1>2, <1>3 DEF QueueInv
<1>8. QueueInv(r, next, last, fired, fb)
    BY <1>5, <1>6 DEF QueueInv
<1>9. q[1].t = "terminal" => q[1].g \in fired /\ ~Has(r, "terminal", q[1].g)
    BY <1>3, <1>7 DEF QueueInv, Has
<1>10. \A g \in Turns : Has(r, "started", g) => q[1].g < g
    BY <1>7 DEF Has
<1>11. /\ q[1].g < next
       /\ q[1].t = "started" => last < q[1].g /\ fb[q[1].g].st = "live"
    BY <1>3 DEF QueueInv
<1> QED  BY <1>1, <1>3, <1>8, <1>9, <1>10, <1>11 DEF r

LEMMA QueueAppend ==
    ASSUME NEW q \in Seq(ResponseOutputs), NEW out \in ResponseOutputs,
           NEW last, NEW fired, NEW fb,
           QueueInv(q, out.g + 1, last, fired, fb),
           out.t = "started" =>
               last < out.g /\ fb[out.g].st = "live" /\ (\A i \in 1..Len(q) : q[i].g < out.g),
           out.t = "terminal" => out.g \in fired /\ ~Has(q, "terminal", out.g)
    PROVE  QueueInv(Append(q, out), out.g + 1, last, fired, fb)
<1> DEFINE r == Append(q, out)
           n == Len(q)
<1>1. /\ Len(r) = n + 1 /\ n \in Nat
      /\ \A i \in 1..n : r[i] = q[i] /\ q[i] \in ResponseOutputs
      /\ r[n + 1] = out
    OBVIOUS
<1>2. out.g \in Nat /\ \A i \in 1..n : q[i].g \in Nat
    BY <1>1 DEF ResponseOutputs, Turns
<1> HIDE DEF r, n
<1>3. \A i \in 1..Len(r) : i \in 1..n \/ i = n + 1
    BY <1>1
<1>4. \A i, j \in 1..Len(r) : i < j => i \in 1..n /\ (j \in 1..n \/ j = n + 1)
    BY <1>1
<1>5. \A i \in 1..n : q[i].g <= out.g
    BY <1>2 DEF QueueInv, n
<1>6. \A i \in 1..Len(r) :
         /\ r[i].g < out.g + 1
         /\ r[i].t = "started" => last < r[i].g /\ fb[r[i].g].st = "live"
         /\ r[i].t = "terminal" => r[i].g \in fired
    <2> SUFFICES ASSUME NEW i \in 1..Len(r)
                 PROVE  /\ r[i].g < out.g + 1
                        /\ r[i].t = "started" => last < r[i].g /\ fb[r[i].g].st = "live"
                        /\ r[i].t = "terminal" => r[i].g \in fired
        OBVIOUS
    <2>1. CASE i \in 1..n
        BY <1>1, <2>1 DEF QueueInv, n
    <2>2. CASE i = n + 1
        BY <1>1, <1>2, <2>2
    <2> QED  BY <1>3, <2>1, <2>2
<1>7. \A i, j \in 1..Len(r) :
          i < j => /\ r[i].g <= r[j].g
                   /\ r[j].t = "started" => r[i].g < r[j].g
                   /\ (r[i].t = "terminal" /\ r[j].t = "terminal") => r[i].g # r[j].g
    <2> SUFFICES ASSUME NEW i \in 1..Len(r), NEW j \in 1..Len(r), i < j
                 PROVE  /\ r[i].g <= r[j].g
                        /\ r[j].t = "started" => r[i].g < r[j].g
                        /\ (r[i].t = "terminal" /\ r[j].t = "terminal") => r[i].g # r[j].g
        OBVIOUS
    <2>1. i \in 1..n /\ r[i] = q[i]
        BY <1>1, <1>4
    <2>2. CASE j \in 1..n
        BY <1>1, <2>1, <2>2 DEF QueueInv, n
    <2>3. CASE j = n + 1
        <3>1. r[j] = out /\ q[i].g <= out.g
            BY <1>1, <1>5, <2>1, <2>3
        <3>2. out.t = "started" => q[i].g < out.g
            BY <2>1 DEF n
        <3>3. out.t = "terminal" /\ q[i].t = "terminal" => q[i].g # out.g
            BY <2>1 DEF n, Has
        <3> QED  BY <2>1, <3>1, <3>2, <3>3
    <2> QED  BY <1>4, <2>2, <2>3
<1> QED  BY <1>6, <1>7 DEF QueueInv, r

LEMMA RetireIs ==
    ASSUME NEW c \in Composites, NEW g \in Turns
    PROVE  LET d == Retire(c, g)
           IN /\ d \in Composites /\ d.e = c.e /\ d.a = c.a /\ d.w = c.w
              /\ d.m.closed = c.m.closed /\ d.m.tearing = c.m.tearing
              /\ d.m.speaking = c.m.speaking /\ d.m.active = c.m.active
              /\ d.m.flow = c.m.flow /\ d.m.paused = c.m.paused /\ d.m.by = c.m.by
              /\ d.m.queue = c.m.queue /\ d.m.fail = c.m.fail /\ d.m.ending = c.m.ending
              /\ d.m.feedback = c.m.feedback
              /\ d.m.retired = IF g > c.m.retired THEN g ELSE c.m.retired
<1> DEFINE r == IF g > c.m.retired THEN g ELSE c.m.retired
           d == [c EXCEPT !.m.retired = r]
<1>1. g \in Responses /\ c.m.retired \in Responses
    BY CompositeParts DEF Responses
<1>2. r \in Responses
    BY <1>1
<1>3. Retire(c, g) = d
    BY Zenon DEF Retire, Composites
<1> HIDE DEF r
<1>4. /\ d \in Composites /\ d.e = c.e /\ d.a = c.a /\ d.w = c.w
      /\ d.m.closed = c.m.closed /\ d.m.tearing = c.m.tearing
      /\ d.m.speaking = c.m.speaking /\ d.m.active = c.m.active
      /\ d.m.flow = c.m.flow /\ d.m.paused = c.m.paused /\ d.m.by = c.m.by
      /\ d.m.queue = c.m.queue /\ d.m.fail = c.m.fail /\ d.m.ending = c.m.ending
      /\ d.m.feedback = c.m.feedback
      /\ d.m.retired = r
    BY <1>2, Zenon DEF Composites, MediaSessions
<1> QED  BY <1>3, <1>4 DEF r

\* The end of a response lets the next one flow.
LEMMA FreeFlowIs ==
    ASSUME NEW c \in Composites, NEW g \in Turns
    PROVE  LET d == FreeFlow(c, g)
           IN /\ d \in Composites /\ d.e = c.e /\ d.a = c.a /\ d.w = c.w
              /\ d.m.closed = c.m.closed /\ d.m.tearing = c.m.tearing
              /\ d.m.speaking = c.m.speaking /\ d.m.active \in {c.m.active, NoTurn}
              /\ d.m.flow = NoTurn /\ d.m.paused = c.m.paused /\ d.m.by = c.m.by
              /\ d.m.queue = c.m.queue /\ d.m.fail = c.m.fail /\ d.m.ending = c.m.ending
              /\ d.m.feedback = c.m.feedback
              /\ d.m.retired = IF g > c.m.retired THEN g ELSE c.m.retired
<1> DEFINE x == Retire(c, g)
           a == IF x.m.active = g THEN NoTurn ELSE x.m.active
           d == [x EXCEPT !.m.active = a, !.m.flow = NoTurn]
<1>1. /\ x \in Composites /\ x.e = c.e /\ x.a = c.a /\ x.w = c.w
      /\ x.m.closed = c.m.closed /\ x.m.tearing = c.m.tearing
      /\ x.m.speaking = c.m.speaking /\ x.m.active = c.m.active
      /\ x.m.flow = c.m.flow /\ x.m.paused = c.m.paused /\ x.m.by = c.m.by
      /\ x.m.queue = c.m.queue /\ x.m.fail = c.m.fail /\ x.m.ending = c.m.ending
      /\ x.m.feedback = c.m.feedback
      /\ x.m.retired = IF g > c.m.retired THEN g ELSE c.m.retired
    BY RetireIs
<1> HIDE DEF x
<1>2. FreeFlow(c, g) = d
    <2>1. FreeFlow(c, g) = [x EXCEPT !.m.active = IF @ = g THEN NoTurn ELSE @, !.m.flow = NoTurn]
        BY DEF FreeFlow, x
    <2> QED  BY <1>1, <2>1, Zenon DEF Composites
<1>3. a \in Responses /\ NoTurn \in Responses /\ a \in {c.m.active, NoTurn}
    BY <1>1, CompositeParts DEF Responses
<1> HIDE DEF a
<1>4. /\ d \in Composites /\ d.e = x.e /\ d.a = x.a /\ d.w = x.w
      /\ d.m.closed = x.m.closed /\ d.m.tearing = x.m.tearing
      /\ d.m.speaking = x.m.speaking /\ d.m.active = a
      /\ d.m.flow = NoTurn /\ d.m.paused = x.m.paused /\ d.m.by = x.m.by
      /\ d.m.queue = x.m.queue /\ d.m.fail = x.m.fail /\ d.m.ending = x.m.ending
      /\ d.m.feedback = x.m.feedback
      /\ d.m.retired = x.m.retired
    BY <1>1, <1>3, Zenon DEF Composites, MediaSessions
<1> QED  BY <1>1, <1>2, <1>3, <1>4

\* A gate that gives up leaves nothing, and a session that will be ended.
LEMMA FailPendingIs ==
    ASSUME NEW c, NEW seen, Base(c, seen), NEW g \in Turns
    PROVE  LET d == FailPending(c, g)
           IN /\ Steady(d, seen) /\ Frame(c, d) /\ ~Lives(d)
              /\ d.m.queue = <<>> /\ d.m.active = c.m.active
<1> DEFINE x == Retire(c, g)
           f == IF c.a.close \in {"requested", "closed"} THEN x.m.fail ELSE g
           d == [x EXCEPT !.m.queue = <<>>, !.m.paused = FALSE, !.m.by = NoTurn,
                          !.m.flow = NoTurn, !.m.fail = f]
<1>0. c \in Composites
    BY DEF Base, Solid, Piped
<1>1. /\ x \in Composites /\ x.e = c.e /\ x.a = c.a /\ x.w = c.w
      /\ x.m.closed = c.m.closed /\ x.m.tearing = c.m.tearing
      /\ x.m.speaking = c.m.speaking /\ x.m.active = c.m.active
      /\ x.m.fail = c.m.fail /\ x.m.ending = c.m.ending
      /\ x.m.feedback = c.m.feedback
    BY <1>0, RetireIs
<1>2. FailPending(c, g) = d
    BY <1>1, Zenon DEF FailPending, x, Composites
<1> HIDE DEF x
<1>3. f \in Responses /\ NoTurn \in Responses /\ <<>> \in Seq(ResponseOutputs)
    BY <1>1, CompositeParts DEF Responses
<1>4. f # NoTurn \/ c.a.close \in {"requested", "closed"}
    BY DEF Turns, NoTurn
<1>5. c.m.fail # NoTurn => f # NoTurn
    BY <1>1, <1>4
<1> HIDE DEF f
<1>6. /\ d \in Composites /\ d.e = x.e /\ d.a = x.a /\ d.w = x.w
      /\ d.m.closed = x.m.closed /\ d.m.tearing = x.m.tearing
      /\ d.m.speaking = x.m.speaking /\ d.m.active = x.m.active
      /\ d.m.flow = NoTurn /\ d.m.paused = FALSE
      /\ d.m.queue = <<>> /\ d.m.fail = f /\ d.m.ending = x.m.ending
      /\ d.m.feedback = x.m.feedback
    BY <1>1, <1>3, Zenon DEF Composites, MediaSessions
<1> HIDE DEF d
<1>7. Base(d, seen)
    <2>1. GateInv(d)
        BY <1>6 DEF GateInv
    <2>2. AgreesInv(d, seen)
        BY <1>1, <1>6 DEF AgreesInv, Talks, Base, Solid, Piped
    <2>3. Piped(d, seen)
        BY <1>1, <1>6, <2>1, <2>2 DEF Base, Solid, Piped
    <2>4. Solid(d, seen)
        BY <1>1, <1>6, <2>3, HasNothing DEF Base, Solid
    <2> QED  BY <1>1, <1>6, <2>4 DEF Base
<1>8. ~Lives(d)
    BY <1>1, <1>4, <1>6 DEF Lives, Base
<1>9. Frame(c, d)
    BY <1>1, <1>5, <1>6 DEF Frame
<1> QED  BY <1>1, <1>2, <1>6, <1>7, <1>8, <1>9 DEF Steady

\* Passing out does not leave the settlement without its end.
Settles(c, seen, out) ==
    c.e.settle.phase = "wire" =>
        \/ out.t = "terminal" /\ out.g = c.e.settle.g
        \/ /\ SettleInv(c, seen)
           /\ (out.t = "started" /\ out.g = c.e.settle.g) => Ending(c, out.g)

\* What may pass the gate.
Passes(c, seen, out) ==
    /\ c.m.fail = NoTurn /\ c.m.flow = out.g
    /\ out.t = "started" =>
          /\ Lives(c) /\ EmitStarts(c, seen, out) /\ c.m.feedback[out.g].st = "live"
          /\ out.g < c.e.next /\ \A g \in Turns : Has(c.m.queue, "started", g) => out.g < g
    /\ out.t = "terminal" /\ Lives(c) =>
          out.g \in c.e.fired /\ ~Has(c.m.queue, "terminal", out.g)

LEMMA NumbersAre ==
    ASSUME NEW c \in Composites, NEW seen, WireInv(seen, c.w.q)
    PROVE  /\ Final(seen, c.w.q).last \in Nat /\ c.m.flow \in Nat /\ c.m.retired \in Nat
           /\ c.e.next \in Nat /\ c.a.active \in Nat /\ c.m.active \in Nat
           /\ c.e.turn \in Nat /\ c.m.by \in Nat /\ c.e.settle.g \in Nat
           /\ c.e.settle.g \in Responses /\ seen.last \in Nat
<1>1. /\ c.m.flow \in Responses /\ c.m.retired \in Responses /\ c.a.active \in Responses
      /\ c.m.active \in Responses /\ c.e.turn \in Responses /\ c.m.by \in Responses
      /\ c.e.next \in 1..MaxTurns + 1 /\ c.e.settle \in Settlements
    BY CompositeParts
<1>2. c.e.settle.g \in Responses
    BY <1>1 DEF Settlements
<1>3. Responses \subseteq Nat /\ 1..MaxTurns + 1 \subseteq Nat
    BY DeliveryAssumption DEF DeliveryAssumption, Responses, Turns, NoTurn
<1> QED  BY <1>1, <1>2, <1>3, FinalIs

\* What deliverResponseOutput makes of the composite, but for the flush.
LEMMA DeliverIs ==
    ASSUME NEW c, NEW seen, Piped(c, seen), NEW out \in ResponseOutputs,
           out.t = "started" => EmitStarts(c, seen, out)
    PROVE  LET d == Deliver(c, out)
               y == Emit(c, out)
           IN /\ Emits(c, y, seen, out)
              /\ d \in Composites /\ d.e = c.e /\ d.a = y.a /\ d.w = y.w
              /\ d.m.closed = c.m.closed /\ d.m.tearing = c.m.tearing
              /\ d.m.speaking = c.m.speaking /\ d.m.active \in {c.m.active, NoTurn}
              /\ d.m.paused = y.m.paused /\ d.m.by = y.m.by
              /\ d.m.queue = c.m.queue /\ d.m.fail = c.m.fail /\ d.m.ending = c.m.ending
              /\ d.m.feedback = c.m.feedback
              /\ d.m.flow = IF out.t = "terminal" THEN NoTurn ELSE c.m.flow
              /\ d.m.retired = IF out.t = "terminal" /\ out.g > c.m.retired
                               THEN out.g ELSE c.m.retired
<1> DEFINE d == Deliver(c, out)
           y == Emit(c, out)
<1>1. Emits(c, y, seen, out)
    BY EmitIs
<1> HIDE DEF y
<1>2. /\ y \in Composites /\ y.e = c.e
      /\ y.m.closed = c.m.closed /\ y.m.tearing = c.m.tearing /\ y.m.speaking = c.m.speaking
      /\ y.m.active = c.m.active /\ y.m.flow = c.m.flow /\ y.m.queue = c.m.queue
      /\ y.m.retired = c.m.retired /\ y.m.fail = c.m.fail /\ y.m.ending = c.m.ending
      /\ y.m.feedback = c.m.feedback
    BY <1>1 DEF Emits, Below
<1>3. CASE out.t = "terminal"
    <2>1. d = FreeFlow(y, out.g) /\ out.g \in Turns
        BY <1>3, OutputIs DEF Deliver, y
    <2> DEFINE x == FreeFlow(y, out.g)
    <2>2. /\ x \in Composites /\ x.e = y.e /\ x.a = y.a /\ x.w = y.w
          /\ x.m.closed = y.m.closed /\ x.m.tearing = y.m.tearing
          /\ x.m.speaking = y.m.speaking /\ x.m.active \in {y.m.active, NoTurn}
          /\ x.m.flow = NoTurn /\ x.m.paused = y.m.paused /\ x.m.by = y.m.by
          /\ x.m.queue = y.m.queue /\ x.m.fail = y.m.fail /\ x.m.ending = y.m.ending
          /\ x.m.feedback = y.m.feedback
          /\ x.m.retired = IF out.g > y.m.retired THEN out.g ELSE y.m.retired
        BY <1>2, <2>1, FreeFlowIs
    <2> HIDE DEF x, d
    <2>3. d = x
        BY <2>1 DEF x
    <2> QED  BY <1>1, <1>2, <1>3, <2>2, <2>3 DEF d, y
<1>4. CASE out.t # "terminal"
    <2>1. d = y
        BY <1>4 DEF Deliver, y
    <2> HIDE DEF d
    <2> QED  BY <1>1, <1>2, <1>4, <2>1 DEF d, y
<1> QED  BY <1>3, <1>4

LEMMA PassKeeps ==
    ASSUME NEW c, NEW seen, Steady(c, seen), NEW out \in ResponseOutputs, Passes(c, seen, out)
    PROVE  LET d == Deliver(c, out)
           IN /\ Steady(d, seen) /\ Frame(c, d)
              /\ d.m.queue = c.m.queue /\ d.m.fail = NoTurn
              /\ d.m.flow = IF out.t = "terminal" THEN NoTurn ELSE c.m.flow
              /\ d.m.retired = IF out.t = "terminal" /\ out.g > c.m.retired
                               THEN out.g ELSE c.m.retired
              /\ Lives(c) /\ Settles(c, seen, out) => SettleInv(d, seen)
              /\ Lives(c) => \A g \in Turns : Sent(c, g) => Sent(d, g)
              /\ Lives(c) /\ out.t = "terminal" /\ c.a.active = out.g => Sent(d, out.g)
<1> DEFINE d == Deliver(c, out)
           y == Emit(c, out)
           last == Final(seen, c.w.q).last
           now == Final(seen, d.w.q).last
<1>0. Piped(c, seen) /\ c \in Composites /\ WireInv(seen, c.w.q) /\ Base(c, seen)
    BY DEF Steady, Base, Solid, Piped
<1>1. out.t = "started" => EmitStarts(c, seen, out)
    BY DEF Passes
<1>2. /\ Emits(c, y, seen, out)
      /\ d \in Composites /\ d.e = c.e /\ d.a = y.a /\ d.w = y.w
      /\ d.m.closed = c.m.closed /\ d.m.tearing = c.m.tearing
      /\ d.m.speaking = c.m.speaking /\ d.m.active \in {c.m.active, NoTurn}
      /\ d.m.paused = y.m.paused /\ d.m.by = y.m.by
      /\ d.m.queue = c.m.queue /\ d.m.fail = c.m.fail /\ d.m.ending = c.m.ending
      /\ d.m.feedback = c.m.feedback
      /\ d.m.flow = IF out.t = "terminal" THEN NoTurn ELSE c.m.flow
      /\ d.m.retired = IF out.t = "terminal" /\ out.g > c.m.retired
                       THEN out.g ELSE c.m.retired
    BY <1>0, <1>1, DeliverIs
<1> HIDE DEF d, y
<1>3. /\ now = IF out.t = "started" THEN out.g ELSE last
      /\ d.a.active = IF out.t = "started" THEN out.g
                      ELSE IF out.t = "terminal" /\ c.a.active = out.g
                              /\ c.a.close \notin {"requested", "closed"} THEN NoTurn
                      ELSE c.a.active
      /\ \A g \in Turns :
            /\ Has(c.w.q, "done", g) => Has(d.w.q, "done", g)
            /\ Has(d.w.q, "done", g) =>
                  \/ Has(c.w.q, "done", g)
                  \/ out.t = "terminal" /\ g = out.g /\ c.a.active = g
            /\ Talks(c) /\ g \in c.a.timers => g \in d.a.timers
      /\ Talks(c) /\ out.t = "terminal" /\ c.a.active = out.g =>
            Has(d.w.q, "done", out.g) /\ out.g \in d.a.timers
    BY <1>2 DEF Emits
<1>4. /\ d.a.fatal = c.a.fatal /\ d.a.soon = c.a.soon /\ d.w.failed = c.w.failed
      /\ d.a.close = c.a.close /\ y.m.closed = c.m.closed
    BY <1>2 DEF Emits, Below
<1>5. Piped(d, seen)
    <2>1. Piped(y, seen)
        BY <1>2 DEF Emits
    <2>2. GateInv(d)
        BY <1>2, <1>4, <2>1 DEF Piped, GateInv
    <2>3. AgreesInv(d, seen)
        BY <1>2, <2>1 DEF Piped, AgreesInv, Talks
    <2> QED  BY <1>2, <2>1, <2>2, <2>3 DEF Piped
<1>6. c.m.fail = NoTurn /\ d.m.fail = NoTurn /\ c.m.flow = out.g
    BY <1>2 DEF Passes
<1>7. Base(d, seen)
    <2>1. Solid(d, seen)
        BY <1>0, <1>2, <1>5, <1>6 DEF Base, Solid
    <2> QED  BY <1>0, <1>2, <1>4, <2>1 DEF Base
<1>8. Frame(c, d)
    BY <1>2, <1>4, <1>6 DEF Frame
<1>9. Lives(d) <=> Lives(c)
    BY <1>2 DEF Lives
<1>10. out.g \in Nat /\ out.g # NoTurn /\ out.g \in Turns
       /\ out.t \in {"started", "declared", "audio", "completed", "terminal"}
    BY OutputIs DEF Turns
<1>11. /\ last \in Nat /\ c.m.flow \in Nat /\ c.m.retired \in Nat /\ c.e.next \in Nat
       /\ c.a.active \in Nat /\ c.e.settle.g \in Nat /\ c.e.settle.g \in Responses
    BY <1>0, NumbersAre
<1>12. ASSUME Lives(c) PROVE Live(d, seen)
    <2>1. /\ QueueInv(c.m.queue, c.e.next, last, c.e.fired, c.m.feedback)
          /\ FeedbackInv(c.m.feedback, seen, c.w.q)
          /\ FlowInv(c, last) /\ TurnInv(c)
        BY <1>12 DEF Steady, Live
    <2> HIDE DEF last
    <2>2. QueueInv(c.m.queue, c.e.next, now, c.e.fired, c.m.feedback)
        <3>1. CASE out.t = "started"
            <4>1. \A g \in Turns : Has(c.m.queue, "started", g) => out.g < g
                BY <3>1 DEF Passes
            <4>2. c.m.queue \in Seq(ResponseOutputs)
                BY <1>0, CompositeParts
            <4>3. \A i \in 1..Len(c.m.queue) : c.m.queue[i].t = "started" => now < c.m.queue[i].g
                <5> SUFFICES ASSUME NEW i \in 1..Len(c.m.queue), c.m.queue[i].t = "started"
                             PROVE  now < c.m.queue[i].g
                    OBVIOUS
                <5>1. c.m.queue[i] \in ResponseOutputs
                    BY <4>2
                <5>2. c.m.queue[i].g \in Turns
                    BY <5>1, OutputIs
                <5>3. Has(c.m.queue, "started", c.m.queue[i].g)
                    BY DEF Has
                <5> QED  BY <1>3, <3>1, <4>1, <5>2, <5>3
            <4> HIDE DEF now
            <4> QED  BY <2>1, <4>3 DEF QueueInv
        <3>2. CASE out.t # "started"
            BY <1>3, <2>1, <3>2
        <3> QED  BY <3>1, <3>2
    <2>3. FeedbackInv(c.m.feedback, seen, d.w.q)
        <3>1. ASSUME NEW g \in Turns, Has(d.w.q, "done", g)
              PROVE  c.m.feedback[g].st = "live"
            <4>1. CASE Has(c.w.q, "done", g)
                BY <2>1, <4>1 DEF FeedbackInv
            <4>2. CASE c.a.active = g
                <5>1. g # NoTurn
                    BY DEF Turns, NoTurn
                <5> QED  BY <2>1, <4>2, <5>1 DEF FlowInv
            <4> QED  BY <1>3, <3>1, <4>1, <4>2
        <3> QED  BY <2>1, <3>1 DEF FeedbackInv
    <2>4. FlowInv(d, now)
        <3>1. CASE out.t = "started"
            <4>1. /\ d.a.active = out.g /\ now = out.g /\ d.m.flow = out.g
                  /\ c.m.feedback[out.g].st = "live" /\ out.g < c.e.next
                BY <1>2, <1>3, <1>6, <3>1 DEF Passes
            <4> QED  BY <1>2, <4>1 DEF FlowInv
        <3>2. CASE out.t = "terminal"
            <4>1. c.a.close \notin {"requested", "closed"}
                BY <1>0, <1>12 DEF Base, Lives
            <4>2. d.a.active = NoTurn /\ now = last /\ d.m.flow = NoTurn
                BY <1>2, <1>3, <1>6, <2>1, <3>2, <4>1 DEF FlowInv
            <4>3. NoTurn < c.e.next
                BY <1>10, <1>11, <2>1 DEF FlowInv, NoTurn
            <4> QED  BY <1>2, <2>1, <4>2, <4>3 DEF FlowInv
        <3>3. CASE out.t \notin {"started", "terminal"}
            <4>1. d.a.active = c.a.active /\ now = last /\ d.m.flow = c.m.flow
                BY <1>2, <1>3, <3>3
            <4> QED  BY <1>2, <2>1, <4>1 DEF FlowInv
        <3> QED  BY <3>1, <3>2, <3>3
    <2>5. TurnInv(d)
        <3>1. d.m.active \in {NoTurn, d.e.next - 1}
            BY <1>2, <2>1 DEF TurnInv
        <3>2. d.m.retired \in d.e.fired \cup {NoTurn}
            BY <1>2, <1>12, <2>1 DEF TurnInv, Passes
        <3>3. ASSUME d.e.settle.phase = "wire", Has(d.m.queue, "terminal", d.e.settle.g)
              PROVE  d.m.retired < d.e.settle.g
            <4>1. c.e.settle.g = c.e.next - 1 /\ c.m.retired < c.e.settle.g
                BY <1>2, <2>1, <3>3 DEF TurnInv
            <4>2. CASE out.t = "terminal"
                <5>1. out.g # c.e.settle.g /\ out.g < c.e.next
                    BY <1>2, <1>12, <2>1, <3>3, <4>2 DEF Passes, TurnInv
                <5>2. out.g < c.e.settle.g
                    BY <1>10, <1>11, <4>1, <5>1
                <5> QED  BY <1>2, <4>1, <5>2
            <4>3. CASE out.t # "terminal"
                BY <1>2, <4>1, <4>3
            <4> QED  BY <4>2, <4>3
        <3> QED  BY <1>2, <2>1, <3>1, <3>2, <3>3 DEF TurnInv
    <2> QED  BY <1>2, <2>2, <2>3, <2>4, <2>5 DEF Live
<1>13. ASSUME Lives(c), Settles(c, seen, out) PROVE SettleInv(d, seen)
    <2> DEFINE g == c.e.settle.g
    <2>1. SUFFICES ASSUME c.e.settle.phase = "wire", Known(d, seen, g) PROVE Ending(d, g)
        BY <1>2 DEF SettleInv
    <2>2. Live(c, seen) /\ c.e.settle.g = c.e.next - 1 /\ FlowInv(c, last)
        BY <1>13, <2>1 DEF Steady, Live, TurnInv
    <2>3. c.e.settle.phase = "wire" => g \in Turns
        <3>1. \A h \in c.e.fired : h \in Turns
            BY <1>0, CompositeParts
        <3> QED  BY <2>2, <3>1 DEF Live, TurnInv
    <2>4. Talks(c)
        BY <1>0, <1>13 DEF Base, Lives, Talks
    <2>5. CASE out.t = "terminal" /\ out.g = g
        <3>1. CASE c.a.active = g
            BY <1>3, <2>3, <2>4, <2>5, <3>1 DEF Ending
        <3>2. CASE c.a.active # g
            <4>1. last < g
                BY <1>6, <2>2, <2>5, <3>2, <1>10 DEF FlowInv
            <4>2. now = last /\ ~(d.m.retired < g)
                BY <1>2, <1>3, <1>10, <1>11, <2>5
            <4> QED  BY <1>11, <2>1, <4>1, <4>2 DEF Known
        <3> QED  BY <3>1, <3>2
    <2>6. CASE SettleInv(c, seen) /\ ((out.t = "started" /\ out.g = g) => Ending(c, g))
                /\ ~(out.t = "terminal" /\ out.g = g)
        <3>1. Ending(c, g)
            <4>1. CASE out.t = "started"
                <5>1. CASE out.g = g
                    BY <2>6, <4>1, <5>1
                <5>2. CASE out.g # g
                    <6>1. out.g < g /\ d.m.retired = c.m.retired /\ now = out.g
                        BY <1>2, <1>3, <1>10, <1>11, <2>2, <4>1, <5>2 DEF Passes
                    <6>2. Known(c, seen, g)
                        BY <1>2, <1>10, <1>11, <2>1, <6>1 DEF Known
                    <6> QED  BY <2>1, <2>6, <6>2 DEF SettleInv
                <5> QED  BY <5>1, <5>2
            <4>2. CASE out.t # "started"
                <5>1. now = last /\ (d.m.retired < g => c.m.retired < g)
                    BY <1>2, <1>3, <1>10, <1>11, <4>2
                <5>2. Known(c, seen, g)
                    BY <1>2, <2>1, <5>1 DEF Known
                <5> QED  BY <2>1, <2>6, <5>2 DEF SettleInv
            <4> QED  BY <4>1, <4>2
        <3> QED  BY <1>2, <1>3, <2>1, <2>3, <2>4, <3>1 DEF Ending
    <2> QED  BY <1>13, <2>1, <2>5, <2>6 DEF Settles
<1>14. Steady(d, seen)
    BY <1>7, <1>9, <1>12 DEF Steady
<1>15. /\ Lives(c) => \A g \in Turns : Sent(c, g) => Sent(d, g)
       /\ Lives(c) /\ out.t = "terminal" /\ c.a.active = out.g => Sent(d, out.g)
    <2>1. Lives(c) => Talks(c)
        BY <1>0 DEF Base, Lives, Talks
    <2> QED  BY <1>3, <2>1 DEF Sent
<1> QED  BY <1>2, <1>6, <1>8, <1>13, <1>14, <1>15 DEF d

PutQueue(c, q, f) == [c EXCEPT !.m.queue = q, !.m.flow = f]

LEMMA QueuePutIs ==
    ASSUME NEW c \in Composites, NEW q \in Seq(ResponseOutputs), NEW f \in Responses
    PROVE  LET d == PutQueue(c, q, f)
           IN /\ d \in Composites /\ d.e = c.e /\ d.a = c.a /\ d.w = c.w
              /\ d.m.closed = c.m.closed /\ d.m.tearing = c.m.tearing
              /\ d.m.speaking = c.m.speaking /\ d.m.active = c.m.active
              /\ d.m.flow = f /\ d.m.paused = c.m.paused /\ d.m.by = c.m.by
              /\ d.m.queue = q /\ d.m.fail = c.m.fail /\ d.m.ending = c.m.ending
              /\ d.m.feedback = c.m.feedback /\ d.m.retired = c.m.retired
  BY Zenon DEF PutQueue, Composites, MediaSessions

\* With another queue and another flow the rest stands.
LEMMA QueuePutKeeps ==
    ASSUME NEW c, NEW seen, Base(c, seen), NEW q \in Seq(ResponseOutputs), NEW f \in Responses,
           c.m.fail = NoTurn,
           c.m.closed => \A g \in Turns : Has(q, "started", g) => Has(c.m.queue, "started", g)
    PROVE  LET d == PutQueue(c, q, f)
           IN /\ Base(d, seen) /\ Frame(c, d) /\ (Lives(d) <=> Lives(c))
              /\ d.e = c.e /\ d.a = c.a /\ d.w = c.w /\ d.m.queue = q /\ d.m.flow = f
              /\ d.m.active = c.m.active /\ d.m.retired = c.m.retired /\ d.m.fail = NoTurn
              /\ d.m.feedback = c.m.feedback /\ d.m.paused = c.m.paused
<1> DEFINE d == PutQueue(c, q, f)
<1>0. c \in Composites
    BY DEF Base, Solid, Piped
<1>1. /\ d \in Composites /\ d.e = c.e /\ d.a = c.a /\ d.w = c.w
      /\ d.m.closed = c.m.closed /\ d.m.tearing = c.m.tearing
      /\ d.m.speaking = c.m.speaking /\ d.m.active = c.m.active
      /\ d.m.flow = f /\ d.m.paused = c.m.paused /\ d.m.by = c.m.by
      /\ d.m.queue = q /\ d.m.fail = c.m.fail /\ d.m.ending = c.m.ending
      /\ d.m.feedback = c.m.feedback /\ d.m.retired = c.m.retired
    BY <1>0, QueuePutIs
<1> HIDE DEF d
<1>2. Piped(d, seen)
    BY <1>1 DEF Base, Solid, Piped, AgreesInv, GateInv, Talks
<1>3. Base(d, seen)
    <2>1. d.m.closed => \A g \in Turns : ~Has(d.m.queue, "started", g)
        BY <1>1 DEF Base, Solid
    <2> QED  BY <1>1, <1>2, <2>1 DEF Base, Solid
<1> QED  BY <1>1, <1>3 DEF Frame, Lives, d

LEMMA FlushHeadKeeps ==
    ASSUME NEW c, NEW seen, Steady(c, seen)
    PROVE  LET d == FlushHead(c)
           IN /\ Steady(d, seen) /\ Frame(c, d)
              /\ d = c \/ Len(d.m.queue) < Len(c.m.queue)
              /\ c.m.queue = <<>> \/ c.m.paused \/ c.m.flow # NoTurn
                   \/ Len(d.m.queue) < Len(c.m.queue)
              /\ Lives(d) /\ SettleInv(c, seen) => SettleInv(d, seen)
              /\ Lives(d) /\ FreshInv(c) => FreshInv(d)
<1> DEFINE q == c.m.queue
           out == Head(q)
           r == Tail(q)
           rest == [c EXCEPT !.m.queue = r]
<1>0. /\ Base(c, seen) /\ Piped(c, seen) /\ c \in Composites /\ WireInv(seen, c.w.q)
      /\ q \in Seq(ResponseOutputs) /\ c.m.flow \in Responses
    <2>1. Base(c, seen) /\ Piped(c, seen) /\ c \in Composites /\ WireInv(seen, c.w.q)
        BY DEF Steady, Base, Solid, Piped
    <2> QED  BY <2>1, CompositeParts
<1> DEFINE Stops == \/ q = <<>> \/ c.m.paused
                    \/ ~Retired(c, out.g) /\ c.m.flow \notin {NoTurn, out.g}
<1>1. CASE Stops
    <2>1. FlushHead(c) = c
        BY <1>1 DEF FlushHead
    <2> QED  BY <1>1, <2>1 DEF Frame
<1>2. CASE ~Stops
    <2>1. q # <<>> /\ ~c.m.paused /\ (Retired(c, out.g) \/ c.m.flow \in {NoTurn, out.g})
        BY <1>2
    <2>2. /\ r \in Seq(ResponseOutputs) /\ Len(r) < Len(q) /\ out \in ResponseOutputs
          /\ \A t, g : Has(q, t, g) <=> (out.t = t /\ out.g = g) \/ Has(r, t, g)
          /\ Len(q) \in Nat /\ 0 < Len(q)
        <3>1. /\ r \in Seq(ResponseOutputs) /\ Len(r) < Len(q) /\ out \in ResponseOutputs
              /\ Len(q) \in Nat /\ 0 < Len(q)
            BY <1>0, <2>1
        <3>2. \A t, g : Has(q, t, g) <=> (out.t = t /\ out.g = g) \/ Has(r, t, g)
            BY <1>0, <2>1, HasTail
        <3> QED  BY <3>1, <3>2
    <2>3. out.g \in Turns /\ out.g \in Nat /\ out.g # NoTurn
        BY <2>2, OutputIs DEF Turns
    <2>4. c.m.fail = NoTurn
        BY <1>0, <2>1 DEF Base, Solid
    <2>5. ASSUME Lives(c)
          PROVE  /\ Live(c, seen)
                 /\ QueueInv(r, c.e.next, Final(seen, c.w.q).last, c.e.fired, c.m.feedback)
                 /\ out.g < c.e.next
                 /\ out.t = "started" =>
                       Final(seen, c.w.q).last < out.g /\ c.m.feedback[out.g].st = "live"
                 /\ out.t = "terminal" => out.g \in c.e.fired /\ ~Has(r, "terminal", out.g)
                 /\ \A g \in Turns : Has(r, "started", g) => out.g < g
        <3>2. Live(c, seen)
            BY <2>5 DEF Steady
        <3>3. QueueInv(q, c.e.next, Final(seen, c.w.q).last, c.e.fired, c.m.feedback)
            BY <3>2 DEF Live
        <3> QED  BY <1>0, <2>1, <3>2, <3>3, QueueTail
    <2>6. /\ Final(seen, c.w.q).last \in Nat /\ c.m.flow \in Nat /\ c.m.retired \in Nat
          /\ c.e.next \in Nat /\ c.a.active \in Nat /\ c.e.settle.g \in Nat
        BY <1>0, NumbersAre
    <2>7. c.m.closed => out.t # "started"
        BY <1>0, <2>2, <2>3 DEF Base, Solid
    <2>8. c.e.settle.phase = "wire" /\ Lives(c) =>
             /\ c.e.settle.g \in Turns /\ c.e.settle.g = c.e.next - 1
             /\ Has(q, "terminal", c.e.settle.g) => c.m.retired < c.e.settle.g
        <3>1. \A h \in c.e.fired : h \in Turns
            BY <1>0, CompositeParts
        <3> QED  BY <2>5, <3>1 DEF Live, TurnInv
    <2> HIDE DEF out, r
    <2>9. CASE Retired(c, out.g)
        <3> DEFINE x == PutQueue(c, r, c.m.flow)
        <3>1. FlushHead(c) = rest
            BY <2>1, <2>9 DEF FlushHead, r, out
        <3>2. rest = x
            BY <1>0, Zenon DEF PutQueue, Composites, MediaSessions
        <3>3. c.m.closed => \A g \in Turns : Has(r, "started", g) => Has(c.m.queue, "started", g)
            BY <2>2
        <3>4. /\ Base(x, seen) /\ Frame(c, x) /\ (Lives(x) <=> Lives(c))
              /\ x.e = c.e /\ x.a = c.a /\ x.w = c.w /\ x.m.queue = r /\ x.m.flow = c.m.flow
              /\ x.m.active = c.m.active /\ x.m.retired = c.m.retired
              /\ x.m.feedback = c.m.feedback
            BY <1>0, <2>2, <2>4, <3>3, QueuePutKeeps
        <3> HIDE DEF x, rest
        <3>5. ASSUME Lives(c) PROVE Live(x, seen)
            <4>1. QueueInv(x.m.queue, x.e.next, Final(seen, x.w.q).last, x.e.fired, x.m.feedback)
                BY <2>5, <3>4, <3>5
            <4>2. FeedbackInv(x.m.feedback, seen, x.w.q)
                BY <2>5, <3>4, <3>5 DEF Live
            <4>3. FlowInv(x, Final(seen, x.w.q).last)
                BY <2>5, <3>4, <3>5 DEF Live, FlowInv
            <4>4. TurnInv(x)
                BY <2>2, <2>5, <3>4, <3>5 DEF Live, TurnInv
            <4> QED  BY <4>1, <4>2, <4>3, <4>4 DEF Live
        <3>6. ASSUME Lives(c), SettleInv(c, seen) PROVE SettleInv(x, seen)
            <4> DEFINE g == c.e.settle.g
            <4>1. SUFFICES ASSUME c.e.settle.phase = "wire", Known(x, seen, g)
                           PROVE  Ending(x, g)
                BY <3>4 DEF SettleInv
            <4>2. Known(c, seen, g)
                BY <2>2, <3>4, <4>1 DEF Known
            <4>3. Ending(c, g)
                BY <3>6, <4>1, <4>2 DEF SettleInv
            <4>4. ~(out.t = "terminal" /\ out.g = g)
                BY <2>2, <2>3, <2>6, <2>8, <2>9, <3>6, <4>1 DEF Retired
            <4> QED  BY <2>2, <3>4, <4>3, <4>4 DEF Ending
        <3>7. ASSUME Lives(c), FreshInv(c) PROVE FreshInv(x)
            BY <2>2, <3>4, <3>7 DEF FreshInv, Sent
        <3> QED  BY <2>2, <3>1, <3>2, <3>4, <3>5, <3>6, <3>7 DEF Steady
    <2>10. CASE ~Retired(c, out.g) /\ c.m.flow = NoTurn /\ out.t # "started"
        <3>1. FlushHead(c) = FailPending(c, out.g)
            BY <2>1, <2>10 DEF FlushHead, out
        <3> DEFINE x == FailPending(c, out.g)
        <3>2. Steady(x, seen) /\ Frame(c, x) /\ ~Lives(x) /\ x.m.queue = <<>>
            BY <1>0, <2>3, FailPendingIs
        <3> HIDE DEF x
        <3>3. Len(x.m.queue) < Len(c.m.queue)
            <4>1. Len(<<>>) = 0
                OBVIOUS
            <4> QED  BY <2>2, <3>2, <4>1
        <3> QED  BY <3>1, <3>2, <3>3 DEF x
    <2>11. CASE ~Retired(c, out.g) /\ ~(c.m.flow = NoTurn /\ out.t # "started")
        <3> DEFINE x == PutQueue(c, r, out.g)
                   z == Deliver(x, out)
        <3>1. c.m.flow \in {NoTurn, out.g}
            BY <2>1, <2>11 DEF out
        <3>2. FlushHead(c) = z
            <4>1. FlushHead(c) = Deliver([rest EXCEPT !.m.flow = out.g], out)
                BY <2>1, <2>11, <3>1 DEF FlushHead, out, r
            <4>2. [rest EXCEPT !.m.flow = out.g] = x
                BY <1>0, Zenon DEF PutQueue, Composites, MediaSessions
            <4> QED  BY <4>1, <4>2
        <3>3. c.m.closed => \A g \in Turns : Has(r, "started", g) => Has(c.m.queue, "started", g)
            BY <2>2
        <3>4. out.g \in Responses
            BY <2>3 DEF Responses
        <3>5. /\ Base(x, seen) /\ Frame(c, x) /\ (Lives(x) <=> Lives(c))
              /\ x.e = c.e /\ x.a = c.a /\ x.w = c.w /\ x.m.queue = r /\ x.m.flow = out.g
              /\ x.m.active = c.m.active /\ x.m.retired = c.m.retired /\ x.m.fail = NoTurn
              /\ x.m.feedback = c.m.feedback
            BY <1>0, <2>2, <2>4, <3>3, <3>4, QueuePutKeeps
        <3> HIDE DEF x, rest
        <3>6. ASSUME Lives(c) PROVE Live(x, seen)
            <4>1. QueueInv(x.m.queue, x.e.next, Final(seen, x.w.q).last, x.e.fired, x.m.feedback)
                BY <2>5, <3>5, <3>6
            <4>2. FeedbackInv(x.m.feedback, seen, x.w.q)
                BY <2>5, <3>5, <3>6 DEF Live
            <4>3. FlowInv(x, Final(seen, x.w.q).last)
                <5>1. FlowInv(c, Final(seen, c.w.q).last)
                    BY <2>5, <3>6 DEF Live
                <5>2. c.m.flow = NoTurn => out.t = "started" /\ Final(seen, c.w.q).last < out.g
                    BY <2>5, <2>11, <3>6
                <5>3. out.g < c.e.next
                    BY <2>5, <3>6
                <5> QED  BY <2>6, <3>1, <3>5, <5>1, <5>2, <5>3 DEF FlowInv
            <4>4. TurnInv(x)
                BY <2>2, <2>5, <3>5, <3>6 DEF Live, TurnInv
            <4> QED  BY <4>1, <4>2, <4>3, <4>4 DEF Live
        <3>7. Steady(x, seen)
            BY <3>5, <3>6 DEF Steady
        <3>8. Passes(x, seen, out)
            <4>1. ASSUME out.t = "started"
                  PROVE  /\ Lives(x) /\ EmitStarts(x, seen, out)
                         /\ x.m.feedback[out.g].st = "live" /\ out.g < x.e.next
                         /\ \A g \in Turns : Has(x.m.queue, "started", g) => out.g < g
                <5>1. Lives(c)
                    BY <2>4, <2>7, <4>1 DEF Lives
                <5>2. Final(seen, c.w.q).last < out.g
                    BY <2>5, <4>1, <5>1
                <5>3. Talks(c)
                    BY <1>0, <5>1 DEF Base, Lives, Talks
                <5>4. c.a.active \in {NoTurn, out.g}
                    BY <2>5, <3>1, <5>1 DEF Live, FlowInv
                <5>5. c.a.active # out.g
                    <6>1. Final(seen, c.w.q).open = c.a.active
                        BY <1>0, <5>3 DEF Piped, AgreesInv
                    <6>2. Final(seen, c.w.q).open \in {NoTurn, Final(seen, c.w.q).last}
                        BY <1>0, FinalIs
                    <6> QED  BY <2>3, <2>6, <5>2, <6>1, <6>2
                <5>6. EmitStarts(x, seen, out)
                    BY <3>5, <5>2, <5>3, <5>4, <5>5 DEF EmitStarts, Talks
                <5> QED  BY <2>5, <3>5, <4>1, <5>1, <5>6
            <4>2. ASSUME out.t = "terminal", Lives(x)
                  PROVE  out.g \in x.e.fired /\ ~Has(x.m.queue, "terminal", out.g)
                BY <2>5, <3>5, <4>2
            <4> QED  BY <3>5, <4>1, <4>2 DEF Passes
        <3>9. /\ Steady(z, seen) /\ Frame(x, z)
              /\ z.m.queue = x.m.queue /\ z.m.fail = NoTurn
              /\ z.m.retired = IF out.t = "terminal" /\ out.g > x.m.retired
                               THEN out.g ELSE x.m.retired
              /\ Lives(x) /\ Settles(x, seen, out) => SettleInv(z, seen)
              /\ Lives(x) => \A g \in Turns : Sent(x, g) => Sent(z, g)
            BY <2>2, <3>7, <3>8, PassKeeps
        <3> HIDE DEF z
        <3>10. ASSUME Lives(c), SettleInv(c, seen) PROVE Settles(x, seen, out)
            <4> DEFINE g == c.e.settle.g
            <4>1. SUFFICES ASSUME c.e.settle.phase = "wire", ~(out.t = "terminal" /\ out.g = g)
                           PROVE  /\ SettleInv(x, seen)
                                  /\ (out.t = "started" /\ out.g = g) => Ending(x, g)
                BY <3>5 DEF Settles
            <4>2. Known(x, seen, g) => Known(c, seen, g)
                BY <2>2, <3>5 DEF Known
            <4>3. (out.t = "started" /\ out.g = g) => Known(c, seen, g)
                BY <2>2, <2>3, <2>6, <2>11 DEF Known, Retired
            <4>4. Known(c, seen, g) => Ending(c, g)
                BY <3>10, <4>1 DEF SettleInv
            <4>5. Ending(c, g) => Ending(x, g)
                BY <2>2, <3>5, <4>1 DEF Ending
            <4> QED  BY <3>5, <4>1, <4>2, <4>3, <4>4, <4>5 DEF SettleInv
        <3>11. ASSUME Lives(c), FreshInv(c) PROVE FreshInv(z)
            <4> DEFINE g == c.e.settle.g
            <4>0. z.e = c.e
                BY <3>5, <3>9 DEF Frame
            <4>1. SUFFICES ASSUME c.e.settle.phase = "wire", Has(r, "started", g)
                           PROVE  z.m.retired < g \/ Sent(z, g)
                BY <3>5, <3>9, <4>0 DEF FreshInv
            <4>2. c.m.retired < g \/ Sent(c, g)
                BY <2>2, <3>11, <4>1 DEF FreshInv
            <4>3. out.g < g /\ g \in Turns
                BY <2>5, <2>8, <3>11, <4>1
            <4>4. Sent(c, g) => Sent(x, g)
                BY <3>5 DEF Sent
            <4> QED  BY <3>5, <3>9, <3>11, <4>2, <4>3, <4>4
        <3>12. Frame(c, z)
            BY <3>5, <3>9, FrameChain
        <3>13. Lives(z) => Lives(c)
            BY <3>12 DEF Frame, Lives
        <3>14. Len(z.m.queue) < Len(q)
            BY <2>2, <3>5, <3>9
        <3> QED  BY <3>2, <3>5, <3>9, <3>10, <3>11, <3>12, <3>13, <3>14
    <2> QED  BY <2>9, <2>10, <2>11
<1> QED  BY <1>1, <1>2

\* The rounds of the flush are the recursion they are written as.
LEMMA FlushRuns ==
    ASSUME NEW c, Len(c.m.queue) \in Nat
    PROVE  \E R : /\ R[0] = c
                  /\ \A n \in 1..Len(c.m.queue) : R[n] = FlushHead(R[n - 1])
                  /\ Flush(c) = R[Len(c.m.queue)]
<1> DEFINE L == Len(c.m.queue)
           Step(G, k) == [n \in 0..k |-> IF n = 0 THEN c ELSE FlushHead(G[n - 1])]
           T == {k \in 0..L : ~\E G : G = Step(G, k)}
           K == CHOOSE G : G = Step(G, L)
<1>1. L \in Nat
    OBVIOUS
<1> HIDE DEF L
<1>2. T = {}
    <2> SUFFICES ASSUME T # {} PROVE FALSE
        OBVIOUS
    <2>1. PICK x \in T : \A y \in T : ~(y < x)
        <3>1. T \in SUBSET Nat
            BY <1>1
        <3> HIDE DEF T
        <3> QED  BY <3>1, Smallest
    <2>2. x # 0
        <3>1. [n \in 0..0 |-> c] = Step([n \in 0..0 |-> c], 0)
            OBVIOUS
        <3> QED  BY <3>1
    <2>3. x - 1 \in 0..L /\ x - 1 < x /\ x \in 1..L
        BY <1>1, <2>2
    <2>4. PICK G : G = Step(G, x - 1)
        BY <2>1, <2>3
    <2> DEFINE H == [n \in 0..x |-> IF n = x THEN FlushHead(G[x - 1]) ELSE G[n]]
    <2>5. H = Step(H, x)
        <3>1. ASSUME NEW n \in 0..x
              PROVE  H[n] = IF n = 0 THEN c ELSE FlushHead(H[n - 1])
            <4>1. CASE n = x
                BY <2>3, <4>1
            <4>2. CASE n # x
                <5>1. n \in 0..(x - 1) /\ H[n] = G[n]
                    BY <2>3, <4>2
                <5>2. G[n] = IF n = 0 THEN c ELSE FlushHead(G[n - 1])
                    BY <2>4, <5>1
                <5>3. n # 0 => n - 1 \in 0..x /\ n - 1 # x
                    BY <2>3, <5>1
                <5>4. n # 0 => H[n - 1] = G[n - 1]
                    BY <5>3
                <5> QED  BY <5>1, <5>2, <5>4
            <4> QED  BY <4>1, <4>2
        <3> QED  BY <3>1
    <2> QED  BY <2>1, <2>5
<1>3. K = Step(K, L)
    <2>1. L \in 0..L
        BY <1>1
    <2>2. L \notin T
        BY <1>2
    <2>3. \E G : G = Step(G, L)
        BY <2>1, <2>2
    <2> QED  BY <2>3
<1>4. Flush(c) = K[L]
    BY DEF Flush, L
<1> HIDE DEF K
<1>5. K[0] = c /\ \A n \in 1..L : K[n] = FlushHead(K[n - 1])
    BY <1>1, <1>3
<1> QED  BY <1>4, <1>5 DEF L

\* A flush stays in each set that its rounds do not leave, and ends where a round
\* changes nothing.
LEMMA FlushReaches ==
    ASSUME NEW c, NEW S, c \in S,
           \A x \in S : /\ FlushHead(x) \in S /\ x.m.queue \in Seq(ResponseOutputs)
                        /\ FlushHead(x) = x \/ Len(FlushHead(x).m.queue) < Len(x.m.queue)
    PROVE  Flush(c) \in S /\ FlushHead(Flush(c)) = Flush(c)
<1> DEFINE L == Len(c.m.queue)
<1>1. L \in Nat
    OBVIOUS
<1>2. PICK R : /\ R[0] = c /\ \A n \in 1..L : R[n] = FlushHead(R[n - 1])
               /\ Flush(c) = R[L]
    BY <1>1, FlushRuns
<1> DEFINE Fine(n) == /\ R[n] \in S
                      /\ FlushHead(R[n]) = R[n] \/ Len(R[n].m.queue) <= L - n
           T == {n \in 0..L : ~Fine(n)}
<1> HIDE DEF L
<1>3. T = {}
    <2> SUFFICES ASSUME T # {} PROVE FALSE
        OBVIOUS
    <2>1. PICK x \in T : \A y \in T : ~(y < x)
        <3>1. T \in SUBSET Nat
            BY <1>1
        <3> HIDE DEF T
        <3> QED  BY <3>1, Smallest
    <2>2. x # 0
        <3>1. Fine(0)
            BY <1>1, <1>2 DEF L
        <3> QED  BY <2>1, <3>1
    <2>3. x - 1 \in 0..L /\ x - 1 < x /\ x \in 1..L
        BY <1>1, <2>1, <2>2
    <2>4. Fine(x - 1)
        BY <2>1, <2>3
    <2>5. R[x] = FlushHead(R[x - 1]) /\ R[x] \in S /\ R[x - 1] \in S
        BY <1>2, <2>3, <2>4
    <2>6. Len(R[x].m.queue) \in Nat /\ Len(R[x - 1].m.queue) \in Nat
        <3>1. R[x].m.queue \in Seq(ResponseOutputs) /\ R[x - 1].m.queue \in Seq(ResponseOutputs)
            BY <2>5
        <3> QED  BY <3>1, SMTT(30)
    <2>7. R[x] = R[x - 1] \/ Len(R[x].m.queue) < Len(R[x - 1].m.queue)
        BY <2>5
    <2>8. FlushHead(R[x]) = R[x] \/ Len(R[x].m.queue) <= L - x
        <3>1. CASE FlushHead(R[x - 1]) = R[x - 1]
            BY <2>5, <3>1
        <3>2. CASE FlushHead(R[x - 1]) # R[x - 1]
            <4>1. Len(R[x - 1].m.queue) <= L - (x - 1) /\ Len(R[x].m.queue) < Len(R[x - 1].m.queue)
                BY <2>4, <2>5, <2>7, <3>2
            <4> DEFINE a == Len(R[x].m.queue)
                       b == Len(R[x - 1].m.queue)
            <4>2. a \in Nat /\ b \in Nat /\ x \in Int /\ L \in Int /\ b <= L - (x - 1) /\ a < b
                BY <1>1, <2>3, <2>6, <4>1
            <4> HIDE DEF a, b
            <4>3. a <= L - x
                BY <4>2
            <4> QED  BY <4>3 DEF a
        <3> QED  BY <3>1, <3>2
    <2>9. Fine(x)
        BY <2>5, <2>8
    <2> QED  BY <2>1, <2>9
<1>4. Fine(L)
    BY <1>1, <1>3
<1>5. R[L] \in S /\ R[L].m.queue \in Seq(ResponseOutputs)
    BY <1>4, Zenon
<1>6. CASE Len(R[L].m.queue) <= L - L
    <2>1. R[L].m.queue = <<>>
        BY <1>1, <1>5, <1>6, SMTT(30)
    <2>2. FlushHead(R[L]) = R[L]
        BY <2>1, Zenon DEF FlushHead
    <2> QED  BY <1>2, <1>5, <2>2, Zenon
<1> QED  BY <1>2, <1>4, <1>5, <1>6

LEMMA FlushKeeps ==
    ASSUME NEW c, NEW seen, Steady(c, seen)
    PROVE  LET d == Flush(c)
           IN /\ Steady(d, seen) /\ Frame(c, d)
              /\ Lives(d) /\ SettleInv(c, seen) => SettleInv(d, seen)
              /\ Lives(d) /\ FreshInv(c) => FreshInv(d)
              /\ OpenInv(d)
<1> DEFINE Fine(x) == /\ Steady(x, seen) /\ Frame(c, x)
                      /\ Lives(x) /\ SettleInv(c, seen) => SettleInv(x, seen)
                      /\ Lives(x) /\ FreshInv(c) => FreshInv(x)
           S == {x \in Composites : Fine(x)}
<1>1. c \in S
    BY DEF Frame, Steady, Base, Solid, Piped
<1>2. ASSUME NEW x \in S
      PROVE  /\ FlushHead(x) \in S /\ x.m.queue \in Seq(ResponseOutputs)
             /\ FlushHead(x) = x \/ Len(FlushHead(x).m.queue) < Len(x.m.queue)
    <2> DEFINE d == FlushHead(x)
    <2>1. /\ Steady(d, seen) /\ Frame(x, d)
          /\ d = x \/ Len(d.m.queue) < Len(x.m.queue)
          /\ Lives(d) /\ SettleInv(x, seen) => SettleInv(d, seen)
          /\ Lives(d) /\ FreshInv(x) => FreshInv(d)
        BY FlushHeadKeeps
    <2> HIDE DEF d
    <2>2. Frame(c, d) /\ (Lives(d) => Lives(x))
        BY <2>1, FrameChain DEF Frame, Lives
    <2>3. d \in Composites
        BY <2>1 DEF Steady, Base, Solid, Piped
    <2>4. x.m.queue \in Seq(ResponseOutputs)
        BY CompositeParts
    <2> QED  BY <2>1, <2>2, <2>3, <2>4 DEF d
<1> HIDE DEF S
<1>3. Flush(c) \in S /\ FlushHead(Flush(c)) = Flush(c)
    BY <1>1, <1>2, FlushReaches
<1>4. OpenInv(Flush(c))
    <2> DEFINE d == Flush(c)
    <2>1. Steady(d, seen) /\ d.m.queue \in Seq(ResponseOutputs) /\ FlushHead(d) = d
        BY <1>3, CompositeParts DEF S
    <2> HIDE DEF d
    <2>2. \/ d.m.queue = <<>> \/ d.m.paused \/ d.m.flow # NoTurn
          \/ Len(FlushHead(d).m.queue) < Len(d.m.queue)
        BY <2>1, FlushHeadKeeps
    <2>3. ~(Len(d.m.queue) < Len(d.m.queue))
        BY <2>1
    <2> QED  BY <2>1, <2>2, <2>3 DEF OpenInv, d
<1> QED  BY <1>3, <1>4 DEF S

\* What is kept of a queue is what was not of the response, in its order.
LEMMA WithoutIs ==
    ASSUME NEW q \in Seq(ResponseOutputs), NEW g
    PROVE  LET r == Without(q, g)
           IN /\ r \in Seq(ResponseOutputs)
              /\ \A i \in 1..Len(r) : \E k \in 1..Len(q) : r[i] = q[k] /\ q[k].g # g
              /\ \A i, j \in 1..Len(r) : i < j =>
                    \E k, l \in 1..Len(q) : k < l /\ r[i] = q[k] /\ r[j] = q[l]
<1> DEFINE L == Len(q)
           Step(G, k) == [n \in 0..k |-> IF n = 0 THEN <<>>
                                         ELSE IF q[n].g = g THEN G[n - 1]
                                         ELSE Append(G[n - 1], q[n])]
           T == {k \in 0..L : ~\E G : G = Step(G, k)}
           K == CHOOSE G : G = Step(G, L)
<1>1. L \in Nat
    OBVIOUS
<1>2. T = {}
    <2> SUFFICES ASSUME T # {} PROVE FALSE
        OBVIOUS
    <2>1. PICK x \in T : \A y \in T : ~(y < x)
        <3>1. T \in SUBSET Nat
            BY <1>1
        <3> HIDE DEF T
        <3> QED  BY <3>1, Smallest
    <2>2. x # 0
        <3>1. [n \in 0..0 |-> <<>>] = Step([n \in 0..0 |-> <<>>], 0)
            OBVIOUS
        <3> QED  BY <3>1
    <2>3. x - 1 \in 0..L /\ x - 1 < x /\ x \in 1..L
        BY <1>1, <2>2
    <2>4. PICK G : G = Step(G, x - 1)
        BY <2>1, <2>3
    <2> DEFINE H == [n \in 0..x |-> IF n = x THEN (IF q[x].g = g THEN G[x - 1]
                                                  ELSE Append(G[x - 1], q[x]))
                                    ELSE G[n]]
    <2>5. H = Step(H, x)
        <3>1. ASSUME NEW n \in 0..x
              PROVE  H[n] = IF n = 0 THEN <<>> ELSE IF q[n].g = g THEN H[n - 1]
                            ELSE Append(H[n - 1], q[n])
            <4>1. CASE n = x
                <5>1. H[n - 1] = G[n - 1]
                    BY <2>3, <4>1
                <5> QED  BY <2>3, <4>1, <5>1
            <4>2. CASE n # x
                <5>1. n \in 0..(x - 1) /\ H[n] = G[n]
                    BY <2>3, <4>2
                <5>2. G[n] = IF n = 0 THEN <<>> ELSE IF q[n].g = g THEN G[n - 1]
                             ELSE Append(G[n - 1], q[n])
                    BY <2>4, <5>1, Zenon
                <5>3. n # 0 => n - 1 \in 0..x /\ n - 1 # x
                    BY <2>3, <5>1
                <5>4. n # 0 => H[n - 1] = G[n - 1]
                    BY <5>3, Zenon
                <5> QED  BY <5>1, <5>2, <5>4
            <4> QED  BY <4>1, <4>2
        <3> QED  BY <3>1
    <2> QED  BY <2>1, <2>5
<1>3. K = Step(K, L)
    <2>1. L \in 0..L
        BY <1>1
    <2>2. L \notin T
        BY <1>2
    <2>3. \E G : G = Step(G, L)
        BY <2>1, <2>2
    <2> QED  BY <2>3, Zenon
<1>4. Without(q, g) = K[L]
    BY DEF Without
<1> HIDE DEF K
<1>5. K[0] = <<>> /\ \A n \in 1..L : K[n] = IF q[n].g = g THEN K[n - 1]
                                            ELSE Append(K[n - 1], q[n])
    <2>1. \A n \in 0..L : K[n] = IF n = 0 THEN <<>> ELSE IF q[n].g = g THEN K[n - 1]
                                  ELSE Append(K[n - 1], q[n])
        BY <1>3
    <2>2. 0 \in 0..L /\ \A n \in 1..L : n \in 0..L /\ n # 0
        BY <1>1
    <2> QED  BY <2>1, <2>2
<1> DEFINE Fine(n) ==
               /\ K[n] \in Seq(ResponseOutputs)
               /\ \A i \in 1..Len(K[n]) : \E k \in 1..n : K[n][i] = q[k] /\ q[k].g # g
               /\ \A i, j \in 1..Len(K[n]) : i < j =>
                     \E k, l \in 1..n : k < l /\ K[n][i] = q[k] /\ K[n][j] = q[l]
           W == {n \in 0..L : ~Fine(n)}
<1>6. W = {}
    <2> SUFFICES ASSUME W # {} PROVE FALSE
        OBVIOUS
    <2>1. PICK x \in W : \A y \in W : ~(y < x)
        <3>1. W \in SUBSET Nat
            BY <1>1
        <3> HIDE DEF W
        <3> QED  BY <3>1, Smallest
    <2>2. x # 0
        <3>1. Fine(0)
            BY <1>5
        <3> QED  BY <2>1, <3>1
    <2>3. x - 1 \in 0..L /\ x - 1 < x /\ x \in 1..L
        BY <1>1, <2>1, <2>2
    <2>4. Fine(x - 1)
        BY <2>1, <2>3
    <2> DEFINE b == K[x - 1]
               a == K[x]
    <2>5. /\ b \in Seq(ResponseOutputs) /\ Len(b) \in Nat
          /\ \A i \in 1..Len(b) : \E k \in 1..(x - 1) : b[i] = q[k] /\ q[k].g # g
          /\ \A i, j \in 1..Len(b) : i < j =>
                \E k, l \in 1..(x - 1) : k < l /\ b[i] = q[k] /\ b[j] = q[l]
        <3>1. b \in Seq(ResponseOutputs)
            BY <2>4
        <3>2. Len(b) \in Nat
            BY <3>1
        <3> QED  BY <2>4, <3>1, <3>2, Zenon
    <2>6. a = IF q[x].g = g THEN b ELSE Append(b, q[x])
        BY <1>5, <2>3
    <2>7. 1..(x - 1) \subseteq 1..x /\ x \in 1..x /\ \A k \in 1..(x - 1) : k < x
        BY <2>3
    <2>8. q[x] \in ResponseOutputs
        BY <2>3
    <2>9. ~Fine(x)
        BY <2>1
    <2>10. CASE q[x].g = g
        <3>1. a = b
            BY <2>6, <2>10
        <3> HIDE DEF a, b
        <3>2. /\ a \in Seq(ResponseOutputs)
              /\ \A i \in 1..Len(a) : \E k \in 1..x : a[i] = q[k] /\ q[k].g # g
              /\ \A i, j \in 1..Len(a) : i < j =>
                    \E k, l \in 1..x : k < l /\ a[i] = q[k] /\ a[j] = q[l]
            BY <2>5, <2>7, <3>1, SMTT(30)
        <3> QED  BY <2>9, <3>2 DEF a
    <2>11. CASE q[x].g # g
        <3>1. /\ a \in Seq(ResponseOutputs) /\ Len(a) = Len(b) + 1
              /\ a[Len(b) + 1] = q[x] /\ \A i \in 1..Len(b) : a[i] = b[i]
            BY <2>5, <2>6, <2>8, <2>11
        <3> HIDE DEF a, b
        <3>2. \A i \in 1..Len(a) : i \in 1..Len(b) \/ i = Len(b) + 1
            BY <2>5, <3>1
        <3>3. \A i \in 1..Len(a) : \E k \in 1..x : a[i] = q[k] /\ q[k].g # g
            BY <2>5, <2>7, <2>11, <3>1, <3>2
        <3>4. ASSUME NEW i \in 1..Len(a), NEW j \in 1..Len(a), i < j
              PROVE  \E k, l \in 1..x : k < l /\ a[i] = q[k] /\ a[j] = q[l]
            <4>1. i \in 1..Len(b)
                BY <2>5, <3>1, <3>4
            <4>2. CASE j \in 1..Len(b)
                <5>1. PICK k \in 1..(x - 1), l \in 1..(x - 1) :
                              k < l /\ b[i] = q[k] /\ b[j] = q[l]
                    BY <2>5, <3>4, <4>1, <4>2
                <5>2. k \in 1..x /\ l \in 1..x
                    BY <2>7
                <5> QED  BY <3>1, <4>1, <4>2, <5>1, <5>2
            <4>3. CASE j = Len(b) + 1
                <5>1. PICK k \in 1..(x - 1) : b[i] = q[k]
                    BY <2>5, <4>1
                <5>2. k < x /\ k \in 1..x /\ a[i] = q[k] /\ a[j] = q[x]
                    BY <2>7, <3>1, <4>1, <4>3, <5>1
                <5> QED  BY <2>7, <5>2
            <4> QED  BY <3>2, <4>2, <4>3
        <3> QED  BY <2>9, <3>1, <3>3, <3>4 DEF a
    <2> QED  BY <2>10, <2>11
<1>7. Fine(L)
    <2>1. L \in 0..L
        BY <1>1
    <2> QED  BY <1>6, <2>1
<1> QED  BY <1>4, <1>7

LEMMA QueueWithout ==
    ASSUME NEW q \in Seq(ResponseOutputs), NEW g
    PROVE  LET r == Without(q, g)
           IN /\ r \in Seq(ResponseOutputs)
              /\ \A t : ~Has(r, t, g)
              /\ \A t, h : Has(r, t, h) => Has(q, t, h)
              /\ \A next, last, fired, fb :
                    QueueInv(q, next, last, fired, fb) => QueueInv(r, next, last, fired, fb)
<1> DEFINE r == Without(q, g)
<1>1. /\ r \in Seq(ResponseOutputs)
      /\ \A i \in 1..Len(r) : \E k \in 1..Len(q) : r[i] = q[k] /\ q[k].g # g
      /\ \A i, j \in 1..Len(r) : i < j =>
            \E k, l \in 1..Len(q) : k < l /\ r[i] = q[k] /\ r[j] = q[l]
    BY WithoutIs
<1> HIDE DEF r
<1>2. \A t : ~Has(r, t, g)
    BY <1>1 DEF Has
<1>3. ASSUME NEW t, NEW h, Has(r, t, h) PROVE Has(q, t, h)
    <2>1. PICK i \in 1..Len(r) : r[i].t = t /\ r[i].g = h
        BY <1>3 DEF Has
    <2>2. PICK k \in 1..Len(q) : r[i] = q[k]
        BY <1>1
    <2> QED  BY <2>1, <2>2 DEF Has
<1>4. ASSUME NEW next, NEW last, NEW fired, NEW fb, QueueInv(q, next, last, fired, fb)
      PROVE  QueueInv(r, next, last, fired, fb)
    <2>1. ASSUME NEW i \in 1..Len(r)
          PROVE  /\ r[i].g < next
                 /\ r[i].t = "started" => last < r[i].g /\ fb[r[i].g].st = "live"
                 /\ r[i].t = "terminal" => r[i].g \in fired
        <3>1. PICK k \in 1..Len(q) : r[i] = q[k]
            BY <1>1
        <3> QED  BY <1>4, <3>1 DEF QueueInv
    <2>2. ASSUME NEW i \in 1..Len(r), NEW j \in 1..Len(r), i < j
          PROVE  /\ r[i].g <= r[j].g
                 /\ r[j].t = "started" => r[i].g < r[j].g
                 /\ (r[i].t = "terminal" /\ r[j].t = "terminal") => r[i].g # r[j].g
        <3>1. PICK k \in 1..Len(q), l \in 1..Len(q) : k < l /\ r[i] = q[k] /\ r[j] = q[l]
            BY <1>1, <2>2
        <3> QED  BY <1>4, <3>1 DEF QueueInv
    <2> QED  BY <2>1, <2>2 DEF QueueInv
<1> QED  BY <1>1, <1>2, <1>3, <1>4 DEF r

\* An open gate whose queue is all retired is emptied.
LEMMA FlushDrops ==
    ASSUME NEW c \in Composites, ~c.m.paused,
           \A i \in 1..Len(c.m.queue) : c.m.queue[i].g <= c.m.retired
    PROVE  Flush(c).m.queue = <<>>
<1> DEFINE Fine(x) == /\ ~x.m.paused
                      /\ \A i \in 1..Len(x.m.queue) : x.m.queue[i].g <= x.m.retired
           S == {x \in Composites : Fine(x)}
<1>1. c \in S
    OBVIOUS
<1>2. ASSUME NEW x \in S
      PROVE  /\ FlushHead(x) \in S /\ x.m.queue \in Seq(ResponseOutputs)
             /\ x.m.queue = <<>> \/ Len(FlushHead(x).m.queue) < Len(x.m.queue)
             /\ FlushHead(x) = x \/ Len(FlushHead(x).m.queue) < Len(x.m.queue)
    <2> DEFINE q == x.m.queue
               r == Tail(q)
               y == PutQueue(x, r, x.m.flow)
    <2>1. q \in Seq(ResponseOutputs) /\ x.m.flow \in Responses /\ x \in Composites
          /\ ~x.m.paused /\ \A i \in 1..Len(q) : q[i].g <= x.m.retired
        BY CompositeParts
    <2>2. CASE q = <<>>
        <3>1. FlushHead(x) = x
            BY <2>2 DEF FlushHead
        <3> QED  BY <2>1, <2>2, <3>1
    <2>3. CASE q # <<>>
        <3>1. /\ r \in Seq(ResponseOutputs) /\ Len(r) < Len(q)
              /\ \A i \in 1..Len(r) : i + 1 \in 1..Len(q) /\ r[i] = q[i + 1]
              /\ Head(q) = q[1] /\ 1 \in 1..Len(q)
            BY <2>1, <2>3
        <3>2. Retired(x, Head(q).g)
            BY <2>1, <3>1 DEF Retired
        <3>3. FlushHead(x) = [x EXCEPT !.m.queue = r]
            BY <2>1, <2>3, <3>2 DEF FlushHead
        <3> HIDE DEF r
        <3>4. [x EXCEPT !.m.queue = r] = y
            BY <2>1, Zenon DEF PutQueue, Composites, MediaSessions
        <3>5. y \in Composites /\ y.m.queue = r /\ y.m.paused = x.m.paused
              /\ y.m.retired = x.m.retired
            BY <2>1, <3>1, QueuePutIs
        <3> HIDE DEF y
        <3>6. \A i \in 1..Len(r) : r[i].g <= x.m.retired
            BY <2>1, <3>1
        <3> QED  BY <2>1, <3>1, <3>3, <3>4, <3>5, <3>6
    <2> QED  BY <2>2, <2>3
<1> DEFINE d == Flush(c)
<1> HIDE DEF S
<1>3. d \in S /\ FlushHead(d) = d
    BY <1>1, <1>2, FlushReaches
<1> HIDE DEF d
<1>4. d.m.queue \in Seq(ResponseOutputs)
      /\ (d.m.queue = <<>> \/ Len(d.m.queue) < Len(d.m.queue))
    BY <1>2, <1>3
<1>5. Len(d.m.queue) \in Nat
    BY <1>4
<1> QED  BY <1>4, <1>5 DEF d

\* What may come to the gate, and what the gate makes of it.
Fits(c, seen, out) ==
    /\ out.t = "started" =>
          /\ Lives(c) /\ Final(seen, c.w.q).last < out.g
          /\ \A i \in 1..Len(c.m.queue) : c.m.queue[i].g < out.g
          /\ c.m.paused \/ c.m.flow \notin {NoTurn, out.g} \/ c.m.queue = <<>>
          /\ c.m.feedback[out.g].st = "live" /\ c.e.settle.phase # "wire"
    /\ Lives(c) =>
          /\ out.g = c.e.next - 1
          /\ out.t = "terminal" =>
                /\ out.g \in c.e.fired /\ ~Has(c.m.queue, "terminal", out.g)
                /\ c.m.retired < out.g
Gated(c, d, seen, out) ==
    /\ Steady(d, seen) /\ Frame(c, d)
    /\ Lives(d) =>
          /\ OpenInv(d)
          /\ SettleInv(c, seen) \/ out.t = "terminal" => SettleInv(d, seen)
          /\ FreshInv(c) \/ out.t = "terminal" => FreshInv(d)

\* The flow is given to a response that starts.
LEMMA FlowTaken ==
    ASSUME NEW c, NEW seen, Steady(c, seen), c.m.fail = NoTurn,
           NEW out \in ResponseOutputs, Fits(c, seen, out),
           c.m.flow = NoTurn => out.t = "started"
    PROVE  LET f == IF c.m.flow = NoTurn THEN out.g ELSE c.m.flow
               d == PutQueue(c, c.m.queue, f)
           IN /\ [c EXCEPT !.m.flow = IF @ = NoTurn THEN out.g ELSE @] = d
              /\ Steady(d, seen) /\ Frame(c, d) /\ Fits(d, seen, out) /\ (Lives(d) <=> Lives(c))
              /\ d.e = c.e /\ d.a = c.a /\ d.w = c.w /\ d.m.queue = c.m.queue /\ d.m.flow = f
              /\ d.m.retired = c.m.retired /\ d.m.fail = NoTurn /\ f # NoTurn
              /\ (SettleInv(c, seen) => SettleInv(d, seen)) /\ (FreshInv(c) => FreshInv(d))
<1> DEFINE f == IF c.m.flow = NoTurn THEN out.g ELSE c.m.flow
           d == PutQueue(c, c.m.queue, f)
<1>0. /\ Base(c, seen) /\ c \in Composites /\ WireInv(seen, c.w.q)
      /\ c.m.queue \in Seq(ResponseOutputs) /\ c.m.flow \in Responses
      /\ out.g \in Responses /\ out.g # NoTurn /\ out.g \in Turns
    <2>1. Base(c, seen) /\ c \in Composites /\ WireInv(seen, c.w.q)
        BY DEF Steady, Base, Solid, Piped
    <2> QED  BY <2>1, CompositeParts, OutputIs
<1>1. [c EXCEPT !.m.flow = f] = d
    BY <1>0, Zenon DEF PutQueue, Composites, MediaSessions
<1>2. [c EXCEPT !.m.flow = IF @ = NoTurn THEN out.g ELSE @] = [c EXCEPT !.m.flow = f]
    BY <1>0, Zenon DEF Composites, MediaSessions, f
<1>3. f \in Responses /\ f # NoTurn
    BY <1>0
<1>4. /\ Base(d, seen) /\ Frame(c, d) /\ (Lives(d) <=> Lives(c))
      /\ d.e = c.e /\ d.a = c.a /\ d.w = c.w /\ d.m.queue = c.m.queue /\ d.m.flow = f
      /\ d.m.active = c.m.active /\ d.m.retired = c.m.retired /\ d.m.fail = NoTurn
      /\ d.m.feedback = c.m.feedback /\ d.m.paused = c.m.paused
    BY <1>0, <1>3, QueuePutKeeps
<1> HIDE DEF d
<1>5. ASSUME Lives(c) PROVE Live(d, seen)
    <2>1. Live(c, seen)
        BY <1>5 DEF Steady
    <2>2. FlowInv(d, Final(seen, d.w.q).last)
        <3>1. FlowInv(c, Final(seen, c.w.q).last)
            BY <2>1 DEF Live
        <3>2. CASE c.m.flow # NoTurn
            BY <1>4, <3>1, <3>2 DEF FlowInv
        <3>3. CASE c.m.flow = NoTurn
            <4>1. Final(seen, c.w.q).last < out.g /\ out.g = c.e.next - 1
                BY <1>5, <3>3 DEF Fits
            <4>2. c.e.next \in Nat /\ out.g < c.e.next
                <5>1. c.e.next \in Nat
                    BY <1>0, NumbersAre
                <5> QED  BY <4>1, <5>1
            <4> QED  BY <1>4, <3>1, <3>3, <4>1, <4>2 DEF FlowInv
        <3> QED  BY <3>2, <3>3
    <2>3. TurnInv(d)
        BY <1>4, <2>1 DEF Live, TurnInv
    <2> QED  BY <1>4, <2>1, <2>2, <2>3 DEF Live
<1>6. Fits(d, seen, out)
    BY <1>0, <1>3, <1>4 DEF Fits
<1>7. SettleInv(c, seen) => SettleInv(d, seen)
    BY <1>4 DEF SettleInv, Known, Ending
<1>8. FreshInv(c) => FreshInv(d)
    BY <1>4 DEF FreshInv, Sent
<1> QED  BY <1>1, <1>2, <1>3, <1>4, <1>5, <1>6, <1>7, <1>8 DEF d, Steady

\* What cannot pass is queued, or there is no room for it.
LEMMA QueueOutputKeeps ==
    ASSUME NEW c, NEW seen, Steady(c, seen), c.m.fail = NoTurn, c.m.flow # NoTurn,
           NEW out \in ResponseOutputs, Fits(c, seen, out)
    PROVE  Gated(c, QueueOutput(c, out), seen, out)
<1>0. /\ Base(c, seen) /\ c \in Composites /\ WireInv(seen, c.w.q)
      /\ c.m.queue \in Seq(ResponseOutputs) /\ c.m.flow \in Responses /\ out.g \in Turns
    <2>1. Base(c, seen) /\ c \in Composites /\ WireInv(seen, c.w.q)
        BY DEF Steady, Base, Solid, Piped
    <2> QED  BY <2>1, CompositeParts, OutputIs
<1>1. CASE out.t = "audio" /\ Frames(c.m.queue) = Room
    <2>1. QueueOutput(c, out) = FailPending(c, out.g)
        BY <1>1 DEF QueueOutput
    <2> QED  BY <1>0, <2>1, FailPendingIs DEF Gated
<1>2. CASE ~(out.t = "audio" /\ Frames(c.m.queue) = Room)
    <2> DEFINE q == c.m.queue
               r == Append(q, out)
               d == PutQueue(c, r, c.m.flow)
    <2>1. QueueOutput(c, out) = [c EXCEPT !.m.queue = r]
        <3>1. QueueOutput(c, out) = [c EXCEPT !.m.queue = Append(@, out)]
            BY <1>2 DEF QueueOutput
        <3> QED  BY <1>0, <3>1, Zenon DEF Composites, MediaSessions
    <2>2. r \in Seq(ResponseOutputs)
        BY <1>0
    <2>3. \A t, g : Has(r, t, g) <=> Has(q, t, g) \/ (out.t = t /\ out.g = g)
        BY <1>0, HasAppend
    <2> HIDE DEF r
    <2>4. [c EXCEPT !.m.queue = r] = d
        BY <1>0, Zenon DEF PutQueue, Composites, MediaSessions
    <2>5. c.m.closed => \A g \in Turns : Has(r, "started", g) => Has(c.m.queue, "started", g)
        BY <2>3 DEF Fits, Lives
    <2>6. /\ Base(d, seen) /\ Frame(c, d) /\ (Lives(d) <=> Lives(c))
          /\ d.e = c.e /\ d.a = c.a /\ d.w = c.w /\ d.m.queue = r /\ d.m.flow = c.m.flow
          /\ d.m.active = c.m.active /\ d.m.retired = c.m.retired /\ d.m.fail = NoTurn
          /\ d.m.feedback = c.m.feedback /\ d.m.paused = c.m.paused
        BY <1>0, <2>2, <2>5, QueuePutKeeps
    <2> HIDE DEF d
    <2>7. ASSUME Lives(c)
          PROVE  /\ Live(d, seen) /\ OpenInv(d)
                 /\ SettleInv(c, seen) \/ out.t = "terminal" => SettleInv(d, seen)
                 /\ FreshInv(c) \/ out.t = "terminal" => FreshInv(d)
        <3>1. Live(c, seen)
            BY <2>7 DEF Steady
        <3>2. /\ out.g = c.e.next - 1
              /\ out.t = "terminal" => /\ out.g \in c.e.fired /\ ~Has(q, "terminal", out.g)
                                       /\ c.m.retired < out.g
            BY <2>7 DEF Fits
        <3>3. c.e.next = out.g + 1
            <4>1. c.e.next \in Nat
                BY <1>0, NumbersAre
            <4> QED  BY <3>2, <4>1
        <3>4. QueueInv(r, c.e.next, Final(seen, c.w.q).last, c.e.fired, c.m.feedback)
            <4>1. QueueInv(q, out.g + 1, Final(seen, c.w.q).last, c.e.fired, c.m.feedback)
                BY <3>1, <3>3 DEF Live
            <4>2. out.t = "started" =>
                      /\ Final(seen, c.w.q).last < out.g /\ c.m.feedback[out.g].st = "live"
                      /\ \A i \in 1..Len(q) : q[i].g < out.g
                BY DEF Fits
            <4>3. QueueInv(r, out.g + 1, Final(seen, c.w.q).last, c.e.fired, c.m.feedback)
                BY <1>0, <3>2, <4>1, <4>2, QueueAppend DEF r
            <4> QED  BY <3>3, <4>3
        <3>5. TurnInv(c) /\ TurnInv(d)
            <4>1. TurnInv(c)
                BY <3>1 DEF Live
            <4> QED  BY <2>3, <2>6, <3>2, <4>1 DEF TurnInv
        <3>6. Live(d, seen)
            BY <2>6, <3>1, <3>4, <3>5 DEF Live, FlowInv
        <3>7. OpenInv(d)
            BY <2>6 DEF OpenInv
        <3>8. ASSUME SettleInv(c, seen) \/ out.t = "terminal" PROVE SettleInv(d, seen)
            <4> DEFINE g == c.e.settle.g
            <4>1. SUFFICES ASSUME c.e.settle.phase = "wire", Known(d, seen, g)
                           PROVE  Ending(d, g)
                BY <2>6 DEF SettleInv
            <4>2. g = out.g /\ out.t # "started"
                BY <3>2, <3>5, <4>1 DEF TurnInv, Fits
            <4>3. CASE out.t = "terminal"
                BY <2>3, <2>6, <4>2, <4>3 DEF Ending
            <4>4. CASE out.t # "terminal"
                <5>1. Known(c, seen, g)
                    BY <2>3, <2>6, <4>1, <4>2 DEF Known
                <5>2. Ending(c, g)
                    BY <3>8, <4>1, <4>4, <5>1 DEF SettleInv
                <5> QED  BY <2>3, <2>6, <5>2 DEF Ending
            <4> QED  BY <4>3, <4>4
        <3>9. ASSUME FreshInv(c) \/ out.t = "terminal" PROVE FreshInv(d)
            <4> DEFINE g == c.e.settle.g
            <4>1. SUFFICES ASSUME c.e.settle.phase = "wire", Has(r, "started", g)
                           PROVE  c.m.retired < g \/ Sent(c, g)
                BY <2>6 DEF FreshInv, Sent
            <4>2. g = out.g /\ out.t # "started"
                BY <3>2, <3>5, <4>1 DEF TurnInv, Fits
            <4>3. CASE out.t = "terminal"
                BY <3>2, <4>2, <4>3
            <4>4. CASE out.t # "terminal"
                BY <2>3, <3>9, <4>1, <4>2, <4>4 DEF FreshInv
            <4> QED  BY <4>3, <4>4
        <3> QED  BY <3>6, <3>7, <3>8, <3>9
    <2>8. Gated(c, d, seen, out)
        BY <2>6, <2>7 DEF Gated, Steady
    <2> QED  BY <2>1, <2>4, <2>8
<1> QED  BY <1>1, <1>2

\* Out of an open gate goes what is not an end.
LEMMA EmitKeeps ==
    ASSUME NEW c, NEW seen, Steady(c, seen), c.m.fail = NoTurn, ~c.m.paused,
           NEW out \in ResponseOutputs, c.m.flow = out.g, out.t # "terminal",
           Fits(c, seen, out)
    PROVE  Gated(c, Emit(c, out), seen, out)
<1> DEFINE d == Deliver(c, out)
<1>0. /\ Base(c, seen) /\ c \in Composites /\ WireInv(seen, c.w.q)
      /\ out.g \in Turns /\ out.g # NoTurn /\ out.g \in Nat
    <2>1. Base(c, seen) /\ c \in Composites /\ WireInv(seen, c.w.q)
        BY DEF Steady, Base, Solid, Piped
    <2> QED  BY <2>1, OutputIs DEF Turns
<1>1. Emit(c, out) = d
    BY DEF Deliver
<1>2. Passes(c, seen, out)
    <2>1. ASSUME out.t = "started"
          PROVE  /\ Lives(c) /\ EmitStarts(c, seen, out) /\ c.m.feedback[out.g].st = "live"
                 /\ out.g < c.e.next /\ \A g \in Turns : Has(c.m.queue, "started", g) => out.g < g
        <3>1. /\ Lives(c) /\ Final(seen, c.w.q).last < out.g
              /\ c.m.queue = <<>> /\ c.m.feedback[out.g].st = "live" /\ out.g = c.e.next - 1
            BY <1>0, <2>1 DEF Fits
        <3>2. Talks(c)
            BY <1>0, <3>1 DEF Base, Lives, Talks
        <3>3. c.a.active \in {NoTurn, out.g}
            BY <3>1 DEF Steady, Live, FlowInv
        <3>4. c.a.active # out.g
            <4>1. Final(seen, c.w.q).open = c.a.active
                BY <1>0, <3>2 DEF Base, Solid, Piped, AgreesInv
            <4>2. /\ Final(seen, c.w.q).open \in {NoTurn, Final(seen, c.w.q).last}
                  /\ Final(seen, c.w.q).last \in Nat
                BY <1>0, FinalIs
            <4> QED  BY <1>0, <3>1, <4>1, <4>2
        <3>5. c.e.next \in Nat
            BY <1>0, NumbersAre
        <3>6. \A g \in Turns : ~Has(c.m.queue, "started", g)
            BY <3>1, HasNothing
        <3> QED  BY <1>0, <3>1, <3>2, <3>3, <3>4, <3>5, <3>6 DEF EmitStarts
    <2> QED  BY <2>1 DEF Passes
<1>3. /\ Steady(d, seen) /\ Frame(c, d)
      /\ d.m.queue = c.m.queue /\ d.m.flow = c.m.flow /\ d.m.retired = c.m.retired
      /\ Lives(c) /\ Settles(c, seen, out) => SettleInv(d, seen)
      /\ Lives(c) => \A g \in Turns : Sent(c, g) => Sent(d, g)
    BY <1>2, PassKeeps
<1> HIDE DEF d
<1>4. Lives(d) => Lives(c)
    BY <1>3 DEF Frame, Lives
<1>5. OpenInv(d)
    BY <1>0, <1>3 DEF OpenInv
<1>6. ASSUME Lives(c), SettleInv(c, seen) PROVE SettleInv(d, seen)
    BY <1>3, <1>6 DEF Settles, Fits
<1>7. ASSUME Lives(c), FreshInv(c) PROVE FreshInv(d)
    <2>1. c.e.settle.phase = "wire" => c.e.settle.g \in Turns
        <3>1. c.e.settle.phase = "wire" => c.e.settle.g \in c.e.fired
            BY <1>7 DEF Steady, Live, TurnInv
        <3>2. c.e.fired \in SUBSET Turns
            BY <1>0, CompositeParts
        <3> QED  BY <3>1, <3>2
    <2> QED  BY <1>3, <1>7, <2>1 DEF FreshInv, Frame
<1> QED  BY <1>1, <1>3, <1>4, <1>5, <1>6, <1>7 DEF Gated

\* After the end of a response comes what waited behind it.
LEMMA EndKeeps ==
    ASSUME NEW c, NEW seen, Steady(c, seen), c.m.fail = NoTurn,
           NEW out \in ResponseOutputs, c.m.flow = out.g, out.t = "terminal",
           Lives(c) => /\ out.g = c.e.next - 1 /\ out.g \in c.e.fired
                       /\ ~Has(c.m.queue, "terminal", out.g),
           ~Destructive(out) => ~c.m.paused,
           Destructive(out) => ~Has(c.m.queue, "started", out.g)
    PROVE  Gated(c, Pass(c, out), seen, out)
<1> DEFINE y == Deliver(c, out)
           d == Flush(y)
           g == out.g
<1>0. /\ Base(c, seen) /\ c \in Composites /\ WireInv(seen, c.w.q) /\ g \in Turns
      /\ g # NoTurn /\ g \in Nat
    <2>1. Base(c, seen) /\ c \in Composites /\ WireInv(seen, c.w.q)
        BY DEF Steady, Base, Solid, Piped
    <2> QED  BY <2>1, OutputIs DEF Turns
<1>1. Pass(c, out) = d
    BY DEF Pass
<1>2. Passes(c, seen, out)
    BY DEF Passes
<1>3. /\ Steady(y, seen) /\ Frame(c, y)
      /\ y.m.queue = c.m.queue /\ y.m.flow = NoTurn /\ y.m.fail = NoTurn
      /\ y.m.retired = IF g > c.m.retired THEN g ELSE c.m.retired
      /\ Lives(c) /\ Settles(c, seen, out) => SettleInv(y, seen)
      /\ Lives(c) /\ c.a.active = g => Sent(y, g)
    BY <1>2, PassKeeps
<1>4. c.a.active # g => y.m.paused = c.m.paused
    <2>1. ASSUME c.a.active # g PROVE Emit(c, out) = c
        BY <2>1 DEF Emit, ResponseTerminal
    <2>2. ASSUME c.a.active # g PROVE y = FreeFlow(c, g)
        BY <2>1, <2>2 DEF Deliver
    <2> QED  BY <1>0, <2>2, FreeFlowIs
<1> HIDE DEF y
<1>5. /\ Steady(d, seen) /\ Frame(y, d)
      /\ Lives(d) /\ SettleInv(y, seen) => SettleInv(d, seen)
      /\ Lives(d) /\ FreshInv(y) => FreshInv(d)
      /\ OpenInv(d)
    BY <1>3, FlushKeeps
<1>6. c.e.next \in Nat /\ c.m.retired \in Nat
    BY <1>0, NumbersAre
<1>7. y.m.queue \in Seq(ResponseOutputs) /\ y \in Composites
    <2>1. y \in Composites
        BY <1>3 DEF Steady, Base, Solid, Piped
    <2> QED  BY <2>1, CompositeParts
<1>8. ASSUME Lives(d)
      PROVE  SettleInv(d, seen) /\ FreshInv(d)
    <2>1. Lives(c) /\ Lives(y)
        BY <1>3, <1>5, <1>8 DEF Frame, Lives
    <2>2. /\ g = c.e.next - 1 /\ g \in c.e.fired
          /\ c.e.settle.phase = "wire" => c.e.settle.g = g
        BY <2>1 DEF Steady, Live, TurnInv
    <2>3. SettleInv(d, seen)
        BY <1>3, <1>5, <1>8, <2>1, <2>2 DEF Settles
    <2>4. CASE Sent(y, g)
        <3>1. FreshInv(y)
            BY <1>3, <2>2, <2>4 DEF FreshInv, Frame
        <3> QED  BY <1>5, <1>8, <2>3, <3>1
    <2>5. CASE Destructive(out)
        <3>1. FreshInv(y)
            BY <1>3, <2>2, <2>5 DEF FreshInv, Frame
        <3> QED  BY <1>5, <1>8, <2>3, <3>1
    <2>6. CASE ~Sent(y, g) /\ ~Destructive(out)
        <3>1. ~y.m.paused
            BY <1>3, <1>4, <2>1, <2>6
        <3>2. \A i \in 1..Len(y.m.queue) : y.m.queue[i].g <= y.m.retired
            <4>1. TAKE i \in 1..Len(y.m.queue)
            <4>2. y.m.queue[i].g < c.e.next
                BY <1>3, <2>1, <4>1 DEF Steady, Live, QueueInv
            <4>3. y.m.queue[i].g \in Nat
                BY <1>7, <4>1, OutputIs DEF Turns
            <4> QED  BY <1>0, <1>3, <1>6, <2>2, <4>2, <4>3, SMTT(30)
        <3>3. d.m.queue = <<>>
            BY <1>7, <3>1, <3>2, FlushDrops
        <3> HIDE DEF d
        <3>4. FreshInv(d)
            BY <3>3, HasNothing DEF FreshInv
        <3> QED  BY <2>3, <3>4
    <2> QED  BY <2>4, <2>5, <2>6
<1>9. Frame(c, d)
    BY <1>3, <1>5, FrameChain
<1> HIDE DEF d
<1> QED  BY <1>1, <1>5, <1>8, <1>9 DEF Gated

\* A destructive end drops what the gate holds of its response.
LEMMA DropKeeps ==
    ASSUME NEW c, NEW seen, Steady(c, seen), c.m.fail = NoTurn, NEW g \in Turns,
           Lives(c) => g = c.e.next - 1 /\ g \in c.e.fired
    PROVE  LET d == Drop(c, g)
           IN /\ Steady(d, seen) /\ Frame(c, d) /\ (Lives(d) <=> Lives(c))
              /\ d.e = c.e /\ d.m.flow = c.m.flow /\ d.m.fail = NoTurn
              /\ \A t : ~Has(d.m.queue, t, g)
<1> DEFINE q == c.m.queue
           r == Without(q, g)
           x == PutQueue(c, r, c.m.flow)
           d == Retire(x, g)
<1>0. /\ Base(c, seen) /\ c \in Composites /\ WireInv(seen, c.w.q)
      /\ q \in Seq(ResponseOutputs) /\ c.m.flow \in Responses /\ g \in Responses
    <2>1. Base(c, seen) /\ c \in Composites /\ WireInv(seen, c.w.q)
        BY DEF Steady, Base, Solid, Piped
    <2> QED  BY <2>1, CompositeParts DEF Responses
<1>1. /\ r \in Seq(ResponseOutputs)
      /\ \A t : ~Has(r, t, g)
      /\ \A t, h : Has(r, t, h) => Has(q, t, h)
      /\ \A next, last, fired, fb :
            QueueInv(q, next, last, fired, fb) => QueueInv(r, next, last, fired, fb)
    BY <1>0, QueueWithout
<1>2. Drop(c, g) = d
    <2>1. [c EXCEPT !.m.queue = Without(@, g)] = [c EXCEPT !.m.queue = r]
        BY <1>0, Zenon DEF Composites, MediaSessions
    <2> HIDE DEF r
    <2>2. [c EXCEPT !.m.queue = r] = x
        BY <1>0, Zenon DEF PutQueue, Composites, MediaSessions
    <2>3. Drop(c, g) = Retire([c EXCEPT !.m.queue = Without(@, g)], g)
        BY DEF Drop
    <2> HIDE DEF x
    <2>4. [c EXCEPT !.m.queue = Without(@, g)] = x
        BY <2>1, <2>2
    <2> QED  BY <2>3, <2>4, Zenon
<1> HIDE DEF r
<1>3. /\ Base(x, seen) /\ Frame(c, x) /\ (Lives(x) <=> Lives(c))
      /\ x.e = c.e /\ x.a = c.a /\ x.w = c.w /\ x.m.queue = r /\ x.m.flow = c.m.flow
      /\ x.m.active = c.m.active /\ x.m.retired = c.m.retired /\ x.m.fail = NoTurn
      /\ x.m.feedback = c.m.feedback /\ x.m.paused = c.m.paused
    BY <1>0, <1>1, QueuePutKeeps
<1> HIDE DEF x
<1>4. /\ d \in Composites /\ d.e = x.e /\ d.a = x.a /\ d.w = x.w
      /\ d.m.closed = x.m.closed /\ d.m.tearing = x.m.tearing
      /\ d.m.speaking = x.m.speaking /\ d.m.active = x.m.active
      /\ d.m.flow = x.m.flow /\ d.m.paused = x.m.paused /\ d.m.by = x.m.by
      /\ d.m.queue = x.m.queue /\ d.m.fail = x.m.fail /\ d.m.ending = x.m.ending
      /\ d.m.feedback = x.m.feedback
      /\ d.m.retired = IF g > x.m.retired THEN g ELSE x.m.retired
    <2>1. x \in Composites
        BY <1>3 DEF Base, Solid, Piped
    <2> QED  BY <2>1, RetireIs
<1> HIDE DEF d
<1>5. Base(d, seen)
    <2>1. Piped(d, seen)
        BY <1>3, <1>4 DEF Base, Solid, Piped, GateInv, AgreesInv, Talks
    <2>2. Solid(d, seen)
        BY <1>3, <1>4, <2>1 DEF Base, Solid
    <2> QED  BY <1>3, <1>4, <2>2 DEF Base
<1>6. Frame(c, d) /\ (Lives(d) <=> Lives(c))
    BY <1>3, <1>4 DEF Frame, Lives
<1>7. ASSUME Lives(c) PROVE Live(d, seen)
    <2>1. Live(c, seen) /\ g = c.e.next - 1 /\ g \in c.e.fired
        BY <1>7 DEF Steady
    <2>2. QueueInv(d.m.queue, d.e.next, Final(seen, d.w.q).last, d.e.fired, d.m.feedback)
        BY <1>1, <1>3, <1>4, <2>1 DEF Live
    <2>3. FlowInv(d, Final(seen, d.w.q).last)
        BY <1>3, <1>4, <2>1 DEF Live, FlowInv
    <2>4. TurnInv(d)
        <3>1. TurnInv(c)
            BY <2>1 DEF Live
        <3>2. d.e = c.e /\ d.m.active = c.m.active /\ d.m.queue = r
              /\ d.m.retired \in {g, c.m.retired}
            BY <1>3, <1>4
        <3> QED  BY <1>1, <2>1, <3>1, <3>2 DEF TurnInv
    <2> QED  BY <1>3, <1>4, <2>1, <2>2, <2>3, <2>4 DEF Live
<1> QED  BY <1>1, <1>2, <1>3, <1>4, <1>5, <1>6, <1>7 DEF Steady

LEMMA GatedChain ==
    ASSUME NEW c, NEW d, NEW f, NEW seen, NEW out,
           Frame(c, d), Gated(d, f, seen, out), Lives(d) => Lives(c),
           Lives(c) /\ SettleInv(c, seen) => SettleInv(d, seen) \/ out.t = "terminal",
           Lives(c) /\ FreshInv(c) => FreshInv(d) \/ out.t = "terminal"
    PROVE  Gated(c, f, seen, out)
<1>1. Frame(c, f) /\ (Lives(f) => Lives(d))
    BY FrameChain DEF Gated, Frame, Lives
<1> QED  BY <1>1 DEF Gated

\* Whatever comes to the gate leaves the composite sound.
LEMMA GateKeeps ==
    ASSUME NEW c, NEW seen, Steady(c, seen), Lives(c) => OpenInv(c),
           NEW out \in ResponseOutputs, Fits(c, seen, out)
    PROVE  Gated(c, Gate(c, out), seen, out)
<1>0. Base(c, seen) /\ out.g \in Turns /\ c \in Composites /\ WireInv(seen, c.w.q)
    BY OutputIs DEF Steady, Base, Solid, Piped
<1>1. CASE Retired(c, out.g)
    <2>1. Gate(c, out) = c
        BY <1>1 DEF Gate
    <2>2. Lives(c) => out.t # "terminal"
        <3>1. c.m.retired \in Nat
            BY <1>0, NumbersAre
        <3>2. out.g \in Nat
            BY <1>0 DEF Turns
        <3> QED  BY <1>1, <3>1, <3>2 DEF Fits, Retired
    <2>3. Frame(c, c)
        BY DEF Frame
    <2> QED  BY <2>1, <2>2, <2>3 DEF Gated
<1>2. CASE ~Retired(c, out.g) /\ c.m.flow = NoTurn /\ out.t # "started"
    <2>1. Gate(c, out) = FailPending(c, out.g)
        BY <1>2 DEF Gate
    <2> QED  BY <1>0, <2>1, FailPendingIs DEF Gated
<1>3. CASE ~Retired(c, out.g) /\ (c.m.flow = NoTurn => out.t = "started")
    <2> DEFINE f == IF c.m.flow = NoTurn THEN out.g ELSE c.m.flow
               d == PutQueue(c, c.m.queue, f)
    <2>1. c.m.fail = NoTurn
        BY <1>0, <1>3 DEF Base, Solid, Fits, Lives
    <2>2. /\ [c EXCEPT !.m.flow = IF @ = NoTurn THEN out.g ELSE @] = d
          /\ Steady(d, seen) /\ Frame(c, d) /\ Fits(d, seen, out) /\ (Lives(d) <=> Lives(c))
          /\ d.e = c.e /\ d.a = c.a /\ d.w = c.w /\ d.m.queue = c.m.queue /\ d.m.flow = f
          /\ d.m.retired = c.m.retired /\ d.m.fail = NoTurn /\ f # NoTurn
          /\ (SettleInv(c, seen) => SettleInv(d, seen)) /\ (FreshInv(c) => FreshInv(d))
        BY <1>3, <2>1, FlowTaken
    <2>3. Gate(c, out) = IF out.g # d.m.flow \/ (d.m.paused /\ ~Destructive(out))
                         THEN QueueOutput(d, out)
                         ELSE Pass(IF Destructive(out) THEN Drop(d, out.g) ELSE d, out)
        <3> DEFINE z == [c EXCEPT !.m.flow = IF @ = NoTurn THEN out.g ELSE @]
        <3>1. Gate(c, out) = IF out.g # z.m.flow \/ (z.m.paused /\ ~Destructive(out))
                             THEN QueueOutput(z, out)
                             ELSE Pass(IF Destructive(out) THEN Drop(z, out.g) ELSE z, out)
            BY <1>3 DEF Gate
        <3> HIDE DEF d
        <3>2. z = d
            BY <2>2
        <3> HIDE DEF z
        <3> QED  BY <3>1, <3>2
    <2> HIDE DEF d
    <2>4. CASE out.g # d.m.flow \/ (d.m.paused /\ ~Destructive(out))
        <3>1. Gated(d, QueueOutput(d, out), seen, out)
            BY <2>2, QueueOutputKeeps
        <3>2. Gate(c, out) = QueueOutput(d, out)
            BY <2>3, <2>4
        <3> QED  BY <2>2, <3>1, <3>2, GatedChain
    <2>5. CASE out.g = d.m.flow /\ ~d.m.paused /\ ~Destructive(out)
        <3>1. Gate(c, out) = Pass(d, out)
            BY <2>3, <2>5
        <3>2. Gated(d, Pass(d, out), seen, out)
            <4>1. CASE out.t = "terminal"
                BY <2>2, <2>5, <4>1, EndKeeps DEF Fits
            <4>2. CASE out.t # "terminal"
                <5>1. Pass(d, out) = Emit(d, out)
                    BY <4>2 DEF Pass
                <5> QED  BY <2>2, <2>5, <4>2, <5>1, EmitKeeps
            <4> QED  BY <4>1, <4>2
        <3> QED  BY <2>2, <3>1, <3>2, GatedChain
    <2>6. CASE out.g = d.m.flow /\ Destructive(out)
        <3> DEFINE x == Drop(d, out.g)
        <3>0. out.t = "terminal"
            BY <2>6 DEF Destructive
        <3>1. Gate(c, out) = Pass(x, out)
            BY <2>3, <2>6
        <3>2. /\ Steady(x, seen) /\ Frame(d, x) /\ (Lives(x) <=> Lives(d))
              /\ x.e = d.e /\ x.m.flow = d.m.flow /\ x.m.fail = NoTurn
              /\ \A t : ~Has(x.m.queue, t, out.g)
            <4>1. Lives(d) => out.g = d.e.next - 1 /\ out.g \in d.e.fired
                BY <2>2, <3>0 DEF Fits
            <4>2. Steady(d, seen) /\ d.m.fail = NoTurn /\ out.g \in Turns
                BY <1>0, <2>2
            <4> HIDE DEF f
            <4> DEFINE g == out.g
            <4> HIDE DEF g
            <4>3. LET b == Drop(d, g)
                  IN /\ Steady(b, seen) /\ Frame(d, b) /\ (Lives(b) <=> Lives(d))
                     /\ b.e = d.e /\ b.m.flow = d.m.flow /\ b.m.fail = NoTurn
                     /\ \A t : ~Has(b.m.queue, t, g)
                BY <4>1, <4>2, DropKeeps DEF g
            <4> QED  BY <4>3 DEF g
        <3> HIDE DEF x
        <3>3. Gated(x, Pass(x, out), seen, out)
            <4>1. Lives(x) => out.g = x.e.next - 1 /\ out.g \in x.e.fired
                BY <2>2, <3>0, <3>2 DEF Fits
            <4> QED  BY <2>6, <3>0, <3>2, <4>1, EndKeeps
        <3>4. Frame(c, x)
            BY <2>2, <3>2, FrameChain
        <3>5. Lives(x) => Lives(c)
            BY <2>2, <3>2
        <3> HIDE DEF f
        <3> QED  BY <3>0, <3>1, <3>3, <3>4, <3>5, GatedChain
    <2> QED  BY <2>4, <2>5, <2>6
<1> QED  BY <1>1, <1>2, <1>3

-----------------------------------------------------------------------------
(* The engine                                                              *)

\* The gate, the adapter and the writer are as they were.
SameGate(c, d) ==
    /\ d \in Composites /\ d.a = c.a /\ d.w = c.w
    /\ d.m.closed = c.m.closed /\ d.m.active = c.m.active /\ d.m.flow = c.m.flow
    /\ d.m.paused = c.m.paused /\ d.m.by = c.m.by /\ d.m.queue = c.m.queue
    /\ d.m.retired = c.m.retired /\ d.m.fail = c.m.fail
    /\ d.m.feedback = c.m.feedback
    /\ d.m.ending => c.m.ending \/ c.m.closed

\* The engine has at most dropped its turn, or its settlement.
Minor(c, d) ==
    /\ SameGate(c, d)
    /\ d.e.next = c.e.next /\ d.e.fired = c.e.fired
    /\ d.e.turn \in {c.e.turn, NoTurn} /\ (d.e.stream => c.e.stream)
    /\ d.e.settle = c.e.settle \/ d.e.settle.phase # "wire"

LEMMA SameGateKeeps ==
    ASSUME NEW c, NEW d, NEW seen, SameGate(c, d)
    PROVE  /\ Solid(c, seen) => Solid(d, seen)
           /\ Base(c, seen) => Base(d, seen)
           /\ Lives(d) <=> Lives(c)
           /\ OpenInv(d) <=> OpenInv(c)
<1>1. ASSUME Solid(c, seen) PROVE Solid(d, seen)
    <2>1. Piped(d, seen)
        BY <1>1 DEF SameGate, Solid, Piped, AgreesInv, GateInv, Talks
    <2> QED  BY <1>1, <2>1 DEF SameGate, Solid
<1>2. ASSUME Base(c, seen) PROVE Base(d, seen)
    BY <1>1, <1>2 DEF SameGate, Base
<1> QED  BY <1>1, <1>2 DEF SameGate, Lives, OpenInv

LEMMA MinorKeeps ==
    ASSUME NEW c, NEW d, NEW seen, Minor(c, d)
    PROVE  /\ Steady(c, seen) => Steady(d, seen)
           /\ Lives(d) <=> Lives(c)
           /\ OpenInv(d) <=> OpenInv(c)
           /\ d.e.settle.phase # "wire" => SettleInv(d, seen) /\ FreshInv(d)
           /\ Sound(c, seen) => Sound(d, seen)
<1>1. /\ Base(c, seen) => Base(d, seen)
      /\ Lives(d) <=> Lives(c)
      /\ OpenInv(d) <=> OpenInv(c)
    BY SameGateKeeps DEF Minor
<1>2. ASSUME Steady(c, seen), Lives(c) PROVE Live(d, seen)
    <2>1. Live(c, seen) /\ c \in Composites
        BY <1>2 DEF Steady, Base, Solid, Piped
    <2>2. QueueInv(d.m.queue, d.e.next, Final(seen, d.w.q).last, d.e.fired, d.m.feedback)
        BY <2>1 DEF Live, Minor, SameGate
    <2>3. FeedbackInv(d.m.feedback, seen, d.w.q) /\ FlowInv(d, Final(seen, d.w.q).last)
        BY <2>1 DEF Live, Minor, SameGate, FlowInv
    <2>4. TurnInv(d)
        <3>1. NoTurn \notin c.e.fired
            BY <2>1, CompositeParts DEF Turns, NoTurn
        <3>2. TurnInv(c)
            BY <2>1 DEF Live
        <3>3. /\ d.m.active = c.m.active /\ d.m.retired = c.m.retired /\ d.m.queue = c.m.queue
              /\ d.e.next = c.e.next /\ d.e.fired = c.e.fired
              /\ d.e.turn \in {c.e.turn, NoTurn} /\ (d.e.stream => c.e.stream)
              /\ d.e.settle = c.e.settle \/ d.e.settle.phase # "wire"
            BY DEF Minor, SameGate
        <3> QED  BY <3>1, <3>2, <3>3 DEF TurnInv
    <2> QED  BY <2>2, <2>3, <2>4 DEF Live
<1>3. d.e.settle.phase # "wire" => SettleInv(d, seen) /\ FreshInv(d)
    BY DEF SettleInv, FreshInv
<1>4. d.e.settle = c.e.settle /\ SettleInv(c, seen) => SettleInv(d, seen)
    BY DEF Minor, SameGate, SettleInv, Known, Ending
<1>5. d.e.settle = c.e.settle /\ FreshInv(c) => FreshInv(d)
    BY DEF Minor, SameGate, FreshInv, Sent
<1>6. Steady(c, seen) => Steady(d, seen)
    BY <1>1, <1>2 DEF Steady
<1>7. Sound(c, seen) => Sound(d, seen)
    BY <1>1, <1>3, <1>4, <1>5, <1>6 DEF Sound, Minor
<1> QED  BY <1>1, <1>3, <1>6, <1>7

LEMMA MinorChain ==
    ASSUME NEW c, NEW d, NEW f, Minor(c, d), Minor(d, f)
    PROVE  Minor(c, f)
<1>1. SameGate(c, f)
    BY DEF Minor, SameGate
<1> QED  BY <1>1 DEF Minor

\* Around an operation of the engine the session goes on as it did.
Around(c, d) ==
    /\ d.m.closed = c.m.closed /\ d.m.tearing = c.m.tearing
    /\ c.m.fail # NoTurn => d.m.fail # NoTurn

LEMMA IdleIs ==
    ASSUME NEW c \in Composites
    PROVE  LET d == Idle(c)
           IN /\ Minor(c, d) /\ d.e.turn = NoTurn /\ ~d.e.stream /\ d.e.settle = c.e.settle
              /\ d.m = c.m /\ d.e.gpu = c.e.gpu /\ d.e.held = c.e.held
              /\ d.e.interrupted = c.e.interrupted
<1>1. NoTurn \in Responses /\ 0 \in Nat /\ 0 \in Int
    BY DEF Responses
<1> DEFINE d == Idle(c)
<1>2. /\ d \in Composites /\ d.m = c.m /\ d.a = c.a /\ d.w = c.w
      /\ d.e.next = c.e.next /\ d.e.fired = c.e.fired /\ d.e.turn = NoTurn
      /\ d.e.stream = FALSE /\ d.e.settle = c.e.settle /\ d.e.gpu = c.e.gpu
      /\ d.e.held = c.e.held /\ d.e.interrupted = c.e.interrupted
    BY <1>1, ZenonT(60) DEF Idle, Composites, Engines
<1> HIDE DEF d
<1>3. Minor(c, d)
    BY <1>2 DEF Minor, SameGate
<1> QED  BY <1>2, <1>3 DEF d

\* An output of no response is sent at once.
LEMMA NoteKeeps ==
    ASSUME NEW c, NEW seen, Base(c, seen)
    PROVE  LET d == Note(c)
           IN /\ Base(d, seen) /\ Around(c, d)
              /\ d.e = c.e /\ d.m.active = c.m.active /\ d.m.fail = c.m.fail
              /\ Steady(c, seen) => Steady(d, seen)
              /\ (Lives(c) => OpenInv(c)) => (Lives(d) => OpenInv(d))
              /\ Sound(c, seen) => Sound(d, seen)
<1> DEFINE out == Output("note", 0, FALSE)
           msg == Message("note", 0, 0)
           d == Enqueue(c, msg)
<1>0. c \in Composites /\ GateInv(c) /\ WireInv(seen, c.w.q) /\ Solid(c, seen) /\ Piped(c, seen)
    BY DEF Base, Solid, Piped
<1>1. CASE c.m.closed
    <2>1. Note(c) = c
        BY <1>1 DEF Note
    <2> QED  BY <2>1 DEF Around
<1>2. CASE ~c.m.closed
    <2>1. c.a.close = "open" /\ Talks(c)
        BY <1>2 DEF Base, Talks
    <2>2. Note(c) = d
        <3>1. out.t = "note"
            BY DEF Output
        <3>2. Note(c) = Emit(c, out)
            BY <1>2 DEF Note
        <3>3. Emit(c, out) = d
            BY <2>1, <3>1 DEF Emit
        <3> QED  BY <3>2, <3>3
    <2>3. msg \in WireMessages /\ msg.t = "note"
        BY MessageIs
    <2> HIDE DEF msg
    <2>4. /\ Below(c, d) /\ GateInv(d)
          /\ d.a.active = c.a.active /\ d.a.produced = c.a.produced
          /\ d.a.tripped = c.a.tripped
          /\ d.w.q = Append(c.w.q, msg)
          /\ d.a.timers = c.a.timers /\ d.a.close = c.a.close
        BY <1>0, <2>1, <2>3, EnqueueIs
    <2> HIDE DEF d
    <2>5. WireInv(seen, d.w.q) /\ Final(seen, d.w.q) = Final(seen, c.w.q)
        <3>1. Legal(Final(seen, c.w.q), msg)
            BY <2>3 DEF Legal
        <3>2. After(Final(seen, c.w.q), msg) = Final(seen, c.w.q)
            BY <2>3 DEF After
        <3> QED  BY <1>0, <2>3, <2>4, <3>1, <3>2, WireAppend
    <2>6. \A t, g : t # "note" => (Has(d.w.q, t, g) <=> Has(c.w.q, t, g))
        <3>1. c.w.q \in Seq(WireMessages)
            BY <1>0, CompositeParts
        <3> QED  BY <2>3, <2>4, <3>1, HasAppend
    <2>7. d \in Composites /\ d.e = c.e
          /\ d.m.closed = c.m.closed /\ d.m.tearing = c.m.tearing
          /\ d.m.active = c.m.active /\ d.m.flow = c.m.flow /\ d.m.queue = c.m.queue
          /\ d.m.retired = c.m.retired /\ d.m.fail = c.m.fail /\ d.m.ending = c.m.ending
          /\ d.m.feedback = c.m.feedback
          /\ d.a.fatal = c.a.fatal /\ d.a.soon = c.a.soon /\ d.w.failed = c.w.failed
        BY <2>4 DEF Below
    <2>8. Base(d, seen)
        <3>1. AgreesInv(d, seen)
            BY <1>0, <2>4, <2>5, <2>7 DEF AgreesInv, Piped, Talks
        <3>2. Piped(d, seen)
            BY <1>0, <2>4, <2>5, <2>6, <2>7, <3>1 DEF Piped
        <3>3. Solid(d, seen)
            BY <1>0, <2>7, <3>2 DEF Solid
        <3> QED  BY <2>4, <2>7, <3>3 DEF Base
    <2>9. ASSUME Steady(c, seen), Lives(c) PROVE Live(d, seen)
        <3>1. Live(c, seen)
            BY <2>9 DEF Steady
        <3>2. QueueInv(d.m.queue, d.e.next, Final(seen, d.w.q).last, d.e.fired, d.m.feedback)
            BY <2>5, <2>7, <3>1 DEF Live
        <3>3. FeedbackInv(d.m.feedback, seen, d.w.q)
            BY <2>6, <2>7, <3>1 DEF Live, FeedbackInv
        <3>4. FlowInv(d, Final(seen, d.w.q).last)
            BY <2>4, <2>5, <2>7, <3>1 DEF Live, FlowInv
        <3>5. TurnInv(d)
            BY <2>7, <3>1 DEF Live, TurnInv
        <3> QED  BY <3>2, <3>3, <3>4, <3>5 DEF Live
    <2>10. Lives(d) <=> Lives(c)
        BY <2>7 DEF Lives
    <2>11. SettleInv(c, seen) => SettleInv(d, seen)
        BY <2>4, <2>5, <2>6, <2>7 DEF SettleInv, Known, Ending
    <2>12. FreshInv(c) => FreshInv(d)
        BY <2>4, <2>6, <2>7 DEF FreshInv, Sent
    <2>13. OpenInv(c) /\ Lives(c) => OpenInv(d)
        <3>1. ~d.m.paused => ~c.m.paused
            <4>1. d = CheckHigh([c EXCEPT !.w.q = Append(@, msg)])
                BY <2>1 DEF d, Enqueue, Talks
            <4> DEFINE x == [c EXCEPT !.w.q = Append(@, msg)]
            <4>2. x.m = c.m /\ x.a = c.a
                BY <1>0, Zenon DEF Composites
            <4> HIDE DEF x
            <4>3. d = CheckHigh(x)
                BY <4>1 DEF x
            <4>4. d.m.paused \in {x.m.paused, TRUE}
                <5>1. x \in Composites
                    <6>1. c.w \in Writers /\ Append(c.w.q, msg) \in Seq(WireMessages)
                        BY <1>0, <2>3, CompositeParts
                    <6> QED  BY <1>0, <6>1, Zenon DEF x, Composites, Writers
                <5> DEFINE y == [x EXCEPT !.w.paused = TRUE]
                           g == y.a.active
                           z == [y EXCEPT !.a.pausedGen = g]
                <5>2. y.m = x.m /\ y.a = x.a /\ y \in Composites
                    BY <5>1, Zenon DEF Composites, Writers
                <5> HIDE DEF y
                <5>3. z.m = y.m /\ z \in Composites
                    <6>1. g \in Responses
                        BY <5>2, CompositeParts
                    <6> HIDE DEF g
                    <6> QED  BY <5>2, <6>1, Zenon DEF Composites, Adapters
                <5> HIDE DEF z
                <5>4. PauseFlow(z, g).m.paused \in {z.m.paused, TRUE}
                    <6>1. [z EXCEPT !.m.paused = TRUE, !.m.by = g].m.paused = TRUE
                        BY <5>3, Zenon DEF Composites, MediaSessions
                    <6> HIDE DEF g
                    <6> QED  BY <6>1 DEF PauseFlow
                <5>5. PauseGeneration(y, g) = y \/ PauseGeneration(y, g) = PauseFlow(z, g)
                    BY DEF PauseGeneration, z
                <5>6. d = x \/ d = y \/ d = PauseGeneration(y, g)
                    BY <4>3, <5>2 DEF CheckHigh, y
                <5> QED  BY <5>2, <5>3, <5>4, <5>5, <5>6
            <4> QED  BY <4>2, <4>4
        <3> QED  BY <2>7, <3>1 DEF OpenInv
    <2>14. Steady(c, seen) => Steady(d, seen)
        BY <2>8, <2>9, <2>10 DEF Steady
    <2> QED  BY <2>2, <2>7, <2>8, <2>10, <2>11, <2>12, <2>13, <2>14 DEF Around, Sound
<1> QED  BY <1>1, <1>2

LEMMA NewTurnIs ==
    ASSUME NEW c \in Composites, NEW kind, c.e.next <= MaxTurns
    PROVE  LET d == NewTurn(c, kind)
           IN /\ d \in Composites /\ d.m = c.m /\ d.a = c.a /\ d.w = c.w
              /\ d.e.turn = c.e.next /\ d.e.next = c.e.next + 1
              /\ d.e.fired = c.e.fired /\ d.e.settle = c.e.settle
              /\ c.e.next \in Turns /\ c.e.next \in Nat
<1>1. c.e.next \in 1..MaxTurns + 1 /\ c.e.held \in BOOLEAN
    BY DEF Composites, Engines
<1>2. c.e.next \in Turns /\ c.e.next \in Nat /\ c.e.next + 1 \in 1..MaxTurns + 1
    BY <1>1, DeliveryAssumption DEF Turns, DeliveryAssumption
<1> DEFINE h == c.e.held /\ kind # "user"
           n == c.e.next + 1
           s == kind # "direct"
           k == kind = "direct"
           t == c.e.next
           e == [c.e EXCEPT !.turn = t, !.next = n, !.stream = s, !.direct = k, !.said = 0,
                            !.left = 0, !.heard = FALSE, !.held = h]
           d == [c EXCEPT !.e = e]
<1>3. NewTurn(c, kind) = d
    BY ZenonT(60) DEF NewTurn, Composites, Engines
<1>4. h \in BOOLEAN /\ s \in BOOLEAN /\ k \in BOOLEAN
    BY <1>1
<1>5. n \in 1..MaxTurns + 1 /\ t \in Responses /\ 0 \in Nat /\ 0 \in Int /\ c.e \in Engines
    BY <1>2, CompositeParts DEF Responses
<1>6. d = [c EXCEPT !.e = e] /\ n = c.e.next + 1 /\ t = c.e.next
    OBVIOUS
<1> HIDE DEF h, n, s, k, t
<1>7. /\ e \in Engines /\ e.turn = t /\ e.next = n
      /\ e.fired = c.e.fired /\ e.settle = c.e.settle
    BY <1>4, <1>5, ZenonT(60) DEF Engines
<1> HIDE DEF e
<1>8. d \in Composites /\ d.m = c.m /\ d.a = c.a /\ d.w = c.w /\ d.e = e
    BY <1>7, Zenon DEF Composites
<1> HIDE DEF d
<1> QED  BY <1>2, <1>3, <1>6, <1>7, <1>8

\* The media session takes a response of the engine up.
Taken(c, g) ==
    [c EXCEPT !.m.active = g, !.m.feedback[g] = [st |-> "live", next |-> 0]]

LEMMA TakenIs ==
    ASSUME NEW c \in Composites, NEW g \in Turns
    PROVE  LET d == Taken(c, g)
           IN /\ d \in Composites /\ d.e = c.e /\ d.a = c.a /\ d.w = c.w
              /\ d.m.closed = c.m.closed /\ d.m.tearing = c.m.tearing
              /\ d.m.active = g /\ d.m.flow = c.m.flow
              /\ d.m.paused = c.m.paused /\ d.m.by = c.m.by /\ d.m.queue = c.m.queue
              /\ d.m.retired = c.m.retired /\ d.m.fail = c.m.fail
              /\ d.m.ending = c.m.ending
              /\ d.m.feedback[g].st = "live" /\ d.m.feedback[g].next = 0
              /\ \A h \in Turns \ {g} : d.m.feedback[h] = c.m.feedback[h]
<1> DEFINE fb == c.m.feedback
           live == [st |-> "live", next |-> 0]
           f == [fb EXCEPT ![g] = live]
           d == [c EXCEPT !.m.active = g, !.m.feedback = f]
<1>1. fb \in [Turns -> Feedbacks] /\ live \in Feedbacks /\ g \in Responses
    BY CompositeParts DEF Feedbacks, Responses
<1>2. Taken(c, g) = d
    BY Zenon DEF Taken, Composites, MediaSessions
<1>3. f \in [Turns -> Feedbacks] /\ f[g] = live /\ \A h \in Turns \ {g} : f[h] = fb[h]
    BY <1>1
<1> HIDE DEF f
<1>4. /\ d \in Composites /\ d.e = c.e /\ d.a = c.a /\ d.w = c.w
      /\ d.m.closed = c.m.closed /\ d.m.tearing = c.m.tearing
      /\ d.m.active = g /\ d.m.flow = c.m.flow
      /\ d.m.paused = c.m.paused /\ d.m.by = c.m.by /\ d.m.queue = c.m.queue
      /\ d.m.retired = c.m.retired /\ d.m.fail = c.m.fail
      /\ d.m.ending = c.m.ending /\ d.m.feedback = f
    BY <1>1, <1>3, Zenon DEF Composites, MediaSessions
<1> HIDE DEF d
<1> QED  BY <1>2, <1>3, <1>4

LEMMA ResponseOutputIs ==
    ASSUME NEW t \in {"started", "declared", "audio", "completed", "terminal"},
           NEW g \in Turns, NEW ok \in BOOLEAN
    PROVE  LET out == Output(t, g, ok)
           IN out \in ResponseOutputs /\ out.t = t /\ out.g = g /\ out.ok = ok
  BY DEF Output, ResponseOutputs, Outputs

LEMMA GatedIsSound ==
    ASSUME NEW c, NEW d, NEW seen, NEW out, Gated(c, d, seen, out),
           out.t = "terminal" \/ (Lives(c) => SettleInv(c, seen) /\ FreshInv(c))
    PROVE  Sound(d, seen) /\ Around(c, d) /\ d.e = c.e
<1>1. Lives(d) => Lives(c)
    BY DEF Gated, Frame, Lives
<1> QED  BY <1>1 DEF Gated, Sound, Around, Frame

\* A new turn starts a response.
LEMMA ResponseStarts ==
    ASSUME NEW c, NEW seen, Sound(c, seen), c.e.settle.phase # "wire", c.m.fail = NoTurn,
           c.e.next <= MaxTurns, NEW kind
    PROVE  LET d == StartResponse(NewTurn(c, kind), c.e.next)
           IN /\ Sound(d, seen) /\ Around(c, d) /\ d.e = NewTurn(c, kind).e
<1> DEFINE g == c.e.next
           n == NewTurn(c, kind)
           x == Taken(n, g)
           out == Output("started", g, FALSE)
           d == StartResponse(n, g)
<1>0. c \in Composites /\ WireInv(seen, c.w.q) /\ Base(c, seen) /\ Steady(c, seen)
    BY DEF Sound, Steady, Base, Solid, Piped
<1>1. /\ n \in Composites /\ n.m = c.m /\ n.a = c.a /\ n.w = c.w
      /\ n.e.turn = g /\ n.e.next = g + 1
      /\ n.e.fired = c.e.fired /\ n.e.settle = c.e.settle
      /\ g \in Turns /\ g \in Nat
    BY <1>0, NewTurnIs
<1> HIDE DEF n
<1>2. Base(n, seen) /\ (Lives(n) <=> Lives(c))
    <2>1. SameGate(c, n)
        BY <1>1 DEF SameGate
    <2> QED  BY <1>0, <2>1, SameGateKeeps
<1>3. CASE c.m.closed
    <2>1. d = n
        BY <1>1, <1>3 DEF StartResponse
    <2>2. Sound(n, seen)
        BY <1>1, <1>2, <1>3 DEF Sound, Steady, Lives
    <2> QED  BY <1>1, <2>1, <2>2 DEF Around, n
<1>4. CASE ~c.m.closed
    <2>1. Live(c, seen) /\ Lives(c) /\ OpenInv(c)
        BY <1>4 DEF Lives, Sound, Steady
    <2>2. /\ Final(seen, c.w.q).last \in Nat /\ c.m.flow \in Nat /\ c.m.retired \in Nat
          /\ c.a.active \in Nat /\ seen.last \in Nat
        BY <1>0, NumbersAre
    <2>3. /\ Final(seen, c.w.q).last < g /\ c.m.flow < g /\ c.m.retired < g
          /\ c.m.retired # g
        <3>1. Final(seen, c.w.q).last < g /\ c.m.flow < g
            BY <2>1 DEF Live, FlowInv
        <3>2. c.m.retired = NoTurn \/ c.m.retired < g
            BY <2>1 DEF Live, TurnInv
        <3> QED  BY <1>1, <2>2, <3>1, <3>2 DEF NoTurn, Turns
    <2>4. d = Gate(x, out)
        <3>1. ~Retired(n, g)
            BY <1>1, <2>2, <2>3 DEF Retired
        <3> QED  BY <1>1, <1>4, <3>1 DEF StartResponse, Taken
    <2>5. /\ x \in Composites /\ x.e = n.e /\ x.a = n.a /\ x.w = n.w
          /\ x.m.closed = n.m.closed /\ x.m.tearing = n.m.tearing
          /\ x.m.active = g /\ x.m.flow = n.m.flow
          /\ x.m.paused = n.m.paused /\ x.m.by = n.m.by /\ x.m.queue = n.m.queue
          /\ x.m.retired = n.m.retired /\ x.m.fail = n.m.fail
          /\ x.m.ending = n.m.ending
          /\ x.m.feedback[g].st = "live" /\ x.m.feedback[g].next = 0
          /\ \A h \in Turns \ {g} : x.m.feedback[h] = n.m.feedback[h]
        BY <1>1, TakenIs
    <2>6. out \in ResponseOutputs /\ out.t = "started" /\ out.g = g
        BY <1>1, ResponseOutputIs
    <2> HIDE DEF x, out
    <2>7. Base(x, seen)
        <3>1. Piped(x, seen)
            BY <1>0, <1>1, <2>5 DEF Base, Solid, Piped, AgreesInv, GateInv, Talks
        <3>2. Solid(x, seen)
            BY <1>0, <1>1, <2>5, <3>1 DEF Base, Solid
        <3> QED  BY <1>0, <1>1, <2>5, <3>2 DEF Base
    <2>8. QueueInv(c.m.queue, g, Final(seen, c.w.q).last, c.e.fired, c.m.feedback)
          /\ c.m.queue \in Seq(ResponseOutputs)
        BY <1>0, <2>1, CompositeParts DEF Live
    <2>9. ASSUME NEW i \in 1..Len(c.m.queue)
          PROVE  c.m.queue[i].g < g /\ c.m.queue[i].g \in Turns \ {g} /\ c.m.queue[i].g < g + 1
        <3>1. c.m.queue[i].g < g
            BY <2>8 DEF QueueInv
        <3>2. c.m.queue[i].g \in Turns
            BY <2>8, OutputIs
        <3>3. c.m.queue[i].g \in Nat
            BY <3>2 DEF Turns
        <3> QED  BY <1>1, <3>1, <3>2, <3>3
    <2>10. Live(x, seen)
        <3>1. QueueInv(x.m.queue, x.e.next, Final(seen, x.w.q).last, x.e.fired, x.m.feedback)
            <4>1. ASSUME NEW i \in 1..Len(c.m.queue)
                  PROVE  /\ c.m.queue[i].g < g + 1
                         /\ c.m.queue[i].t = "started" =>
                               /\ Final(seen, c.w.q).last < c.m.queue[i].g
                               /\ x.m.feedback[c.m.queue[i].g].st = "live"
                         /\ c.m.queue[i].t = "terminal" => c.m.queue[i].g \in c.e.fired
                <5>1. x.m.feedback[c.m.queue[i].g] = c.m.feedback[c.m.queue[i].g]
                    BY <1>1, <2>5, <2>9
                <5> QED  BY <2>8, <2>9, <5>1 DEF QueueInv
            <4>2. QueueInv(c.m.queue, g + 1, Final(seen, c.w.q).last, c.e.fired, x.m.feedback)
                BY <2>8, <4>1 DEF QueueInv
            <4>3. /\ x.m.queue = c.m.queue /\ x.e.next = g + 1 /\ x.w = c.w
                  /\ x.e.fired = c.e.fired
                BY <1>1, <2>5
            <4> QED  BY <4>2, <4>3, SMTT(30)
        <3>2. FeedbackInv(x.m.feedback, seen, x.w.q)
            <4>1. FeedbackInv(c.m.feedback, seen, c.w.q)
                BY <2>1 DEF Live
            <4>2. seen.open # g
                <5>1. seen.open \in {NoTurn, seen.last} /\ seen.last <= Final(seen, c.w.q).last
                    BY <1>0, FinalIs
                <5> QED  BY <1>1, <2>2, <2>3, <5>1 DEF NoTurn, Turns
            <4>3. ASSUME NEW h \in Turns
                  PROVE  /\ x.m.feedback[h].st = "live" =>
                               /\ h = seen.open => x.m.feedback[h].next = seen.next
                               /\ seen.last < h => x.m.feedback[h].next = 0
                         /\ Has(c.w.q, "done", h) => x.m.feedback[h].st = "live"
                <5>1. CASE h = g
                    BY <2>5, <4>2, <5>1
                <5>2. CASE h # g
                    BY <1>1, <2>5, <4>1, <5>2 DEF FeedbackInv
                <5> QED  BY <5>1, <5>2
            <4> QED  BY <1>1, <2>5, <4>3 DEF FeedbackInv
        <3>3. FlowInv(x, Final(seen, x.w.q).last)
            <4>1. FlowInv(c, Final(seen, c.w.q).last)
                BY <2>1 DEF Live
            <4>2. c.a.active # NoTurn => c.a.active \in Turns \ {g}
                <5>1. c.a.active \in Responses /\ c.a.active \in {NoTurn, c.m.flow}
                    BY <1>0, <4>1, CompositeParts DEF FlowInv
                <5> QED  BY <1>1, <2>2, <2>3, <5>1 DEF Responses
            <4>3. c.a.active # NoTurn => x.m.feedback[c.a.active] = c.m.feedback[c.a.active]
                BY <1>1, <2>5, <4>2
            <4>4. c.m.flow < g + 1 /\ Final(seen, c.w.q).last < g + 1
                BY <1>1, <2>2, <2>3
            <4> QED  BY <1>1, <2>5, <4>1, <4>3, <4>4 DEF FlowInv
        <3>4. TurnInv(x)
            <4>1. TurnInv(c)
                BY <2>1 DEF Live
            <4>2. (g + 1) - 1 = g /\ g \notin c.e.fired
                BY <1>1, <4>1 DEF TurnInv
            <4>3. \A h \in c.e.fired : h < g + 1
                <5>1. c.e.fired \in SUBSET Turns
                    BY <1>0, CompositeParts
                <5> QED  BY <1>1, <4>1, <5>1 DEF TurnInv, Turns
            <4> QED  BY <1>1, <2>5, <4>1, <4>2, <4>3 DEF TurnInv
        <3> QED  BY <3>1, <3>2, <3>3, <3>4 DEF Live
    <2>11. Steady(x, seen) /\ Lives(x) /\ OpenInv(x)
        BY <1>1, <2>1, <2>5, <2>7, <2>10 DEF Steady, Lives, OpenInv
    <2>12. Fits(x, seen, out)
        <3>1. \A i \in 1..Len(x.m.queue) : x.m.queue[i].g < g
            BY <1>1, <2>5, <2>9
        <3>2. x.m.paused \/ x.m.flow \notin {NoTurn, g} \/ x.m.queue = <<>>
            BY <1>1, <2>1, <2>2, <2>3, <2>5 DEF OpenInv
        <3>3. (g + 1) - 1 = g
            BY <1>1
        <3> QED  BY <1>1, <2>3, <2>5, <2>6, <2>11, <3>1, <3>2, <3>3 DEF Fits
    <2>13. Gated(x, Gate(x, out), seen, out)
        BY <2>6, <2>11, <2>12, GateKeeps
    <2>14. SettleInv(x, seen) /\ FreshInv(x)
        BY <1>1, <2>5 DEF SettleInv, FreshInv
    <2>15. Sound(d, seen) /\ Around(x, d) /\ d.e = x.e
        BY <2>4, <2>13, <2>14, GatedIsSound
    <2> HIDE DEF d
    <2>16. Around(c, d)
        BY <1>1, <2>5, <2>15 DEF Around
    <2> QED  BY <2>5, <2>15, <2>16 DEF d, n
<1> QED  BY <1>3, <1>4

LEMMA AroundChain ==
    ASSUME NEW c, NEW d, NEW f, Around(c, d), Around(d, f)
    PROVE  Around(c, f)
  BY DEF Around

\* A segment of the turn's text goes to the GPU, and its item to the client.
LEMMA DispatchKeeps ==
    ASSUME NEW c, NEW seen, Sound(c, seen), c.e.turn # NoTurn
    PROVE  LET d == Dispatch(c)
           IN /\ Sound(d, seen) /\ Around(c, d)
<1> DEFINE g == c.e.turn
           out == Output("declared", g, FALSE)
           x == IF c.m.closed THEN c ELSE Gate(c, out)
           item == [g |-> g, k |-> c.e.said + 1, cut |-> FALSE]
           s == x.e.said + 1
           l == x.e.left + 1
           p == Append(x.e.gpu, item)
           d == [x EXCEPT !.e.said = s, !.e.left = l, !.e.gpu = p]
<1>0. c \in Composites /\ Steady(c, seen) /\ g \in Turns
    <2>1. c \in Composites /\ Steady(c, seen)
        BY DEF Sound, Steady, Base, Solid, Piped
    <2> QED  BY <2>1, CompositeParts DEF Responses
<1>1. out \in ResponseOutputs /\ out.t = "declared" /\ out.g = g
    <2>1. g \in Turns
        BY <1>0
    <2> HIDE DEF g
    <2> QED  BY <2>1 DEF Output, ResponseOutputs, Outputs
<1> HIDE DEF out
<1>2. Sound(x, seen) /\ Around(c, x) /\ x.e = c.e
    <2>1. CASE c.m.closed
        BY <2>1 DEF Around
    <2>2. CASE ~c.m.closed
        <3>1. Fits(c, seen, out)
            BY <1>0, <1>1 DEF Fits, Steady, Live, TurnInv
        <3>2. Gated(c, Gate(c, out), seen, out)
            BY <1>0, <1>1, <3>1, GateKeeps DEF Sound
        <3>3. x = Gate(c, out)
            BY <2>2
        <3> HIDE DEF x
        <3>4. Gated(c, x, seen, out)
            BY <3>2, <3>3
        <3>5. Lives(c) => SettleInv(c, seen) /\ FreshInv(c)
            BY DEF Sound
        <3> QED  BY <3>4, <3>5, GatedIsSound
    <2> QED  BY <2>1, <2>2
<1>3. Dispatch(c) = d
    <2>1. Dispatch(c) = [x EXCEPT !.e.said = @ + 1, !.e.left = @ + 1,
                                  !.e.gpu = Append(@, item)]
        BY DEF Dispatch, out
    <2>2. x \in Composites
        BY <1>2 DEF Sound, Steady, Base, Solid, Piped
    <2> HIDE DEF x, item
    <2> QED  BY <2>1, <2>2, Zenon DEF Composites, Engines
<1> HIDE DEF x
<1>4. x \in Composites /\ x.e \in Engines
    <2>1. x \in Composites
        BY <1>2 DEF Sound, Steady, Base, Solid, Piped
    <2> QED  BY <2>1, CompositeParts
<1>5. s \in Nat /\ l \in Int /\ p \in Seq(Speech)
    <2>1. x.e.said \in Nat /\ x.e.left \in Int /\ x.e.gpu \in Seq(Speech) /\ c.e.said \in Nat
        BY <1>2, <1>4 DEF Engines
    <2>2. item \in Speech
        BY <1>0, <2>1 DEF Speech
    <2> HIDE DEF item
    <2> QED  BY <2>1, <2>2
<1> HIDE DEF s, l, p
<1>6. /\ d \in Composites /\ d.m = x.m /\ d.a = x.a /\ d.w = x.w
      /\ d.e.next = x.e.next /\ d.e.fired = x.e.fired /\ d.e.turn = x.e.turn
      /\ d.e.stream = x.e.stream /\ d.e.settle = x.e.settle
    BY <1>4, <1>5, Zenon DEF Composites, Engines
<1> HIDE DEF d
<1>7. Minor(x, d)
    BY <1>6 DEF Minor, SameGate
<1>8. Sound(d, seen) /\ Around(c, d)
    BY <1>2, <1>6, <1>7, MinorKeeps DEF Around
<1> QED  BY <1>3, <1>8

LEMMA TurnStarts ==
    ASSUME NEW c, NEW seen, Sound(c, seen), c.e.settle.phase # "wire", c.m.fail = NoTurn,
           NEW kind \in {"user", "system", "direct"}
    PROVE  Sound(StartTurn(c, kind), seen) /\ Around(c, StartTurn(c, kind))
<1>0. c \in Composites /\ Base(c, seen) /\ c.e.next \in 1..MaxTurns + 1
    <2>1. c \in Composites /\ Base(c, seen)
        BY DEF Sound, Steady, Base, Solid, Piped
    <2> QED  BY <2>1, CompositeParts
<1>1. CASE c.e.next > MaxTurns
    <2>1. StartTurn(c, kind) = c
        BY <1>1 DEF StartTurn
    <2> QED  BY <2>1 DEF Around
<1>2. CASE ~(c.e.next > MaxTurns)
    <2>0. c.e.next <= MaxTurns
        BY <1>0, <1>2, DeliveryAssumption DEF DeliveryAssumption
    <2>1. CASE kind = "user"
        <3> DEFINE n == Note(c)
        <3>1. StartTurn(c, kind) = StartResponse(NewTurn(n, kind), c.e.next)
            BY <1>2, <2>1 DEF StartTurn
        <3>2. Sound(n, seen) /\ n.e = c.e /\ n.m.fail = c.m.fail /\ Around(c, n)
            BY <1>0, NoteKeeps
        <3> HIDE DEF n
        <3> DEFINE d == StartResponse(NewTurn(n, kind), n.e.next)
        <3>3. Sound(d, seen) /\ Around(n, d)
            BY <2>0, <3>2, ResponseStarts
        <3>4. StartTurn(c, kind) = d
            BY <3>1, <3>2
        <3> HIDE DEF d
        <3> QED  BY <3>2, <3>3, <3>4, AroundChain
    <2>2. CASE kind = "system"
        <3>1. StartTurn(c, kind) = StartResponse(NewTurn(c, kind), c.e.next)
            BY <1>2, <2>2 DEF StartTurn
        <3> QED  BY <2>0, <3>1, ResponseStarts
    <2>3. CASE kind = "direct"
        <3> DEFINE d == StartResponse(NewTurn(c, kind), c.e.next)
        <3>1. StartTurn(c, kind) = Dispatch(d)
            BY <1>2, <2>3 DEF StartTurn
        <3>2. Sound(d, seen) /\ Around(c, d) /\ d.e = NewTurn(c, kind).e
            BY <2>0, ResponseStarts
        <3>3. NewTurn(c, kind).e.turn = c.e.next /\ c.e.next \in Turns
            BY <1>0, <2>0, NewTurnIs
        <3> HIDE DEF d
        <3>4. d.e.turn # NoTurn
            BY <3>2, <3>3 DEF Turns, NoTurn
        <3>5. Sound(Dispatch(d), seen) /\ Around(d, Dispatch(d))
            BY <3>2, <3>4, DispatchKeeps
        <3> QED  BY <3>1, <3>2, <3>5, AroundChain
    <2> QED  BY <2>1, <2>2, <2>3
<1> QED  BY <1>1, <1>2

\* The end of a turn waits for the wire: its terminal is at the gate or behind it.
FiredTurn(c, g, ok) ==
    [c EXCEPT !.e.fired = @ \cup {g}, !.e.settle = [g |-> g, ok |-> ok, phase |-> "wire"]]

LEMMA FiredTurnIs ==
    ASSUME NEW c \in Composites, NEW g \in Turns, NEW ok \in BOOLEAN
    PROVE  LET d == FiredTurn(c, g, ok)
           IN /\ d \in Composites /\ d.m = c.m /\ d.a = c.a /\ d.w = c.w
              /\ d.e.turn = c.e.turn /\ d.e.next = c.e.next /\ d.e.stream = c.e.stream
              /\ d.e.fired = c.e.fired \cup {g}
              /\ d.e.settle.g = g /\ d.e.settle.phase = "wire"
<1> DEFINE f == c.e.fired \cup {g}
           s == [g |-> g, ok |-> ok, phase |-> "wire"]
           d == [c EXCEPT !.e.fired = f, !.e.settle = s]
<1>1. FiredTurn(c, g, ok) = d
    BY Zenon DEF FiredTurn, Composites, Engines
<1>2. f \in SUBSET Turns /\ s \in Settlements /\ s.g = g /\ s.phase = "wire"
    BY CompositeParts DEF Settlements, Responses
<1>3. f = c.e.fired \cup {g}
    OBVIOUS
<1> HIDE DEF f, s
<1>4. /\ d \in Composites /\ d.m = c.m /\ d.a = c.a /\ d.w = c.w
      /\ d.e.turn = c.e.turn /\ d.e.next = c.e.next /\ d.e.stream = c.e.stream
      /\ d.e.fired = f /\ d.e.settle = s
    BY <1>2, Zenon DEF Composites, Engines
<1> HIDE DEF d
<1> QED  BY <1>1, <1>2, <1>3, <1>4

LEMMA FireKeeps ==
    ASSUME NEW c, NEW seen, Steady(c, seen), Lives(c) => OpenInv(c), ~c.e.stream,
           NEW g \in Turns, NEW ok \in BOOLEAN,
           Lives(c) => g = c.e.next - 1 /\ g \notin c.e.fired
    PROVE  Sound(Fire(c, g, ok), seen) /\ Around(c, Fire(c, g, ok))
<1> DEFINE d == FiredTurn(c, g, ok)
           out == Output("terminal", g, ok)
<1>0. c \in Composites /\ Base(c, seen) /\ WireInv(seen, c.w.q)
    BY DEF Steady, Base, Solid, Piped
<1>1. /\ d \in Composites /\ d.m = c.m /\ d.a = c.a /\ d.w = c.w
      /\ d.e.turn = c.e.turn /\ d.e.next = c.e.next /\ d.e.stream = c.e.stream
      /\ d.e.fired = c.e.fired \cup {g}
      /\ d.e.settle.g = g /\ d.e.settle.phase = "wire"
    BY <1>0, FiredTurnIs
<1>2. Fire(c, g, ok) = IF c.m.closed /\ ~c.m.tearing THEN d ELSE Gate(d, out)
    BY DEF Fire, FiredTurn
<1>3. out \in ResponseOutputs /\ out.t = "terminal" /\ out.g = g
    BY ResponseOutputIs
<1> HIDE DEF d, out
<1>4. Base(d, seen) /\ (Lives(d) <=> Lives(c)) /\ (OpenInv(d) <=> OpenInv(c))
    <2>1. SameGate(c, d)
        BY <1>1 DEF SameGate
    <2> QED  BY <1>0, <2>1, SameGateKeeps
<1>5. ASSUME Lives(c)
      PROVE  Live(d, seen) /\ ~Has(c.m.queue, "terminal", g) /\ c.m.retired < g
    <2>1. Live(c, seen) /\ g = c.e.next - 1 /\ g \notin c.e.fired
        BY <1>5 DEF Steady
    <2>2. c.e.next \in Nat /\ g \in Nat /\ c.m.retired \in Nat
        <3>1. c.e.next \in Nat /\ c.m.retired \in Nat
            BY <1>0, NumbersAre
        <3> QED  BY <3>1 DEF Turns
    <2>3. TurnInv(c) /\ QueueInv(c.m.queue, c.e.next, Final(seen, c.w.q).last, c.e.fired,
                                 c.m.feedback)
        BY <2>1 DEF Live
    <2>4. c.m.retired < g
        <3>1. c.m.retired = NoTurn \/ (c.m.retired \in c.e.fired /\ c.m.retired < c.e.next)
            BY <2>3 DEF TurnInv
        <3>2. c.m.retired # g
            BY <2>1, <3>1 DEF NoTurn, Turns
        <3> QED  BY <2>1, <2>2, <3>1, <3>2 DEF NoTurn, Turns
    <2>5. ~Has(c.m.queue, "terminal", g)
        BY <2>1, <2>3 DEF Has, QueueInv
    <2>6. QueueInv(d.m.queue, d.e.next, Final(seen, d.w.q).last, d.e.fired, d.m.feedback)
        <3>1. QueueInv(c.m.queue, c.e.next, Final(seen, c.w.q).last, c.e.fired \cup {g},
                       c.m.feedback)
            BY <2>3 DEF QueueInv
        <3> QED  BY <1>1, <3>1
    <2>7. FeedbackInv(d.m.feedback, seen, d.w.q) /\ FlowInv(d, Final(seen, d.w.q).last)
        BY <1>1, <2>1 DEF Live, FlowInv
    <2>8. TurnInv(d)
        <3>1. g < c.e.next
            BY <2>1, <2>2
        <3> QED  BY <1>1, <2>1, <2>3, <2>4, <3>1 DEF TurnInv
    <2> QED  BY <2>4, <2>5, <2>6, <2>7, <2>8 DEF Live
<1>6. Steady(d, seen)
    BY <1>4, <1>5 DEF Steady
<1>7. CASE c.m.closed /\ ~c.m.tearing
    <2>1. Sound(d, seen)
        BY <1>1, <1>6, <1>7 DEF Sound, Lives
    <2> QED  BY <1>1, <1>2, <1>7, <2>1 DEF Around
<1>8. CASE ~(c.m.closed /\ ~c.m.tearing)
    <2>1. Fits(d, seen, out)
        BY <1>1, <1>3, <1>4, <1>5 DEF Fits
    <2>2. Gated(d, Gate(d, out), seen, out)
        BY <1>3, <1>4, <1>6, <2>1, GateKeeps
    <2>3. Sound(Gate(d, out), seen) /\ Around(d, Gate(d, out))
        BY <1>3, <2>2, GatedIsSound
    <2> QED  BY <1>1, <1>2, <1>8, <2>3 DEF Around
<1> QED  BY <1>7, <1>8

LEMMA MaybeFireKeeps ==
    ASSUME NEW c, NEW seen, Sound(c, seen), c.e.turn # NoTurn
    PROVE  Sound(MaybeFire(c), seen) /\ Around(c, MaybeFire(c))
<1>1. CASE c.e.turn \in c.e.fired \/ c.e.left > 0 \/ c.e.stream
    <2>1. MaybeFire(c) = c
        BY <1>1 DEF MaybeFire
    <2> QED  BY <2>1 DEF Around
<1>2. CASE ~(c.e.turn \in c.e.fired \/ c.e.left > 0 \/ c.e.stream)
    <2>1. MaybeFire(c) = Fire(c, c.e.turn, TRUE)
        BY <1>2 DEF MaybeFire
    <2>2. c.e.turn \in Turns
        <3>1. c \in Composites
            BY DEF Sound, Steady, Base, Solid, Piped
        <3> QED  BY <3>1, CompositeParts DEF Responses
    <2>3. Lives(c) => c.e.turn = c.e.next - 1
        BY DEF Sound, Steady, Live, TurnInv
    <2> QED  BY <1>2, <2>1, <2>2, <2>3, FireKeeps DEF Sound
<1> QED  BY <1>1, <1>2

LEMMA SettledIs == Settled \in Settlements /\ Settled.phase = "none"
  BY DEF Settled, Settlements, Responses

\* What the settlement was is forgotten, and the media session stops speaking.
LEMMA ForgottenIs ==
    ASSUME NEW c \in Composites
    PROVE  LET d == [c EXCEPT !.e.settle = Settled, !.m.speaking = FALSE]
           IN /\ Minor(c, d) /\ d.e.settle.phase = "none" /\ d.m.tearing = c.m.tearing
              /\ d.m.fail = c.m.fail /\ d.e.next = c.e.next
<1> DEFINE d == [c EXCEPT !.e.settle = Settled, !.m.speaking = FALSE]
<1>1. /\ d \in Composites /\ d.a = c.a /\ d.w = c.w
      /\ d.m.closed = c.m.closed /\ d.m.active = c.m.active /\ d.m.flow = c.m.flow
      /\ d.m.paused = c.m.paused /\ d.m.by = c.m.by /\ d.m.queue = c.m.queue
      /\ d.m.retired = c.m.retired /\ d.m.fail = c.m.fail
      /\ d.m.feedback = c.m.feedback /\ d.m.ending = c.m.ending /\ d.m.tearing = c.m.tearing
      /\ d.e.next = c.e.next /\ d.e.fired = c.e.fired /\ d.e.turn = c.e.turn
      /\ d.e.stream = c.e.stream /\ d.e.settle = Settled
    BY SettledIs, Zenon DEF Composites, Engines, MediaSessions
<1> HIDE DEF d
<1> QED  BY <1>1, SettledIs DEF d, Minor, SameGate

LEMMA SettleKeeps ==
    ASSUME NEW c, NEW seen, Steady(c, seen), Lives(c) => OpenInv(c), c.m.fail = NoTurn,
           NEW auto
    PROVE  Sound(SettleResponse(c, auto), seen) /\ Around(c, SettleResponse(c, auto))
<1> DEFINE x == IF c.e.turn = c.e.settle.g THEN Idle(c) ELSE c
           d == [x EXCEPT !.e.settle = Settled, !.m.speaking = FALSE]
           kind == IF d.e.held THEN "user" ELSE "direct"
<1>0. c \in Composites
    BY DEF Steady, Base, Solid, Piped
<1>1. Minor(c, x) /\ x.m = c.m
    <2>1. Minor(c, c)
        BY <1>0 DEF Minor, SameGate
    <2> QED  BY <1>0, <2>1, IdleIs
<1>2. SettleResponse(c, auto) = IF d.e.interrupted \/ ~(d.e.held \/ (auto /\ c.e.settle.ok))
                                THEN d ELSE StartTurn(d, kind)
    BY DEF SettleResponse
<1> HIDE DEF x
<1>3. /\ Minor(x, d) /\ d.e.settle.phase = "none" /\ d.m.tearing = x.m.tearing
      /\ d.m.fail = x.m.fail
    <2>1. x \in Composites
        BY <1>1 DEF Minor, SameGate
    <2> QED  BY <2>1, ForgottenIs
<1>4. kind \in {"user", "system", "direct"}
    OBVIOUS
<1> HIDE DEF d, kind
<1>5. Minor(c, d)
    BY <1>1, <1>3, MinorChain
<1>6. Sound(d, seen)
    <2>1. Steady(d, seen) /\ (Lives(d) <=> Lives(c)) /\ (OpenInv(d) <=> OpenInv(c))
          /\ SettleInv(d, seen) /\ FreshInv(d)
        BY <1>3, <1>5, MinorKeeps
    <2> QED  BY <2>1 DEF Sound
<1>7. Around(c, d) /\ d.m.fail = NoTurn
    BY <1>1, <1>3, <1>5 DEF Around, Minor, SameGate
<1>8. Sound(StartTurn(d, kind), seen) /\ Around(d, StartTurn(d, kind))
    BY <1>3, <1>4, <1>6, <1>7, TurnStarts
<1> QED  BY <1>2, <1>6, <1>7, <1>8, AroundChain

LEMMA DrainedKeeps ==
    ASSUME NEW c, NEW seen, Steady(c, seen), Lives(c) => OpenInv(c), c.m.fail = NoTurn,
           NEW g, NEW later, NEW auto,
           \/ c.e.settle.phase = "wire" /\ c.e.settle.g = g
           \/ Lives(c) => SettleInv(c, seen) /\ FreshInv(c)
    PROVE  LET d == WireDrained(c, g, later, auto)
           IN Sound(d, seen) /\ Around(c, d)
<1> DEFINE x == IF c.e.turn = g THEN Idle(c) ELSE c
           y == [x EXCEPT !.m.speaking = FALSE]
           z == [y EXCEPT !.e.settle.phase = "playback"]
<1>0. c \in Composites
    BY DEF Steady, Base, Solid, Piped
<1>1. CASE c.e.settle.phase # "wire" \/ c.e.settle.g # g
    <2>1. WireDrained(c, g, later, auto) = c
        BY <1>1 DEF WireDrained
    <2> QED  BY <1>1, <2>1 DEF Around, Sound
<1>2. CASE c.e.settle.phase = "wire" /\ c.e.settle.g = g
    <2>1. WireDrained(c, g, later, auto) =
              IF c.e.settle.ok /\ later THEN z ELSE SettleResponse(y, auto)
        BY <1>2 DEF WireDrained
    <2>2. Minor(c, x) /\ x.m = c.m
        <3>1. Minor(c, c)
            BY <1>0 DEF Minor, SameGate
        <3> QED  BY <1>0, <3>1, IdleIs
    <2> HIDE DEF x
    <2>3. Minor(x, y) /\ y.m.tearing = x.m.tearing
        <3>1. x \in Composites
            BY <2>2 DEF Minor, SameGate
        <3>2. /\ y \in Composites /\ y.e = x.e /\ y.a = x.a /\ y.w = x.w
              /\ y.m.closed = x.m.closed /\ y.m.active = x.m.active /\ y.m.flow = x.m.flow
              /\ y.m.paused = x.m.paused /\ y.m.by = x.m.by /\ y.m.queue = x.m.queue
              /\ y.m.retired = x.m.retired /\ y.m.fail = x.m.fail
              /\ y.m.feedback = x.m.feedback /\ y.m.ending = x.m.ending
              /\ y.m.tearing = x.m.tearing
            BY <3>1, Zenon DEF Composites, MediaSessions
        <3> HIDE DEF y
        <3> QED  BY <3>2 DEF Minor, SameGate
    <2> HIDE DEF y
    <2>4. Minor(y, z) /\ z.m = y.m /\ z.e.settle.phase = "playback"
        <3>1. y \in Composites /\ "playback" \in {"none", "wire", "playback"}
            BY <2>3 DEF Minor, SameGate
        <3>2. /\ z \in Composites /\ z.m = y.m /\ z.a = y.a /\ z.w = y.w
              /\ z.e.next = y.e.next /\ z.e.fired = y.e.fired /\ z.e.turn = y.e.turn
              /\ z.e.stream = y.e.stream /\ z.e.settle.phase = "playback"
            BY <3>1, Zenon DEF Composites, Engines, Settlements
        <3> HIDE DEF z
        <3> QED  BY <3>2 DEF Minor, SameGate
    <2> HIDE DEF z
    <2>5. Minor(c, y) /\ Minor(c, z)
        BY <2>2, <2>3, <2>4, MinorChain
    <2>6. Around(c, y) /\ Around(c, z) /\ y.m.fail = NoTurn
        BY <2>2, <2>3, <2>4, <2>5 DEF Around, Minor, SameGate
    <2>7. Sound(z, seen)
        BY <2>4, <2>5, MinorKeeps DEF Sound
    <2>8. Steady(y, seen) /\ (Lives(y) => OpenInv(y))
        BY <2>5, MinorKeeps
    <2>9. Sound(SettleResponse(y, auto), seen) /\ Around(y, SettleResponse(y, auto))
        BY <2>6, <2>8, SettleKeeps
    <2> QED  BY <2>1, <2>6, <2>7, <2>9, AroundChain
<1> QED  BY <1>1, <1>2

LEMMA AbandonKeeps ==
    ASSUME NEW c, NEW seen, Sound(c, seen)
    PROVE  LET d == Abandon(c)
           IN /\ Sound(d, seen) /\ Around(c, d) /\ d.m.fail = c.m.fail
              /\ d.e.settle.phase = "wire" => c.e.settle.phase = "wire"
<1> DEFINE d == [c EXCEPT !.e.settle = Settled, !.m.speaking = FALSE]
<1>1. Abandon(c) = c \/ Abandon(c) = d
    BY DEF Abandon
<1>2. c \in Composites
    BY DEF Sound, Steady, Base, Solid, Piped
<1>3. /\ Minor(c, d) /\ d.e.settle.phase = "none" /\ d.m.tearing = c.m.tearing
      /\ d.m.fail = c.m.fail
    BY <1>2, ForgottenIs
<1> HIDE DEF d
<1>4. Sound(d, seen) /\ Around(c, d)
    BY <1>3, MinorKeeps DEF Around, Minor, SameGate
<1>5. Around(c, c)
    BY DEF Around
<1> QED  BY <1>1, <1>3, <1>4, <1>5

\* A cancelled turn is ended unless it was.
CutAll(gpu) == [i \in DOMAIN gpu |-> [gpu[i] EXCEPT !.cut = TRUE]]
LEMMA CutAllIs ==
    ASSUME NEW gpu \in Seq(Speech)
    PROVE  CutAll(gpu) \in Seq(Speech)
<1>1. DOMAIN gpu = 1..Len(gpu) /\ Len(gpu) \in Nat
    OBVIOUS
<1>2. \A i \in 1..Len(gpu) : [gpu[i] EXCEPT !.cut = TRUE] \in Speech
    <2> TAKE i \in 1..Len(gpu)
    <2>1. gpu[i] \in Speech
        OBVIOUS
    <2> DEFINE x == gpu[i]
    <2> HIDE DEF x
    <2>2. x \in Speech => [x EXCEPT !.cut = TRUE] \in Speech
        BY DEF Speech
    <2> QED  BY <2>1, <2>2 DEF x
<1>3. CutAll(gpu) = [i \in 1..Len(gpu) |-> [gpu[i] EXCEPT !.cut = TRUE]]
    BY <1>1 DEF CutAll
<1>4. CutAll(gpu) \in [1..Len(gpu) -> Speech]
    BY <1>2, <1>3
<1> QED  BY <1>1, <1>4

LEMMA CancelKeeps ==
    ASSUME NEW c, NEW seen, Steady(c, seen), Lives(c) => OpenInv(c)
    PROVE  Sound(CancelTurn(c), seen) /\ Around(c, CancelTurn(c))
<1> DEFINE g == c.e.turn
           x == Idle(c)
           p == CutAll(x.e.gpu)
           d == [x EXCEPT !.e.interrupted = TRUE, !.e.settle = Settled, !.e.gpu = p]
<1>0. c \in Composites
    BY DEF Steady, Base, Solid, Piped
<1>1. Minor(c, x) /\ x.e.turn = NoTurn /\ ~x.e.stream /\ x.m = c.m /\ x \in Composites
    <2>1. Minor(c, x) /\ x.e.turn = NoTurn /\ ~x.e.stream /\ x.m = c.m
        BY <1>0, IdleIs
    <2> HIDE DEF x
    <2> QED  BY <2>1 DEF Minor, SameGate
<1>2. CancelTurn(c) = IF g = NoTurn \/ g \in c.e.fired THEN d ELSE Fire(d, g, FALSE)
    <2> DEFINE z == [x EXCEPT !.e.interrupted = TRUE, !.e.settle = Settled,
                              !.e.gpu = [i \in DOMAIN @ |-> [@[i] EXCEPT !.cut = TRUE]]]
    <2>1. CancelTurn(c) = IF g = NoTurn \/ g \in c.e.fired THEN z ELSE Fire(z, g, FALSE)
        BY DEF CancelTurn
    <2> HIDE DEF x
    <2>2. z = d
        BY <1>1, Zenon DEF CutAll, Composites, Engines
    <2> HIDE DEF z, d
    <2> QED  BY <2>1, <2>2
<1> HIDE DEF x
<1>3. p \in Seq(Speech)
    <2>1. x.e.gpu \in Seq(Speech)
        BY <1>1, CompositeParts
    <2> QED  BY <2>1, CutAllIs
<1> HIDE DEF p
<1>4. /\ d \in Composites /\ d.m = x.m /\ d.a = x.a /\ d.w = x.w
      /\ d.e.next = x.e.next /\ d.e.fired = x.e.fired /\ d.e.turn = x.e.turn
      /\ d.e.stream = x.e.stream /\ d.e.settle = Settled
    BY <1>1, <1>3, SettledIs, Zenon DEF Composites, Engines
<1> HIDE DEF d
<1>5. Minor(x, d)
    BY <1>4, SettledIs DEF Minor, SameGate
<1>6. Minor(c, d)
    BY <1>1, <1>5, MinorChain
<1>7. /\ Steady(d, seen) /\ (Lives(d) <=> Lives(c)) /\ (OpenInv(d) <=> OpenInv(c))
      /\ SettleInv(d, seen) /\ FreshInv(d)
    BY <1>4, <1>6, SettledIs, MinorKeeps
<1>8. Sound(d, seen) /\ Around(c, d)
    BY <1>1, <1>4, <1>7 DEF Sound, Around
<1>9. CASE g = NoTurn \/ g \in c.e.fired
    BY <1>2, <1>8, <1>9
<1>10. CASE ~(g = NoTurn \/ g \in c.e.fired)
    <2>1. CancelTurn(c) = Fire(d, g, FALSE)
        BY <1>2, <1>10
    <2>2. g \in Turns
        BY <1>0, <1>10, CompositeParts DEF Responses
    <2>3. ~d.e.stream /\ d.e.fired = c.e.fired /\ d.e.next = c.e.next
        BY <1>1, <1>4, <1>6 DEF Minor
    <2>4. Lives(d) => g = d.e.next - 1 /\ g \notin d.e.fired
        <3>1. Lives(c) => TurnInv(c)
            BY DEF Steady, Live
        <3> QED  BY <1>7, <1>10, <2>3, <3>1 DEF TurnInv
    <2>5. Sound(Fire(d, g, FALSE), seen) /\ Around(d, Fire(d, g, FALSE))
        BY <1>7, <2>2, <2>3, <2>4, FireKeeps
    <2> QED  BY <1>8, <2>1, <2>5, AroundChain
<1> QED  BY <1>9, <1>10

-----------------------------------------------------------------------------
(* The end of the session                                                  *)

LEMMA OverIsSound ==
    ASSUME NEW c, NEW seen, Solid(c, seen), c.m.closed
    PROVE  Sound(c, seen) /\ Base(c, seen)
  BY DEF Sound, Steady, Base, Lives

\* A message of no response changes nothing that matters of the adapter.
LEMMA EnqueueKeeps ==
    ASSUME NEW c, NEW seen, Solid(c, seen), NEW msg \in WireMessages,
           msg.t \in {"note", "error", "ended"}, msg.t = "ended" => c.a.close # "open"
    PROVE  LET d == Enqueue(c, msg)
           IN /\ Solid(d, seen) /\ d.m.closed = c.m.closed /\ d.m.tearing = c.m.tearing
              /\ d.m.fail = c.m.fail
              /\ d.a.close = c.a.close \/ d.a.close = "requested"
<1> DEFINE d == Enqueue(c, msg)
<1>0. c \in Composites /\ GateInv(c) /\ WireInv(seen, c.w.q) /\ Piped(c, seen)
    BY DEF Solid, Piped
<1>1. /\ Below(c, d) /\ GateInv(d)
      /\ d.a.active = c.a.active /\ d.a.produced = c.a.produced /\ d.a.tripped = c.a.tripped
      /\ Talks(c) => /\ d.w.q = Append(c.w.q, msg)
                     /\ d.a.timers = c.a.timers /\ d.a.close = c.a.close
      /\ ~Talks(c) => /\ d.w.q = c.w.q
                      /\ d.a.close = c.a.close \/ d.a.close = "requested"
    BY <1>0, EnqueueIs
<1> HIDE DEF d
<1>2. d \in Composites /\ d.e = c.e
      /\ d.m.closed = c.m.closed /\ d.m.tearing = c.m.tearing
      /\ d.m.flow = c.m.flow /\ d.m.queue = c.m.queue
      /\ d.m.fail = c.m.fail /\ d.m.ending = c.m.ending /\ d.w.failed = c.w.failed
    BY <1>1 DEF Below
<1>3. CASE Talks(c)
    <2>1. WireInv(seen, d.w.q) /\ Final(seen, d.w.q) = Final(seen, c.w.q)
        <3>1. Legal(Final(seen, c.w.q), msg)
            BY DEF Legal
        <3>2. After(Final(seen, c.w.q), msg) = Final(seen, c.w.q)
            BY DEF After
        <3> QED  BY <1>0, <1>1, <1>3, <3>1, <3>2, WireAppend
    <2>2. Has(d.w.q, "ended", NoTurn) => d.a.close # "open"
        <3>1. c.w.q \in Seq(WireMessages)
            BY <1>0, CompositeParts
        <3>2. Has(Append(c.w.q, msg), "ended", NoTurn) <=>
                 Has(c.w.q, "ended", NoTurn) \/ (msg.t = "ended" /\ msg.g = NoTurn)
            BY <3>1, HasAppend
        <3>3. Has(d.w.q, "ended", NoTurn) => Has(c.w.q, "ended", NoTurn) \/ msg.t = "ended"
            BY <1>1, <1>3, <3>2
        <3> QED  BY <1>0, <1>1, <1>3, <3>3 DEF Piped
    <2>3. AgreesInv(d, seen)
        BY <1>0, <1>1, <1>2, <1>3, <2>1 DEF AgreesInv, Piped, Talks
    <2>4. Piped(d, seen)
        BY <1>0, <1>1, <1>2, <2>1, <2>2, <2>3 DEF Piped
    <2>5. Solid(d, seen)
        BY <1>2, <2>4 DEF Solid
    <2> QED  BY <1>1, <1>2, <1>3, <2>5 DEF d
<1>4. CASE ~Talks(c)
    <2>1. AgreesInv(d, seen)
        BY <1>0, <1>1, <1>2, <1>4 DEF AgreesInv, Talks
    <2>2. Piped(d, seen)
        BY <1>0, <1>1, <1>2, <1>4, <2>1 DEF Piped
    <2>3. Solid(d, seen)
        BY <1>2, <2>2 DEF Solid
    <2> QED  BY <1>1, <1>2, <1>4, <2>3 DEF d
<1> QED  BY <1>3, <1>4

\* The adapter's own state may move on, once its writer has nothing to say of it.
SamePipe(c, d) ==
    /\ d \in Composites /\ d.e = c.e /\ d.m = c.m /\ d.w = c.w
    /\ d.a.active = c.a.active /\ d.a.produced = c.a.produced /\ d.a.pausedGen = c.a.pausedGen
    /\ d.a.tripped = c.a.tripped
    /\ \/ d.a.close = c.a.close
       \/ d.a.close # "open" /\ (d.a.close = "terminal" => c.a.close = "open")

LEMMA SamePipeKeeps ==
    ASSUME NEW c, NEW d, NEW seen, Solid(c, seen), SamePipe(c, d)
    PROVE  Solid(d, seen)
<1>1. Piped(d, seen)
    BY DEF SamePipe, Solid, Piped, AgreesInv, GateInv, Talks
<1> QED  BY <1>1 DEF SamePipe, Solid

LEMMA RequestKeeps ==
    ASSUME NEW c, NEW seen, Solid(c, seen), c.m.closed
    PROVE  LET d == RequestClose(c)
           IN Solid(d, seen) /\ d.m = c.m /\ d.a.close \in {"requested", "closed"}
<1> DEFINE d == [c EXCEPT !.a.close = "requested", !.a.timers = {}]
<1>0. c \in Composites
    BY DEF Solid, Piped
<1>1. CASE c.a.close \in {"requested", "closed"}
    <2>1. RequestClose(c) = c
        BY <1>1 DEF RequestClose
    <2> QED  BY <1>1, <2>1
<1>2. CASE c.a.close \notin {"requested", "closed"}
    <2>1. RequestClose(c) = d
        BY <1>2 DEF RequestClose
    <2>2. /\ d \in Composites /\ d.e = c.e /\ d.m = c.m /\ d.w = c.w
          /\ d.a.active = c.a.active /\ d.a.produced = c.a.produced
          /\ d.a.pausedGen = c.a.pausedGen /\ d.a.tripped = c.a.tripped
          /\ d.a.close = "requested"
        <3>1. "requested" \in Closes /\ {} \in SUBSET Turns
            BY DEF Closes
        <3> QED  BY <1>0, <3>1, Zenon DEF Composites, Adapters
    <2> HIDE DEF d
    <2>3. SamePipe(c, d)
        BY <2>2 DEF SamePipe
    <2> QED  BY <2>1, <2>2, <2>3, SamePipeKeeps
<1> QED  BY <1>1, <1>2

LEMMA TransportCloses ==
    ASSUME NEW c, NEW seen, Solid(c, seen), c.m.closed
    PROVE  LET d == CloseTransport(c)
           IN /\ Solid(d, seen) /\ d.m.closed /\ d.m.tearing = c.m.tearing
              /\ d.m.fail = c.m.fail
<1> DEFINE x == [c EXCEPT !.a.close = "terminal"]
           note == Message("note", 0, 0)
           ended == Message("ended", 0, 0)
           y == Enqueue(x, note)
           z == Enqueue(y, ended)
<1>0. c \in Composites
    BY DEF Solid, Piped
<1>1. CASE c.a.close # "open"
    <2>1. CloseTransport(c) = c
        BY <1>1 DEF CloseTransport
    <2> QED  BY <2>1
<1>2. CASE c.a.close = "open"
    <2>1. CloseTransport(c) = z
        BY <1>2 DEF CloseTransport
    <2>2. /\ x \in Composites /\ x.e = c.e /\ x.m = c.m /\ x.w = c.w
          /\ x.a.active = c.a.active /\ x.a.produced = c.a.produced
          /\ x.a.pausedGen = c.a.pausedGen /\ x.a.tripped = c.a.tripped
          /\ x.a.close = "terminal"
        <3>1. "terminal" \in Closes
            BY DEF Closes
        <3> QED  BY <1>0, <3>1, Zenon DEF Composites, Adapters
    <2> HIDE DEF x
    <2>3. Solid(x, seen)
        <3>1. SamePipe(c, x)
            BY <1>2, <2>2 DEF SamePipe
        <3> QED  BY <3>1, SamePipeKeeps
    <2>4. /\ note \in WireMessages /\ note.t = "note"
          /\ ended \in WireMessages /\ ended.t = "ended"
        BY MessageIs
    <2> HIDE DEF note, ended
    <2>5. /\ Solid(y, seen) /\ y.m.closed = x.m.closed /\ y.m.tearing = x.m.tearing
          /\ y.m.fail = x.m.fail
          /\ y.a.close = x.a.close \/ y.a.close = "requested"
        BY <2>3, <2>4, EnqueueKeeps
    <2> HIDE DEF y
    <2>6. /\ Solid(z, seen) /\ z.m.closed = y.m.closed /\ z.m.tearing = y.m.tearing
          /\ z.m.fail = y.m.fail
        <3>1. Solid(y, seen) /\ y.a.close # "open"
            BY <2>2, <2>5
        <3> QED  BY <2>4, <3>1, EnqueueKeeps, ZenonT(60)
    <2> HIDE DEF z
    <2> QED  BY <2>1, <2>2, <2>5, <2>6
<1> QED  BY <1>1, <1>2

\* However the session stood, it is closed and whole after its end.
LEMMA TeardownKeeps ==
    ASSUME NEW c, NEW seen, Solid(c, seen), NEW takeover \in BOOLEAN
    PROVE  LET d == Teardown(c, takeover)
           IN /\ Solid(d, seen) /\ d.m.closed
              /\ d.m.tearing => c.m.tearing
<1> DEFINE x == [c EXCEPT !.m.closed = TRUE, !.m.tearing = TRUE, !.m.queue = <<>>]
           g == c.m.flow
           y == CancelTurn(x)
           out == Output("terminal", g, FALSE)
           z == EndAtGate(y, g)
           f == Ended(z)
<1>0. c \in Composites
    BY DEF Solid, Piped
<1>1. CASE c.m.closed
    <2>1. Teardown(c, takeover) = c
        BY <1>1 DEF Teardown
    <2> QED  BY <1>1, <2>1
<1>2. CASE ~c.m.closed
    <2>1. Teardown(c, takeover) = IF takeover THEN CloseTransport(f) ELSE f
        BY <1>2 DEF Teardown
    <2>2. /\ x \in Composites /\ x.e = c.e /\ x.a = c.a /\ x.w = c.w
          /\ x.m.closed = TRUE /\ x.m.queue = <<>> /\ x.m.fail = c.m.fail
          /\ x.m.flow = c.m.flow
        <3>1. <<>> \in Seq(ResponseOutputs)
            OBVIOUS
        <3> QED  BY <1>0, <3>1, Zenon DEF Composites, MediaSessions
    <2> HIDE DEF x
    <2>3. Solid(x, seen) /\ ~Lives(x)
        <3>1. Piped(x, seen)
            BY <2>2 DEF Solid, Piped, AgreesInv, GateInv, Talks
        <3>2. \A h \in Turns : ~Has(x.m.queue, "started", h)
            BY <2>2, HasNothing
        <3> QED  BY <2>2, <3>1, <3>2 DEF Solid, Lives
    <2>4. Sound(y, seen) /\ Around(x, y)
        <3>1. Steady(x, seen)
            BY <2>2, <2>3, OverIsSound DEF Sound
        <3> QED  BY <2>3, <3>1, CancelKeeps
    <2> HIDE DEF y
    <2>5. y.m.closed /\ ~Lives(y) /\ Steady(y, seen)
        BY <2>2, <2>4 DEF Around, Lives, Sound
    <2>6. Solid(z, seen) /\ z.m.closed
        <3>1. CASE g = NoTurn \/ Retired(y, g)
            <4>1. z = y
                BY <3>1 DEF EndAtGate
            <4> HIDE DEF z
            <4> QED  BY <2>5, <4>1 DEF Steady, Base
        <3>2. CASE ~(g = NoTurn \/ Retired(y, g))
            <4>1. z = Gate(y, out)
                BY <3>2 DEF EndAtGate
            <4>2. g \in Turns
                BY <1>0, <3>2, CompositeParts DEF Responses
            <4> HIDE DEF g, z
            <4>3. out \in ResponseOutputs /\ out.t = "terminal" /\ out.g = g
                BY <4>2 DEF Output, ResponseOutputs, Outputs
            <4> HIDE DEF out
            <4>4. Fits(y, seen, out)
                BY <2>5, <4>3 DEF Fits
            <4>5. Gated(y, Gate(y, out), seen, out)
                BY <2>5, <4>3, <4>4, GateKeeps
            <4> QED  BY <2>5, <4>1, <4>5 DEF Gated, Frame, Steady, Base
        <3> QED  BY <3>1, <3>2
    <2> HIDE DEF z
    <2>7. Solid(f, seen) /\ f.m.closed /\ ~f.m.tearing
        <3>1. z \in Composites
            BY <2>6 DEF Solid, Piped
        <3>2. /\ f \in Composites /\ f.e = z.e /\ f.a = z.a /\ f.w = z.w
              /\ f.m.closed = z.m.closed /\ f.m.active = z.m.active /\ f.m.flow = z.m.flow
              /\ f.m.paused = z.m.paused /\ f.m.by = z.m.by /\ f.m.queue = z.m.queue
              /\ f.m.retired = z.m.retired /\ f.m.fail = z.m.fail
              /\ f.m.feedback = z.m.feedback /\ f.m.tearing = FALSE
            BY <3>1, Zenon DEF Ended, Composites, MediaSessions
        <3> HIDE DEF f
        <3>3. SameGate(z, f)
            BY <2>6, <3>2 DEF SameGate
        <3> QED  BY <2>6, <3>2, <3>3, SameGateKeeps
    <2> HIDE DEF f
    <2>8. Solid(CloseTransport(f), seen) /\ CloseTransport(f).m.closed
          /\ ~CloseTransport(f).m.tearing
        BY <2>7, TransportCloses
    <2> QED  BY <2>1, <2>7, <2>8
<1> QED  BY <1>1, <1>2

LEMMA FatalIs ==
    ASSUME NEW c, NEW seen, Solid(c, seen), NEW g
    PROVE  LET d == Fatal(c, g)
           IN Solid(d, seen) /\ d.m.closed = c.m.closed /\ d.m.tearing = c.m.tearing
<1> DEFINE fb == c.m.feedback
           f == [h \in Turns |-> IF h = g /\ ~c.m.closed
                                 THEN [fb[h] EXCEPT !.st = "failed"] ELSE fb[h]]
           d == [c EXCEPT !.a.fatal = TRUE, !.a.timers = {}, !.m.feedback = f]
<1>0. c \in Composites /\ Piped(c, seen)
    BY DEF Solid, Piped
<1>1. Fatal(c, g) = d
    BY <1>0, Zenon DEF Fatal, Composites, MediaSessions
<1>2. f \in [Turns -> Feedbacks]
    <2>1. fb \in [Turns -> Feedbacks]
        BY <1>0, CompositeParts
    <2> HIDE DEF fb
    <2>2. \A h \in Turns : [fb[h] EXCEPT !.st = "failed"] \in Feedbacks
        <3> TAKE h \in Turns
        <3> DEFINE b == fb[h]
        <3>1. b \in Feedbacks
            BY <2>1
        <3> HIDE DEF b
        <3>2. [b EXCEPT !.st = "failed"] \in Feedbacks
            BY <3>1 DEF Feedbacks
        <3> QED  BY <3>2 DEF b
    <2> QED  BY <2>1, <2>2
<1>3. {} \in SUBSET Turns
    OBVIOUS
<1> HIDE DEF f
<1>4. /\ d \in Composites /\ d.e = c.e /\ d.w = c.w
      /\ d.a.active = c.a.active /\ d.a.produced = c.a.produced
      /\ d.a.pausedGen = c.a.pausedGen /\ d.a.tripped = c.a.tripped /\ d.a.close = c.a.close
      /\ d.m.closed = c.m.closed /\ d.m.flow = c.m.flow /\ d.m.tearing = c.m.tearing
      /\ d.m.paused = c.m.paused /\ d.m.by = c.m.by /\ d.m.queue = c.m.queue
      /\ d.m.fail = c.m.fail /\ d.m.ending = c.m.ending
    BY <1>0, <1>2, <1>3, Zenon DEF Composites, MediaSessions, Adapters
<1> HIDE DEF d
<1>5. Piped(d, seen)
    BY <1>0, <1>4 DEF Piped, AgreesInv, GateInv, Talks
<1>6. Solid(d, seen)
    BY <1>4, <1>5 DEF Solid
<1> QED  BY <1>1, <1>4, <1>6

LEMMA FailureForgotten ==
    ASSUME NEW c, NEW seen, Solid(c, seen)
    PROVE  LET d == [c EXCEPT !.m.fail = NoTurn]
           IN /\ Solid(d, seen) /\ d.m.closed = c.m.closed /\ d.m.tearing = c.m.tearing
              /\ d.m.fail = NoTurn
<1> DEFINE d == [c EXCEPT !.m.fail = NoTurn]
<1>0. c \in Composites /\ Piped(c, seen)
    BY DEF Solid, Piped
<1>1. NoTurn \in Responses
    BY DEF Responses
<1>2. /\ d \in Composites /\ d.e = c.e /\ d.a = c.a /\ d.w = c.w
      /\ d.m.closed = c.m.closed /\ d.m.flow = c.m.flow /\ d.m.tearing = c.m.tearing
      /\ d.m.paused = c.m.paused /\ d.m.by = c.m.by /\ d.m.queue = c.m.queue
      /\ d.m.fail = NoTurn /\ d.m.ending = c.m.ending
    BY <1>0, <1>1, Zenon DEF Composites, MediaSessions
<1> HIDE DEF d
<1>3. Piped(d, seen)
    BY <1>0, <1>2 DEF Piped, AgreesInv, GateInv, Talks
<1>4. Solid(d, seen)
    BY <1>2, <1>3 DEF Solid
<1> QED  BY <1>2, <1>4 DEF d

\* A failure ends the session, whatever else it finds.
LEMMA FailureEnds ==
    ASSUME NEW c, NEW seen, Solid(c, seen), ~c.m.tearing,
           c.a.fatal \/ c.a.close = "closed" => c.m.closed, NEW g
    PROVE  LET d == FailInternal(c, g)
           IN /\ Solid(d, seen) /\ d.m.closed /\ ~d.m.tearing /\ d.m.fail = NoTurn
<1> DEFINE v == [c EXCEPT !.m.fail = NoTurn]
           x == Fatal(c, g)
           y == Teardown(x, FALSE)
           z == [y EXCEPT !.m.fail = NoTurn]
           msg == Message("error", 0, 0)
           e == Enqueue(z, msg)
           d == [e EXCEPT !.a.soon = TRUE]
<1>1. CASE c.a.fatal \/ c.a.close = "closed"
    <2>1. FailInternal(c, g) = v
        BY <1>1 DEF FailInternal
    <2>2. /\ Solid(v, seen) /\ v.m.closed = c.m.closed /\ v.m.tearing = c.m.tearing
          /\ v.m.fail = NoTurn
        BY FailureForgotten
    <2> HIDE DEF v
    <2> QED  BY <1>1, <2>1, <2>2
<1>2. CASE ~(c.a.fatal \/ c.a.close = "closed")
    <2>1. FailInternal(c, g) = d
        BY <1>2 DEF FailInternal, ReportInternal
    <2>2. Solid(x, seen) /\ x.m.tearing = c.m.tearing
        BY FatalIs
    <2> HIDE DEF x
    <2>3. Solid(y, seen) /\ y.m.closed /\ ~y.m.tearing
        BY <2>2, TeardownKeeps
    <2> HIDE DEF y
    <2>4. Solid(z, seen) /\ z.m.closed /\ ~z.m.tearing /\ z.m.fail = NoTurn
        BY <2>3, FailureForgotten
    <2>5. msg \in WireMessages /\ msg.t = "error"
        BY MessageIs
    <2> HIDE DEF z, msg
    <2>6. Solid(e, seen) /\ e.m.closed /\ ~e.m.tearing /\ e.m.fail = NoTurn
        BY <2>4, <2>5, EnqueueKeeps
    <2> HIDE DEF e
    <2>7. SamePipe(e, d)
        <3>1. e \in Composites
            BY <2>6 DEF Solid, Piped
        <3>2. /\ d \in Composites /\ d.e = e.e /\ d.m = e.m /\ d.w = e.w
              /\ d.a.active = e.a.active /\ d.a.produced = e.a.produced
              /\ d.a.pausedGen = e.a.pausedGen /\ d.a.tripped = e.a.tripped
              /\ d.a.close = e.a.close
            BY <3>1, Zenon DEF Composites, Adapters
        <3> HIDE DEF d
        <3> QED  BY <3>2 DEF SamePipe
    <2> HIDE DEF d
    <2>8. Solid(d, seen) /\ d.m = e.m
        BY <2>6, <2>7, SamePipeKeeps DEF SamePipe
    <2> QED  BY <2>1, <2>6, <2>8
<1> QED  BY <1>1, <1>2

LEMMA DoneKeeps ==
    ASSUME NEW c, NEW seen, Sound(c, seen), ~c.m.tearing
    PROVE  Calm(Done(c), seen)
<1>1. CASE c.m.fail = NoTurn
    BY <1>1 DEF Done, Calm
<1>2. CASE c.m.fail # NoTurn
    <2> DEFINE d == FailInternal(c, c.m.fail)
    <2>1. Done(c) = d
        BY <1>2 DEF Done
    <2>2. Solid(d, seen) /\ d.m.closed /\ ~d.m.tearing /\ d.m.fail = NoTurn
        BY FailureEnds DEF Sound, Steady, Base
    <2> HIDE DEF d
    <2> QED  BY <2>1, <2>2, OverIsSound DEF Calm
<1> QED  BY <1>1, <1>2

-----------------------------------------------------------------------------
(* Upwards: the writer drains                                              *)

\* Who is paused, and what the adapter remembers of it, matters to GateInv alone.
SameFlow(c, d) ==
    /\ d \in Composites /\ d.e = c.e
    /\ d.m.closed = c.m.closed /\ d.m.tearing = c.m.tearing /\ d.m.active = c.m.active
    /\ d.m.flow = c.m.flow /\ d.m.queue = c.m.queue /\ d.m.retired = c.m.retired
    /\ d.m.fail = c.m.fail /\ d.m.ending = c.m.ending /\ d.m.feedback = c.m.feedback
    /\ d.a.active = c.a.active /\ d.a.produced = c.a.produced /\ d.a.timers = c.a.timers
    /\ d.a.close = c.a.close /\ d.a.fatal = c.a.fatal /\ d.a.soon = c.a.soon
    /\ d.a.tripped = c.a.tripped /\ d.w.q = c.w.q /\ d.w.failed = c.w.failed

LEMMA SameFlowKeeps ==
    ASSUME NEW c, NEW d, NEW seen, SameFlow(c, d), GateInv(d), Sound(c, seen)
    PROVE  /\ Steady(d, seen) /\ Around(c, d)
           /\ Lives(d) <=> Lives(c)
           /\ Lives(d) => SettleInv(d, seen) /\ FreshInv(d)
           /\ OpenInv(d) => Sound(d, seen)
<1>0. Piped(c, seen) /\ Solid(c, seen) /\ Base(c, seen) /\ Steady(c, seen)
    BY DEF Sound, Steady, Base, Solid
<1>1. AgreesInv(d, seen)
    BY <1>0 DEF SameFlow, AgreesInv, Piped, Talks
<1>2. Piped(d, seen)
    BY <1>0, <1>1 DEF SameFlow, Piped
<1>3. Solid(d, seen)
    BY <1>0, <1>2 DEF SameFlow, Solid
<1>4. Base(d, seen)
    BY <1>0, <1>3 DEF SameFlow, Base
<1>5. Lives(d) <=> Lives(c)
    BY DEF SameFlow, Lives
<1>6. Live(c, seen) => Live(d, seen)
    <2>1. FlowInv(c, Final(seen, c.w.q).last) => FlowInv(d, Final(seen, d.w.q).last)
        BY DEF SameFlow, FlowInv
    <2>2. TurnInv(c) => TurnInv(d)
        BY DEF SameFlow, TurnInv
    <2> QED  BY <2>1, <2>2 DEF SameFlow, Live
<1>7. Steady(d, seen)
    BY <1>0, <1>4, <1>5, <1>6 DEF Steady
<1>8. SettleInv(c, seen) => SettleInv(d, seen)
    BY DEF SameFlow, SettleInv, Known, Ending
<1>9. FreshInv(c) => FreshInv(d)
    BY DEF SameFlow, FreshInv, Sent
<1>10. Lives(d) => SettleInv(d, seen) /\ FreshInv(d)
    BY <1>5, <1>8, <1>9 DEF Sound
<1>11. Around(c, d)
    BY DEF SameFlow, Around
<1> QED  BY <1>5, <1>7, <1>10, <1>11 DEF Sound

LEMMA CheckLowKeeps ==
    ASSUME NEW c, NEW seen, Sound(c, seen)
    PROVE  Sound(CheckLow(c), seen) /\ Around(c, CheckLow(c))
<1> DEFINE f == CheckLow(c)
           x == [c EXCEPT !.w.paused = FALSE]
           d == [x EXCEPT !.a.pausedGen = NoTurn]
           y == [d EXCEPT !.m.paused = FALSE, !.m.by = NoTurn]
           shut == x.a.pausedGen = NoTurn \/ x.a.fatal \/ x.m.closed
                       \/ x.a.pausedGen # x.m.by
<1>0. c \in Composites /\ GateInv(c)
      /\ (~c.m.closed => ~c.a.fatal) /\ (Lives(c) => OpenInv(c))
    BY DEF Sound, Steady, Base, Solid, Piped
<1>1. CASE ~(c.w.paused /\ Len(c.w.q) <= Low)
    <2>1. f = c
        BY <1>1 DEF CheckLow
    <2> QED  BY <2>1 DEF Around
<1>2. CASE c.w.paused /\ Len(c.w.q) <= Low
    <2>1. f = IF shut THEN d ELSE Flush(y)
        BY <1>2 DEF CheckLow, ResumeFlow
    <2>2. NoTurn \in Responses /\ FALSE \in BOOLEAN
        BY DEF Responses
    <2>3. /\ x \in Composites /\ x.e = c.e /\ x.m = c.m /\ x.a = c.a
          /\ x.w.q = c.w.q /\ x.w.failed = c.w.failed
        BY <1>0, Zenon DEF Composites, Writers
    <2>4. shut <=> (c.a.pausedGen = NoTurn \/ c.a.fatal \/ c.m.closed
                        \/ c.a.pausedGen # c.m.by)
        BY <2>3
    <2> HIDE DEF x, shut
    <2>5. /\ d \in Composites /\ d.e = x.e /\ d.m = x.m /\ d.w = x.w
          /\ d.a.active = x.a.active /\ d.a.produced = x.a.produced
          /\ d.a.timers = x.a.timers /\ d.a.close = x.a.close /\ d.a.fatal = x.a.fatal
          /\ d.a.soon = x.a.soon /\ d.a.tripped = x.a.tripped
        BY <2>2, <2>3, Zenon DEF Composites, Adapters
    <2> HIDE DEF d
    <2>6. SameFlow(c, d)
        BY <2>3, <2>5 DEF SameFlow
    <2>7. CASE shut
        <3>1. GateInv(d) /\ (Lives(c) => OpenInv(d))
            BY <1>0, <2>3, <2>4, <2>5, <2>7 DEF GateInv, OpenInv
        <3>2. Steady(d, seen) /\ Around(c, d) /\ (Lives(d) <=> Lives(c))
              /\ (Lives(d) => SettleInv(d, seen) /\ FreshInv(d))
            BY <2>6, <3>1, SameFlowKeeps
        <3> QED  BY <2>1, <2>7, <3>1, <3>2 DEF Sound
    <2>8. CASE ~shut
        <3>1. /\ y \in Composites /\ y.e = d.e /\ y.a = d.a /\ y.w = d.w
              /\ y.m.paused = FALSE
              /\ y.m.closed = d.m.closed /\ y.m.tearing = d.m.tearing
              /\ y.m.active = d.m.active /\ y.m.flow = d.m.flow
              /\ y.m.queue = d.m.queue /\ y.m.retired = d.m.retired
              /\ y.m.fail = d.m.fail /\ y.m.ending = d.m.ending
              /\ y.m.feedback = d.m.feedback
            BY <2>2, <2>5, Zenon DEF Composites, MediaSessions
        <3> HIDE DEF y
        <3>2. SameFlow(c, y) /\ GateInv(y)
            BY <2>6, <3>1 DEF SameFlow, GateInv
        <3>3. Steady(y, seen) /\ Around(c, y)
              /\ (Lives(y) => SettleInv(y, seen) /\ FreshInv(y))
            BY <3>2, SameFlowKeeps
        <3> DEFINE z == Flush(y)
        <3>4. /\ Steady(z, seen) /\ Frame(y, z) /\ OpenInv(z)
              /\ Lives(z) /\ SettleInv(y, seen) => SettleInv(z, seen)
              /\ Lives(z) /\ FreshInv(y) => FreshInv(z)
            BY <3>3, FlushKeeps
        <3>5. f = z
            BY <2>1, <2>8
        <3> HIDE DEF z, f
        <3>6. Lives(z) => Lives(y)
            BY <3>4 DEF Frame, Lives
        <3>7. Sound(z, seen)
            BY <3>3, <3>4, <3>6 DEF Sound
        <3>8. Around(y, z)
            BY <3>4 DEF Frame, Around
        <3> QED  BY <3>3, <3>5, <3>7, <3>8, AroundChain DEF f
    <2> QED  BY <2>7, <2>8
<1> QED  BY <1>1, <1>2

\* The message is taken from the queue.  Only what the media session counts of it,
\* and a settlement's end, are left to be kept.
Taking(c, b, seen, n, msg) ==
    /\ b \in Composites /\ b.e = c.e /\ b.m = c.m /\ b.a = c.a
    /\ b.w.q = Tail(c.w.q) /\ b.w.failed = c.w.failed /\ b.w.paused = c.w.paused
    /\ msg = Head(c.w.q) /\ n = After(seen, msg)
    /\ Base(b, n) /\ Final(n, b.w.q) = Final(seen, c.w.q)
    /\ \A t, g : Has(b.w.q, t, g) => Has(c.w.q, t, g)
    /\ \A t, g : Has(c.w.q, t, g) => Has(b.w.q, t, g) \/ (msg.t = t /\ msg.g = g)

LEMMA TakingIs ==
    ASSUME NEW c, NEW seen, Base(c, seen), c.w.q # <<>>
    PROVE  Taking(c, [c EXCEPT !.w.q = Tail(@)], seen, After(seen, Head(c.w.q)),
                  Head(c.w.q))
<1> DEFINE b == [c EXCEPT !.w.q = Tail(@)]
           msg == Head(c.w.q)
           n == After(seen, msg)
<1>0. /\ c \in Composites /\ WireInv(seen, c.w.q) /\ AgreesInv(c, seen)
      /\ Piped(c, seen) /\ Solid(c, seen)
    BY DEF Base, Solid, Piped
<1>1. c.w.q \in Seq(WireMessages)
    BY <1>0, CompositeParts
<1>2. /\ b \in Composites /\ b.e = c.e /\ b.m = c.m /\ b.a = c.a
      /\ b.w.q = Tail(c.w.q) /\ b.w.failed = c.w.failed /\ b.w.paused = c.w.paused
    <2>1. Tail(c.w.q) \in Seq(WireMessages)
        BY <1>1
    <2> QED  BY <1>0, <2>1, Zenon DEF Composites, Writers
<1> HIDE DEF b
<1>3. WireInv(n, b.w.q) /\ Final(n, b.w.q) = Final(seen, c.w.q)
    BY <1>0, <1>2, WireTail
<1>4. \A t, g : Has(c.w.q, t, g) <=> (msg.t = t /\ msg.g = g) \/ Has(b.w.q, t, g)
    BY <1>1, <1>2, HasTail
<1> HIDE DEF n, msg
<1>5. AgreesInv(b, n)
    BY <1>0, <1>2, <1>3 DEF AgreesInv, Talks
<1>6. Piped(b, n)
    BY <1>0, <1>2, <1>3, <1>4, <1>5 DEF Piped, GateInv
<1>7. Solid(b, n)
    BY <1>0, <1>2, <1>6 DEF Solid
<1>8. Base(b, n)
    BY <1>2, <1>7 DEF Base
<1> QED  BY <1>2, <1>3, <1>4, <1>8 DEF Taking, b, n, msg

\* What the client is told by the message does not contradict what was counted.
LEMMA TakingLives ==
    ASSUME NEW c, NEW b, NEW seen, NEW n, NEW msg, Taking(c, b, seen, n, msg),
           Sound(c, seen), Lives(c), msg.t # "audio", c.w.q # <<>>
    PROVE  Live(b, n) /\ OpenInv(b)
<1>0. Live(c, seen) /\ OpenInv(c) /\ c \in Composites /\ WireInv(seen, c.w.q)
    BY DEF Sound, Steady, Base, Solid, Piped
<1>1. /\ b.e = c.e /\ b.m = c.m /\ b.a = c.a /\ n = After(seen, msg)
      /\ Final(n, b.w.q) = Final(seen, c.w.q) /\ msg = Head(c.w.q)
    BY DEF Taking
<1>2. \A t, g : Has(b.w.q, t, g) => Has(c.w.q, t, g)
    BY DEF Taking
<1>3. FeedbackInv(b.m.feedback, n, b.w.q)
    <2>1. /\ Legal(seen, msg) /\ msg \in WireMessages
          /\ seen \in Tellings /\ seen.open \in {NoTurn, seen.last}
        BY <1>0, <1>1, WireTail
    <2>2. /\ n \in Tellings /\ seen.last <= n.last
          /\ msg.t = "created" => /\ n.open = msg.g /\ n.last = msg.g /\ n.next = 0
                                  /\ seen.last < msg.g
          /\ msg.t = "done" => n.open = NoTurn /\ n.last = seen.last
          /\ msg.t \notin {"created", "audio", "done"} => n = seen
        BY <1>1, <2>1, LegalTelling
    <2>3. seen.last \in Nat /\ n.last \in Nat /\ Turns \subseteq Nat /\ NoTurn \notin Turns
        BY <2>1, <2>2 DEF Tellings, Responses, Turns, NoTurn
    <2>4. FeedbackInv(c.m.feedback, seen, c.w.q)
        BY <1>0 DEF Live
    <2>5. ASSUME NEW g \in Turns, c.m.feedback[g].st = "live"
          PROVE  /\ g = n.open => c.m.feedback[g].next = n.next
                 /\ n.last < g => c.m.feedback[g].next = 0
        <3>1. /\ g = seen.open => c.m.feedback[g].next = seen.next
              /\ seen.last < g => c.m.feedback[g].next = 0
            BY <2>4, <2>5 DEF FeedbackInv
        <3>2. g \in Nat
            BY <2>3
        <3>3. CASE msg.t = "created"
            BY <2>2, <2>3, <3>1, <3>2, <3>3
        <3>4. CASE msg.t = "done"
            BY <2>2, <2>3, <3>1, <3>2, <3>4
        <3>5. CASE msg.t \notin {"created", "done"}
            BY <2>2, <3>1, <3>5
        <3> QED  BY <3>3, <3>4, <3>5
    <2> QED  BY <1>1, <1>2, <2>4, <2>5 DEF FeedbackInv
<1>4. FlowInv(b, Final(n, b.w.q).last)
    BY <1>0, <1>1 DEF Live, FlowInv
<1>5. TurnInv(b)
    BY <1>0, <1>1 DEF Live, TurnInv
<1>6. QueueInv(b.m.queue, b.e.next, Final(n, b.w.q).last, b.e.fired, b.m.feedback)
    BY <1>0, <1>1 DEF Live
<1> QED  BY <1>0, <1>1, <1>3, <1>4, <1>5, <1>6 DEF Live, OpenInv

\* A message that is not the end of the settlement's response changes none of it.
LEMMA TakingSettles ==
    ASSUME NEW c, NEW b, NEW seen, NEW n, NEW msg, Taking(c, b, seen, n, msg),
           Sound(c, seen), Lives(c),
           c.e.settle.phase = "wire" => ~(msg.t = "done" /\ msg.g = c.e.settle.g)
    PROVE  SettleInv(b, n) /\ FreshInv(b)
<1>1. /\ b.e = c.e /\ b.m = c.m /\ b.a = c.a
      /\ Final(n, b.w.q) = Final(seen, c.w.q)
    BY DEF Taking
<1>2. c.e.settle.phase = "wire" =>
          (Has(c.w.q, "done", c.e.settle.g) => Has(b.w.q, "done", c.e.settle.g))
    BY DEF Taking
<1>3. SettleInv(c, seen) /\ FreshInv(c)
    BY DEF Sound
<1>4. SettleInv(b, n)
    BY <1>1, <1>2, <1>3 DEF SettleInv, Known, Ending
<1>5. FreshInv(b)
    BY <1>1, <1>2, <1>3 DEF FreshInv, Sent
<1> QED  BY <1>4, <1>5

-----------------------------------------------------------------------------
(* The handoff of each kind of message                                     *)

\* What the media session knows of the frames may move on.
Counted(c, f) == [c EXCEPT !.m.feedback = f]

LEMMA CountedIs ==
    ASSUME NEW c \in Composites, NEW f \in [Turns -> Feedbacks]
    PROVE  LET d == Counted(c, f)
           IN /\ d \in Composites /\ d.e = c.e /\ d.a = c.a /\ d.w = c.w
              /\ d.m.closed = c.m.closed /\ d.m.tearing = c.m.tearing
              /\ d.m.active = c.m.active /\ d.m.flow = c.m.flow
              /\ d.m.paused = c.m.paused /\ d.m.by = c.m.by /\ d.m.queue = c.m.queue
              /\ d.m.retired = c.m.retired /\ d.m.fail = c.m.fail
              /\ d.m.ending = c.m.ending /\ d.m.feedback = f
  BY Zenon DEF Counted, Composites, MediaSessions

LEMMA CountedKeeps ==
    ASSUME NEW c, NEW n, Base(c, n), NEW f \in [Turns -> Feedbacks]
    PROVE  LET d == Counted(c, f)
           IN /\ Base(d, n) /\ Around(c, d) /\ (Lives(d) <=> Lives(c))
              /\ OpenInv(c) => OpenInv(d)
              /\ SettleInv(c, n) => SettleInv(d, n)
              /\ FreshInv(c) => FreshInv(d)
              /\ TurnInv(c) => TurnInv(d)
<1> DEFINE d == Counted(c, f)
<1>0. c \in Composites /\ Piped(c, n) /\ Solid(c, n)
    BY DEF Base, Solid, Piped
<1>1. /\ d \in Composites /\ d.e = c.e /\ d.a = c.a /\ d.w = c.w
      /\ d.m.closed = c.m.closed /\ d.m.tearing = c.m.tearing
      /\ d.m.active = c.m.active /\ d.m.flow = c.m.flow
      /\ d.m.paused = c.m.paused /\ d.m.by = c.m.by /\ d.m.queue = c.m.queue
      /\ d.m.retired = c.m.retired /\ d.m.fail = c.m.fail /\ d.m.ending = c.m.ending
    BY <1>0, CountedIs
<1> HIDE DEF d
<1>2. Piped(d, n)
    BY <1>0, <1>1 DEF Piped, AgreesInv, GateInv, Talks
<1>3. Solid(d, n)
    BY <1>0, <1>1, <1>2 DEF Solid
<1>4. Base(d, n)
    BY <1>1, <1>3 DEF Base
<1>5. SettleInv(c, n) => SettleInv(d, n)
    BY <1>1 DEF SettleInv, Known, Ending
<1>6. FreshInv(c) => FreshInv(d)
    BY <1>1 DEF FreshInv, Sent
<1>7. TurnInv(c) => TurnInv(d)
    BY <1>1 DEF TurnInv
<1>8. Around(c, d) /\ (Lives(d) <=> Lives(c)) /\ (OpenInv(c) => OpenInv(d))
    BY <1>1 DEF Around, Lives, OpenInv
<1> QED  BY <1>4, <1>5, <1>6, <1>7, <1>8 DEF d

\* A frame that the socket took is the next of its response.
LEMMA AudioTaken ==
    ASSUME NEW c, NEW b, NEW seen, NEW n, NEW msg, Taking(c, b, seen, n, msg),
           Sound(c, seen), c.m.fail = NoTurn, msg.t = "audio", c.w.q # <<>>
    PROVE  Sound(CountFrame(b, msg), n) /\ Around(c, CountFrame(b, msg))
<1> DEFINE x == CountFrame(b, msg)
           g == msg.g
           fb == b.m.feedback
           f == [fb EXCEPT ![g].next = @ + 1]
<1>0. /\ c \in Composites /\ WireInv(seen, c.w.q) /\ Base(b, n) /\ b \in Composites
      /\ Base(c, seen)
    BY DEF Sound, Steady, Base, Solid, Piped, Taking
<1>1. /\ b.e = c.e /\ b.m = c.m /\ b.a = c.a /\ n = After(seen, msg)
      /\ Final(n, b.w.q) = Final(seen, c.w.q) /\ msg = Head(c.w.q)
    BY DEF Taking
<1>2. \A t, h : Has(b.w.q, t, h) => Has(c.w.q, t, h)
    BY DEF Taking
<1>3. Legal(seen, msg) /\ msg \in WireMessages
      /\ seen \in Tellings /\ seen.open \in {NoTurn, seen.last}
    BY <1>0, <1>1, WireTail
<1>4. /\ n.open = seen.open /\ n.last = seen.last /\ n.next = seen.next + 1
      /\ seen.open = g /\ seen.next = msg.k /\ seen.next \in Nat
    BY <1>1, <1>3, LegalTelling DEF Tellings
<1>5. g \in Turns /\ fb \in [Turns -> Feedbacks]
    BY <1>0, <1>3, WireMessageIs, CompositeParts
<1>6. CASE b.m.closed
    <2>1. x = b
        BY <1>6 DEF CountFrame
    <2>2. Sound(b, n)
        BY <1>0, <1>6, OverIsSound DEF Base
    <2> QED  BY <1>1, <2>1, <2>2 DEF Around
<1>7. CASE ~b.m.closed
    <2>1. Lives(c) /\ ~b.a.fatal
        BY <1>0, <1>1, <1>7 DEF Lives, Base
    <2>2. Live(c, seen) /\ OpenInv(c)
        BY <2>1 DEF Sound, Steady
    <2>3. SettleInv(b, n) /\ FreshInv(b)
        BY <2>1, TakingSettles
    <2>4. FeedbackInv(fb, seen, c.w.q) /\ TurnInv(b) /\ OpenInv(b)
        BY <1>1, <2>2 DEF Live, TurnInv, OpenInv
    <2>5. FlowInv(b, Final(n, b.w.q).last)
        BY <1>1, <2>2 DEF Live, FlowInv
    <2>6. QueueInv(b.m.queue, b.e.next, Final(n, b.w.q).last, b.e.fired, fb)
        BY <1>1, <2>2 DEF Live
    <2>7. CASE fb[g].st # "live"
        <3>1. x = b
            BY <2>7 DEF CountFrame
        <3>2. FeedbackInv(fb, n, b.w.q)
            BY <1>2, <1>4, <2>4, <2>7 DEF FeedbackInv
        <3>3. Live(b, n)
            BY <2>4, <2>5, <2>6, <3>2 DEF Live
        <3>4. Sound(b, n)
            BY <1>0, <2>3, <2>4, <3>3 DEF Sound, Steady
        <3> QED  BY <1>1, <3>1, <3>4 DEF Around
    <2>8. CASE fb[g].st = "live"
        <3>1. fb[g].next = msg.k
            BY <1>4, <1>5, <2>4, <2>8 DEF FeedbackInv
        <3>2. x = [b EXCEPT !.m.feedback[g].next = @ + 1]
            BY <1>7, <2>1, <2>8, <3>1 DEF CountFrame
        <3>3. x = Counted(b, f)
            BY <1>0, <1>5, <3>2, Zenon DEF Counted, Composites, MediaSessions
        <3>4. /\ f \in [Turns -> Feedbacks]
              /\ \A h \in Turns : f[h].st = fb[h].st
              /\ \A h \in Turns \ {g} : f[h] = fb[h]
              /\ f[g].next = fb[g].next + 1
            <4> HIDE DEF fb
            <4> DEFINE v == fb[g]
            <4>1. v \in Feedbacks
                BY <1>5
            <4> HIDE DEF v
            <4>2. /\ [v EXCEPT !.next = @ + 1] \in Feedbacks
                  /\ [v EXCEPT !.next = @ + 1].st = v.st
                  /\ [v EXCEPT !.next = @ + 1].next = v.next + 1
                BY <4>1 DEF Feedbacks
            <4>3. f = [fb EXCEPT ![g] = [v EXCEPT !.next = @ + 1]]
                BY DEF v
            <4> HIDE DEF f
            <4>4. f[g] = [v EXCEPT !.next = @ + 1] /\ \A h \in Turns \ {g} : f[h] = fb[h]
                BY <1>5, <4>3
            <4>5. f \in [Turns -> Feedbacks]
                BY <1>5, <4>2, <4>3
            <4> QED  BY <4>2, <4>4, <4>5 DEF v
        <3> HIDE DEF f, x
        <3>5. x.m.feedback = f /\ x.e = b.e /\ x.m.queue = b.m.queue
              /\ x.m.flow = b.m.flow /\ x.a = b.a /\ x.w = b.w
            BY <1>0, <3>3, <3>4, CountedIs
        <3>6. /\ Base(x, n) /\ Around(b, x) /\ (Lives(x) <=> Lives(b))
              /\ OpenInv(x) /\ SettleInv(x, n) /\ FreshInv(x) /\ TurnInv(x)
            BY <1>0, <2>3, <2>4, <3>3, <3>4, CountedKeeps
        <3>7. FeedbackInv(f, n, b.w.q)
            <4>1. \A h \in Turns : Has(b.w.q, "done", h) => f[h].st = "live"
                BY <1>2, <2>4, <3>4 DEF FeedbackInv
            <4>2. ASSUME NEW h \in Turns, f[h].st = "live"
                  PROVE  /\ h = n.open => f[h].next = n.next
                         /\ n.last < h => f[h].next = 0
                <5>1. CASE h = g
                    <6>1. ~(n.last < g)
                        <7>1. g = seen.last /\ g # NoTurn /\ g \in Nat
                            BY <1>3, <1>4, <1>5 DEF Turns, NoTurn
                        <7> QED  BY <1>4, <7>1
                    <6> QED  BY <1>4, <3>1, <3>4, <5>1, <6>1
                <5>2. CASE h # g
                    BY <1>4, <2>4, <3>4, <4>2, <5>2 DEF FeedbackInv
                <5> QED  BY <5>1, <5>2
            <4> QED  BY <4>1, <4>2 DEF FeedbackInv
        <3>8. QueueInv(x.m.queue, x.e.next, Final(n, x.w.q).last, x.e.fired, f)
            <4>1. b.m.queue \in Seq(ResponseOutputs)
                BY <1>0, CompositeParts
            <4>2. \A i \in 1..Len(b.m.queue) : b.m.queue[i].g \in Turns
                <5> TAKE i \in 1..Len(b.m.queue)
                <5>1. b.m.queue[i] \in ResponseOutputs
                    BY <4>1
                <5> QED  BY <5>1, OutputIs
            <4> QED  BY <2>6, <3>4, <3>5, <4>2, SMTT(30) DEF QueueInv
        <3>9. FlowInv(x, Final(n, x.w.q).last)
            <4>1. b.a.active \in Responses
                BY <1>0, CompositeParts
            <4> QED  BY <2>5, <3>4, <3>5, <4>1 DEF FlowInv, Responses
        <3>10. Live(x, n)
            BY <3>5, <3>6, <3>7, <3>8, <3>9 DEF Live
        <3>11. Sound(x, n)
            BY <3>6, <3>10 DEF Sound, Steady
        <3>12. Around(c, x)
            BY <1>1, <3>6 DEF Around
        <3> QED  BY <3>11, <3>12 DEF x
    <2> QED  BY <2>7, <2>8
<1> QED  BY <1>6, <1>7

\* The end of a response was sent: its settlement may go on.
LEMMA DoneTaken ==
    ASSUME NEW c, NEW b, NEW seen, NEW n, NEW msg, Taking(c, b, seen, n, msg),
           Sound(c, seen), c.m.fail = NoTurn, msg.t = "done", c.w.q # <<>>,
           NEW later, NEW auto
    PROVE  LET x == NoteDrained([b EXCEPT !.a.timers = @ \ {msg.g}], msg.g, later, auto)
           IN Sound(x, n) /\ Around(c, x)
<1> DEFINE g == msg.g
           d == [b EXCEPT !.a.timers = @ \ {g}]
           fb == b.m.feedback
           f == [fb EXCEPT ![g].st = "drained"]
           y == [d EXCEPT !.m.feedback[g].st = "drained"]
           x == NoteDrained(d, g, later, auto)
<1>0. /\ c \in Composites /\ WireInv(seen, c.w.q) /\ Base(b, n) /\ b \in Composites
      /\ Base(c, seen) /\ AgreesInv(c, seen) /\ Solid(b, n) /\ Piped(b, n)
    BY DEF Sound, Steady, Base, Solid, Piped, Taking
<1>1. /\ b.e = c.e /\ b.m = c.m /\ b.a = c.a /\ n = After(seen, msg)
      /\ Final(n, b.w.q) = Final(seen, c.w.q) /\ msg = Head(c.w.q)
      /\ b.w.q = Tail(c.w.q) /\ b.w.failed = c.w.failed
    BY DEF Taking
<1>2. \A t, h : Has(b.w.q, t, h) => Has(c.w.q, t, h)
    BY DEF Taking
<1>3. /\ g \in Turns /\ Final(seen, c.w.q).open # g /\ seen.open = g
      /\ \A i \in 1..Len(b.w.q) : b.w.q[i].t = "done" => b.w.q[i].g # g
    BY <1>0, <1>1, WireDone
<1>4. fb \in [Turns -> Feedbacks] /\ b.a.timers \in SUBSET Turns
    BY <1>0, CompositeParts
<1>5. /\ d \in Composites /\ d.e = b.e /\ d.m = b.m /\ d.w = b.w
      /\ d.a.active = b.a.active /\ d.a.produced = b.a.produced
      /\ d.a.pausedGen = b.a.pausedGen /\ d.a.tripped = b.a.tripped
      /\ d.a.close = b.a.close /\ d.a.fatal = b.a.fatal /\ d.a.soon = b.a.soon
      /\ d.a.timers = b.a.timers \ {g}
    <2>1. b.a.timers \ {g} \in SUBSET Turns
        BY <1>4
    <2> QED  BY <1>0, <2>1, Zenon DEF Composites, Adapters
<1>6. x = IF d.a.fatal \/ d.m.closed \/ d.m.feedback[g].st # "live" THEN d
          ELSE WireDrained(y, g, later, auto)
    BY DEF NoteDrained
<1>7. y = Counted(d, f)
    BY <1>4, <1>5, Zenon DEF Counted, Composites, MediaSessions
<1> HIDE DEF d
<1>8. SamePipe(b, d) /\ Base(d, n)
    <2>1. SamePipe(b, d)
        BY <1>5 DEF SamePipe
    <2>2. Solid(d, n)
        BY <1>0, <2>1, SamePipeKeeps
    <2> QED  BY <1>0, <1>5, <2>1, <2>2 DEF Base
<1>9. CASE b.m.closed
    <2>1. x = d
        BY <1>5, <1>6, <1>9
    <2> HIDE DEF x
    <2>2. Sound(d, n)
        BY <1>5, <1>8, <1>9, OverIsSound DEF Base
    <2> QED  BY <1>1, <1>5, <2>1, <2>2 DEF Around, x, d
<1>10. CASE ~b.m.closed
    <2>1. Lives(c) /\ ~b.a.fatal /\ Talks(c)
        BY <1>0, <1>1, <1>10 DEF Lives, Base, Talks
    <2>2. Live(c, seen)
        BY <2>1 DEF Sound, Steady
    <2>3. fb[g].st = "live"
        <3>1. Has(c.w.q, "done", g)
            <4>1. c.w.q \in Seq(WireMessages) /\ c.w.q # <<>>
                BY <1>0, CompositeParts
            <4>2. 1 \in 1..Len(c.w.q) /\ c.w.q[1] = msg
                BY <1>1, <4>1
            <4> QED  BY <4>2 DEF Has
        <3> QED  BY <1>1, <1>3, <2>2, <3>1 DEF Live, FeedbackInv
    <2>4. x = WireDrained(y, g, later, auto)
        BY <1>5, <1>6, <1>10, <2>1, <2>3
    <2>5. /\ f \in [Turns -> Feedbacks]
          /\ \A h \in Turns \ {g} : f[h] = fb[h]
          /\ f[g].st = "drained"
        <3> HIDE DEF fb
        <3> DEFINE v == fb[g]
        <3>1. v \in Feedbacks
            BY <1>3, <1>4
        <3> HIDE DEF v
        <3>2. /\ [v EXCEPT !.st = "drained"] \in Feedbacks
              /\ [v EXCEPT !.st = "drained"].st = "drained"
            BY <3>1 DEF Feedbacks
        <3>3. f = [fb EXCEPT ![g] = [v EXCEPT !.st = "drained"]]
            BY DEF v
        <3> HIDE DEF f
        <3>4. f[g] = [v EXCEPT !.st = "drained"] /\ \A h \in Turns \ {g} : f[h] = fb[h]
            BY <1>3, <1>4, <3>3
        <3>5. f \in [Turns -> Feedbacks]
            BY <1>4, <3>2, <3>3
        <3> QED  BY <3>2, <3>4, <3>5
    <2> HIDE DEF f, x, y
    <2>6. /\ y.m.feedback = f /\ y.e = d.e /\ y.m.queue = d.m.queue
          /\ y.m.flow = d.m.flow /\ y.a = d.a /\ y.w = d.w /\ y.m.fail = d.m.fail
          /\ y.m.retired = d.m.retired
        BY <1>5, <1>7, <2>5, CountedIs
    <2>7. Live(b, n) /\ OpenInv(b)
        BY <2>1, TakingLives
    <2>8. OpenInv(d) /\ TurnInv(d)
        BY <1>5, <2>7 DEF OpenInv, Live, TurnInv
    <2>9. /\ Base(y, n) /\ Around(d, y) /\ (Lives(y) <=> Lives(d))
          /\ OpenInv(y) /\ TurnInv(y)
          /\ SettleInv(d, n) => SettleInv(y, n)
          /\ FreshInv(d) => FreshInv(y)
        BY <1>7, <1>8, <2>5, <2>8, CountedKeeps
    <2>10. FeedbackInv(f, n, y.w.q)
        <3>1. \A h \in Turns : Has(b.w.q, "done", h) => h # g
            BY <1>3 DEF Has
        <3> QED  BY <1>5, <2>5, <2>6, <2>7, <3>1 DEF Live, FeedbackInv
    <2>11. QueueInv(y.m.queue, y.e.next, Final(n, y.w.q).last, y.e.fired, f)
        <3>1. b.m.queue \in Seq(ResponseOutputs)
            BY <1>0, CompositeParts
        <3>2. g <= Final(seen, c.w.q).last /\ g \in Nat /\ Final(seen, c.w.q).last \in Nat
            <4>1. /\ seen.open \in {NoTurn, seen.last} /\ seen.last <= Final(seen, c.w.q).last
                  /\ Final(seen, c.w.q).last \in Nat /\ seen.last \in Nat
                BY <1>0, FinalIs
            <4>2. g # NoTurn /\ g \in Nat
                BY <1>3 DEF Turns, NoTurn
            <4> QED  BY <1>3, <4>1, <4>2
        <3>3. QueueInv(b.m.queue, b.e.next, Final(seen, c.w.q).last, b.e.fired, fb)
            BY <1>1, <2>7 DEF Live
        <3>4. ASSUME NEW i \in 1..Len(b.m.queue), b.m.queue[i].t = "started"
              PROVE  f[b.m.queue[i].g].st = "live"
            <4> DEFINE h == b.m.queue[i].g
            <4>1. b.m.queue[i] \in ResponseOutputs
                BY <3>1
            <4>2. h \in Turns
                BY <4>1, OutputIs
            <4>3. Final(seen, c.w.q).last < h /\ fb[h].st = "live"
                BY <3>3, <3>4 DEF QueueInv
            <4>4. h # g
                <5> HIDE DEF h, fb
                <5>1. h \in Nat
                    BY <4>2 DEF Turns
                <5> QED  BY <3>2, <4>3, <5>1
            <4> QED  BY <2>5, <4>2, <4>3, <4>4
        <3>5. /\ y.m.queue = b.m.queue /\ y.e = b.e
              /\ Final(n, y.w.q).last = Final(seen, c.w.q).last
            BY <1>1, <1>5, <2>6
        <3> QED  BY <3>3, <3>4, <3>5 DEF QueueInv
    <2>12. FlowInv(y, Final(n, y.w.q).last)
        <3>1. b.a.active # g
            BY <1>0, <1>1, <1>3, <2>1 DEF AgreesInv
        <3>2. b.a.active \in Responses
            BY <1>0, CompositeParts
        <3>3. FlowInv(b, Final(n, b.w.q).last)
            BY <2>7 DEF Live
        <3> QED  BY <1>5, <2>5, <2>6, <3>1, <3>2, <3>3 DEF FlowInv, Responses
    <2>13. Steady(y, n)
        BY <2>6, <2>9, <2>10, <2>11, <2>12 DEF Steady, Live
    <2>14. y.m.fail = NoTurn
        BY <1>1, <1>5, <2>6
    <2>15. \/ y.e.settle.phase = "wire" /\ y.e.settle.g = g
           \/ SettleInv(y, n) /\ FreshInv(y)
        <3>1. CASE y.e.settle.phase = "wire" /\ y.e.settle.g = g
            BY <3>1
        <3>2. CASE ~(y.e.settle.phase = "wire" /\ y.e.settle.g = g)
            <4>1. SettleInv(b, n) /\ FreshInv(b)
                BY <1>1, <1>5, <2>1, <2>6, <3>2, TakingSettles
            <4>2. SettleInv(d, n)
                BY <1>5, <2>6, <3>2, <4>1 DEF SettleInv, Known, Ending
            <4>3. FreshInv(d)
                BY <1>5, <2>6, <3>2, <4>1 DEF FreshInv, Sent
            <4> QED  BY <2>9, <4>2, <4>3
        <3> QED  BY <3>1, <3>2
    <2>16. Sound(x, n) /\ Around(y, x)
        BY <2>4, <2>9, <2>13, <2>14, <2>15, DrainedKeeps
    <2>17. Around(c, y)
        BY <1>1, <1>5, <2>9 DEF Around
    <2>18. Sound(x, n) /\ Around(c, x)
        BY <2>16, <2>17, AroundChain
    <2> QED  BY <2>18 DEF x, d
<1> QED  BY <1>9, <1>10

\* Every handoff leaves the connection sound.
LEMMA HandoffKeeps ==
    ASSUME NEW c, NEW seen, Sound(c, seen), c.m.fail = NoTurn, c.w.q # <<>>,
           NEW later, NEW auto
    PROVE  LET msg == Head(c.w.q)
               x == OnHandoff([c EXCEPT !.w.q = Tail(@)], msg, later, auto)
           IN Sound(x, After(seen, msg)) /\ Around(c, x)
<1> DEFINE b == [c EXCEPT !.w.q = Tail(@)]
           msg == Head(c.w.q)
           n == After(seen, msg)
           x == OnHandoff(b, msg, later, auto)
<1>0. Base(c, seen) /\ c \in Composites /\ WireInv(seen, c.w.q)
      /\ (Has(c.w.q, "ended", NoTurn) => c.a.close # "open")
    BY DEF Sound, Steady, Base, Solid, Piped
<1>1. Taking(c, b, seen, n, msg)
    BY <1>0, TakingIs
<1>2. msg \in WireMessages
    BY <1>0, WireTail
<1>3. x = IF msg.t = "audio" THEN CountFrame(b, msg)
          ELSE IF msg.t = "done"
               THEN NoteDrained([b EXCEPT !.a.timers = @ \ {msg.g}], msg.g, later, auto)
          ELSE IF msg.t = "ended" THEN RequestClose(b) ELSE b
    BY <1>2, WireMessageIs DEF OnHandoff
<1> HIDE DEF x, b, n, msg
<1>4. b.m = c.m /\ msg = Head(c.w.q) /\ Base(b, n)
    BY <1>1 DEF Taking
<1>5. CASE msg.t = "audio"
    <2>1. Sound(CountFrame(b, msg), n) /\ Around(c, CountFrame(b, msg))
        BY <1>1, <1>5, AudioTaken
    <2> QED  BY <1>3, <1>5, <2>1 DEF x, b, n, msg
<1>6. CASE msg.t = "done"
    <2> DEFINE z == NoteDrained([b EXCEPT !.a.timers = @ \ {msg.g}], msg.g, later, auto)
    <2>1. Sound(z, n) /\ Around(c, z)
        BY <1>1, <1>6, DoneTaken
    <2>2. x = z
        BY <1>3, <1>6
    <2> HIDE DEF z
    <2> QED  BY <2>1, <2>2 DEF x, b, n, msg
<1>7. CASE msg.t = "ended"
    <2>1. x = RequestClose(b)
        BY <1>3, <1>7
    <2>2. c.m.closed
        <3>1. msg.g = NoTurn
            BY <1>2, <1>7 DEF WireMessages
        <3>2. c.w.q \in Seq(WireMessages) /\ c.w.q # <<>>
            BY <1>0, CompositeParts
        <3>3. 1 \in 1..Len(c.w.q) /\ c.w.q[1] = msg
            BY <1>4, <3>2
        <3>4. Has(c.w.q, "ended", NoTurn)
            BY <1>7, <3>1, <3>3 DEF Has
        <3> QED  BY <1>0, <3>4 DEF Base
    <2>3. Solid(x, n) /\ x.m = b.m
        BY <1>4, <2>1, <2>2, RequestKeeps DEF Base
    <2>4. Sound(x, n) /\ Around(c, x)
        BY <1>4, <2>2, <2>3, OverIsSound DEF Around
    <2> QED  BY <2>4 DEF x, b, n, msg
<1>8. CASE msg.t \notin {"audio", "done", "ended"}
    <2>1. x = b
        BY <1>3, <1>8
    <2>2. Lives(c) => Live(b, n) /\ OpenInv(b) /\ SettleInv(b, n) /\ FreshInv(b)
        BY <1>1, <1>8, TakingLives, TakingSettles
    <2>3. Lives(b) <=> Lives(c)
        BY <1>4 DEF Lives
    <2>4. Sound(b, n) /\ Around(c, b)
        BY <1>4, <2>2, <2>3 DEF Sound, Steady, Around
    <2> QED  BY <2>1, <2>4 DEF x, b, n, msg
<1> QED  BY <1>5, <1>6, <1>7, <1>8

-----------------------------------------------------------------------------
(* Every step keeps the invariant                                          *)

LEMMA NowIs ==
    /\ Now.e = engine /\ Now.m = media /\ Now.a = adapter /\ Now.w = writer
  BY DEF Now

LEMMA CalmIs ==
    ASSUME NEW c, NEW seen, Calm(c, seen)
    PROVE  /\ Sound(c, seen) /\ Steady(c, seen) /\ Base(c, seen) /\ Solid(c, seen)
           /\ c \in Composites /\ c.m.fail = NoTurn /\ ~c.m.tearing
           /\ Lives(c) => Live(c, seen) /\ OpenInv(c) /\ SettleInv(c, seen) /\ FreshInv(c)
           /\ Lives(c) <=> ~c.m.closed
  BY DEF Calm, Sound, Steady, Base, Solid, Piped, Lives

LEMMA Installed ==
    ASSUME NEW d, d \in Composites, Become(d)
    PROVE  Now' = d
<1>1. d = [e |-> d.e, m |-> d.m, a |-> d.a, w |-> d.w]
    BY DEF Composites
<1> QED  BY <1>1 DEF Now, Become

\* An event that leaves a sound connection may end in its failure.
LEMMA EventEnds ==
    ASSUME NEW c, Sound(c, client), ~c.m.tearing, Completes(c)
    PROVE  Calm(Now, client)'
<1> DEFINE f == Done(c)
<1>1. Calm(f, client)
    BY DoneKeeps
<1>2. Become(f) /\ client' = client
    BY DEF Completes
<1> HIDE DEF f
<1>3. f \in Composites
    BY <1>1, CalmIs
<1>4. Now' = f
    BY <1>2, <1>3, Installed
<1> QED  BY <1>1, <1>2, <1>4

LEMMA AroundEnds ==
    ASSUME NEW c, ~c.m.tearing, NEW d, Sound(d, client), Around(c, d), Completes(d)
    PROVE  Calm(Now, client)'
  BY EventEnds DEF Around

LEMMA OverEnds ==
    ASSUME NEW d, Solid(d, client), d.m.closed, ~d.m.tearing, Completes(d)
    PROVE  Calm(Now, client)'
  BY EventEnds, OverIsSound

\* What the gate, the adapter and the writer have nothing to do with.
LEMMA MinorSound ==
    ASSUME NEW c, NEW d, NEW seen, Minor(c, d), Sound(c, seen)
    PROVE  /\ Sound(d, seen) /\ Steady(d, seen) /\ (Lives(d) <=> Lives(c))
           /\ Lives(d) => OpenInv(d)
  BY MinorKeeps DEF Sound

LEMMA SystemTurnStep ==
    ASSUME Calm(Now, client), SystemTurn
    PROVE  Calm(Now, client)'
<1>0. Sound(Now, client) /\ Now.m.fail = NoTurn /\ ~Now.m.tearing
    BY CalmIs
<1>1. PICK kind \in {"system", "direct"} : Completes(StartTurn(Now, kind))
    BY DEF SystemTurn
<1>2. Now.e.settle.phase # "wire"
    BY NowIs DEF SystemTurn
<1> DEFINE d == StartTurn(Now, kind)
<1>3. Sound(d, client) /\ Around(Now, d)
    BY <1>0, <1>2, TurnStarts
<1>4. Completes(d)
    BY <1>1
<1> HIDE DEF d
<1> QED  BY <1>0, <1>3, <1>4, AroundEnds

LEMMA UserSpeaksStep ==
    ASSUME Calm(Now, client), UserSpeaks
    PROVE  Calm(Now, client)'
<1> DEFINE d == Abandon(Now)
<1>0. Sound(Now, client) /\ ~Now.m.tearing
    BY CalmIs
<1>1. Sound(d, client) /\ Around(Now, d)
    BY <1>0, AbandonKeeps
<1>2. Completes(d)
    BY DEF UserSpeaks
<1> HIDE DEF d
<1> QED  BY <1>0, <1>1, <1>2, AroundEnds

LEMMA UserTurnEndsStep ==
    ASSUME Calm(Now, client), UserTurnEnds
    PROVE  Calm(Now, client)'
<1> DEFINE b == Abandon(Now)
           c == [b EXCEPT !.e.interrupted = FALSE]
           held == [c EXCEPT !.e.held = TRUE]
           started == StartTurn(c, "user")
           d == IF Busy(c) THEN held ELSE started
<1>0. Sound(Now, client) /\ Now.m.fail = NoTurn /\ ~Now.m.tearing
    BY CalmIs
<1>1. Sound(b, client) /\ Around(Now, b) /\ b.m.fail = NoTurn
    BY <1>0, AbandonKeeps
<1>2. Completes(d)
    BY DEF UserTurnEnds
<1> HIDE DEF b
<1>3. b \in Composites
    BY <1>1 DEF Sound, Steady, Base, Solid, Piped
<1>4. /\ c \in Composites /\ c.m = b.m /\ c.a = b.a /\ c.w = b.w
      /\ c.e.next = b.e.next /\ c.e.fired = b.e.fired /\ c.e.turn = b.e.turn
      /\ c.e.stream = b.e.stream /\ c.e.settle = b.e.settle
    BY <1>3, Zenon DEF Composites, Engines
<1> HIDE DEF c
<1>5. Minor(b, c)
    BY <1>4 DEF Minor, SameGate
<1>6. Sound(c, client) /\ Around(Now, c) /\ c.m.fail = NoTurn
    BY <1>1, <1>4, <1>5, MinorKeeps DEF Around
<1>7. CASE Busy(c)
    <2>1. /\ held \in Composites /\ held.m = c.m /\ held.a = c.a /\ held.w = c.w
          /\ held.e.next = c.e.next /\ held.e.fired = c.e.fired /\ held.e.turn = c.e.turn
          /\ held.e.stream = c.e.stream /\ held.e.settle = c.e.settle
        BY <1>4, Zenon DEF Composites, Engines
    <2>2. d = held
        BY <1>7
    <2> HIDE DEF held, d
    <2>3. Minor(c, held)
        BY <2>1 DEF Minor, SameGate
    <2>4. Sound(d, client) /\ Around(Now, d)
        BY <1>6, <2>1, <2>2, <2>3, MinorKeeps DEF Around
    <2> QED  BY <1>0, <1>2, <2>4, AroundEnds
<1>8. CASE ~Busy(c)
    <2>1. c.e.settle.phase # "wire"
        BY <1>8 DEF Busy
    <2>2. Sound(started, client) /\ Around(c, started)
        BY <1>6, <2>1, TurnStarts
    <2>3. d = started
        BY <1>8
    <2> HIDE DEF started, d
    <2>4. Around(Now, d)
        BY <1>6, <2>2, <2>3, AroundChain
    <2> QED  BY <1>0, <1>2, <2>2, <2>3, <2>4, AroundEnds
<1> QED  BY <1>7, <1>8

LEMMA DeclareStep ==
    ASSUME Calm(Now, client), Declare
    PROVE  Calm(Now, client)'
<1> DEFINE d == Dispatch(Now)
<1>0. Sound(Now, client) /\ ~Now.m.tearing
    BY CalmIs
<1>1. Now.e.turn # NoTurn
    BY NowIs DEF Declare
<1>2. Sound(d, client) /\ Around(Now, d)
    BY <1>0, <1>1, DispatchKeeps
<1>3. Completes(d)
    BY DEF Declare
<1> HIDE DEF d
<1> QED  BY <1>0, <1>2, <1>3, AroundEnds

LEMMA StreamEndsStep ==
    ASSUME Calm(Now, client), StreamEnds
    PROVE  Calm(Now, client)'
<1> DEFINE c == [Now EXCEPT !.e.stream = FALSE]
           d == MaybeFire(c)
<1>0. Sound(Now, client) /\ ~Now.m.tearing /\ Now \in Composites
    BY CalmIs
<1>1. /\ c \in Composites /\ c.m = Now.m /\ c.a = Now.a /\ c.w = Now.w
      /\ c.e.next = Now.e.next /\ c.e.fired = Now.e.fired /\ c.e.turn = Now.e.turn
      /\ c.e.stream = FALSE /\ c.e.settle = Now.e.settle
    BY <1>0, Zenon DEF Composites, Engines
<1>2. Completes(d)
    BY DEF StreamEnds
<1> HIDE DEF c
<1>3. Minor(Now, c)
    BY <1>1 DEF Minor, SameGate
<1>4. Sound(c, client) /\ c.e.turn # NoTurn
    BY <1>0, <1>1, <1>3, MinorSound, NowIs DEF StreamEnds
<1>5. Sound(d, client) /\ Around(c, d)
    BY <1>4, MaybeFireKeeps
<1> HIDE DEF d
<1>6. ~c.m.tearing
    BY <1>0, <1>1
<1> QED  BY <1>2, <1>5, <1>6, AroundEnds

LEMMA StreamFailsStep ==
    ASSUME Calm(Now, client), StreamFails
    PROVE  Calm(Now, client)'
<1> DEFINE c == [Now EXCEPT !.e.stream = FALSE, !.e.left = 0]
           g == engine.turn
           d == Fire(c, g, FALSE)
<1>0. Sound(Now, client) /\ ~Now.m.tearing /\ Now \in Composites
      /\ (Lives(Now) => Live(Now, client))
    BY CalmIs
<1>1. /\ c \in Composites /\ c.m = Now.m /\ c.a = Now.a /\ c.w = Now.w
      /\ c.e.next = Now.e.next /\ c.e.fired = Now.e.fired /\ c.e.turn = Now.e.turn
      /\ c.e.stream = FALSE /\ c.e.settle = Now.e.settle
    <2>1. 0 \in Int /\ FALSE \in BOOLEAN
        OBVIOUS
    <2> QED  BY <1>0, <2>1, Zenon DEF Composites, Engines
<1>2. Completes(d)
    BY DEF StreamFails
<1>3. g = Now.e.turn /\ Now.e.stream /\ g # NoTurn
    BY NowIs DEF StreamFails
<1> HIDE DEF c, g
<1>4. Minor(Now, c)
    BY <1>1 DEF Minor, SameGate
<1>5. Steady(c, client) /\ (Lives(c) => OpenInv(c)) /\ (Lives(c) <=> Lives(Now))
    BY <1>0, <1>4, MinorSound
<1>6. g \in Turns
    BY <1>0, <1>3, CompositeParts DEF Responses
<1>7. Lives(c) => g = c.e.next - 1 /\ g \notin c.e.fired
    BY <1>0, <1>1, <1>3, <1>5 DEF Live, TurnInv
<1>8. Sound(d, client) /\ Around(c, d)
    BY <1>1, <1>5, <1>6, <1>7, FireKeeps
<1> HIDE DEF d
<1>9. ~c.m.tearing
    BY <1>0, <1>1
<1> QED  BY <1>2, <1>8, <1>9, AroundEnds

LEMMA TtsTimeoutStep ==
    ASSUME Calm(Now, client), TtsTimeout
    PROVE  Calm(Now, client)'
<1> DEFINE c == Idle(Now)
           g == engine.turn
           d == Fire(c, g, FALSE)
<1>0. Sound(Now, client) /\ ~Now.m.tearing /\ Now \in Composites
      /\ (Lives(Now) => Live(Now, client))
    BY CalmIs
<1>1. Minor(Now, c) /\ ~c.e.stream /\ c.m = Now.m
    BY <1>0, IdleIs
<1>2. Completes(d)
    BY DEF TtsTimeout
<1>3. g = Now.e.turn /\ g # NoTurn /\ g \notin Now.e.fired
    BY NowIs DEF TtsTimeout
<1> HIDE DEF c, g
<1>4. Steady(c, client) /\ (Lives(c) => OpenInv(c)) /\ (Lives(c) <=> Lives(Now))
    BY <1>0, <1>1, MinorSound
<1>5. g \in Turns
    BY <1>0, <1>3, CompositeParts DEF Responses
<1>6. Lives(c) => g = c.e.next - 1 /\ g \notin c.e.fired
    BY <1>0, <1>1, <1>3, <1>4 DEF Live, TurnInv, Minor
<1>7. Sound(d, client) /\ Around(c, d)
    BY <1>1, <1>4, <1>5, <1>6, FireKeeps
<1> HIDE DEF d
<1>8. ~c.m.tearing
    BY <1>0, <1>1
<1> QED  BY <1>2, <1>7, <1>8, AroundEnds

LEMMA GpuAudioStep ==
    ASSUME Calm(Now, client), GpuAudio
    PROVE  Calm(Now, client)'
<1> DEFINE item == Head(engine.gpu)
           h == engine.heard \/ (~engine.interrupted /\ IsCurrent(Now, item))
           c == [Now EXCEPT !.e.voiced = @ + 1,
                            !.e.heard = @ \/ (~engine.interrupted /\ IsCurrent(Now, item))]
           x == [c EXCEPT !.m.speaking = TRUE]
           out == Output("audio", item.g, FALSE)
           lost == engine.interrupted \/ item.g # media.active \/ Retired(c, item.g)
           d == IF lost THEN c ELSE Gate(x, out)
<1>0. Sound(Now, client) /\ ~Now.m.tearing /\ Now \in Composites
    BY CalmIs
<1>1. Completes(d)
    BY DEF GpuAudio
<1>2. /\ c \in Composites /\ c.m = Now.m /\ c.a = Now.a /\ c.w = Now.w
      /\ c.e.next = Now.e.next /\ c.e.fired = Now.e.fired /\ c.e.turn = Now.e.turn
      /\ c.e.stream = Now.e.stream /\ c.e.settle = Now.e.settle
    <2> DEFINE v == Now.e.voiced + 1
               k == Now.e.heard \/ (~engine.interrupted /\ IsCurrent(Now, item))
    <2>1. v \in Nat
        <3>1. Now.e.voiced \in Nat
            BY <1>0 DEF Composites, Engines
        <3> QED  BY <3>1
    <2>2. k \in BOOLEAN
        OBVIOUS
    <2>3. c = [Now EXCEPT !.e.voiced = v, !.e.heard = k]
        OBVIOUS
    <2> HIDE DEF v, k, c
    <2> QED  BY <1>0, <2>1, <2>2, <2>3, Zenon DEF Composites, Engines
<1>3. engine.gpu \in Seq(Speech) /\ engine.gpu # <<>>
    BY <1>0, CompositeParts, NowIs DEF GpuAudio
<1>4. item \in Speech
    BY <1>3
<1>5. item.g \in Turns
    BY <1>4 DEF Speech
<1> HIDE DEF c, item
<1>6. Minor(Now, c)
    BY <1>2 DEF Minor, SameGate
<1>7. Sound(c, client) /\ Steady(c, client) /\ (Lives(c) => OpenInv(c))
    BY <1>0, <1>6, MinorSound
<1>8. ~c.m.tearing
    BY <1>0, <1>2
<1>9. CASE lost
    <2>1. d = c
        BY <1>9
    <2> HIDE DEF d
    <2> QED  BY <1>1, <1>7, <1>8, <2>1, EventEnds
<1>10. CASE ~lost
    <2>1. d = Gate(x, out)
        BY <1>10
    <2>2. /\ x \in Composites /\ x.e = c.e /\ x.a = c.a /\ x.w = c.w
          /\ x.m.closed = c.m.closed /\ x.m.active = c.m.active /\ x.m.flow = c.m.flow
          /\ x.m.paused = c.m.paused /\ x.m.by = c.m.by /\ x.m.queue = c.m.queue
          /\ x.m.retired = c.m.retired /\ x.m.fail = c.m.fail
          /\ x.m.feedback = c.m.feedback
        BY <1>2, Zenon DEF Composites, MediaSessions
    <2>3. x.m.ending = c.m.ending /\ x.m.tearing = c.m.tearing
        BY <1>2, Zenon DEF Composites, MediaSessions
    <2> HIDE DEF x, d
    <2>4. Minor(c, x)
        BY <2>2, <2>3 DEF Minor, SameGate
    <2>5. Sound(x, client) /\ Steady(x, client) /\ (Lives(x) => OpenInv(x))
        BY <1>7, <2>4, MinorSound
    <2>6. out \in ResponseOutputs /\ out.t = "audio" /\ out.g = item.g
        <3> DEFINE g == item.g
        <3>1. g \in Turns
            BY <1>5
        <3> HIDE DEF g
        <3> DEFINE o == Output("audio", g, FALSE)
        <3>2. o \in ResponseOutputs /\ o.t = "audio" /\ o.g = g
            BY <3>1 DEF Output, ResponseOutputs, Outputs
        <3> QED  BY <3>2 DEF g
    <2>7. Lives(x) => item.g = x.e.next - 1
        <3>1. item.g = Now.m.active /\ item.g # NoTurn
            BY <1>5, <1>10, NowIs DEF Turns, NoTurn
        <3>2. Lives(x) => Live(x, client)
            BY <2>5 DEF Steady
        <3> QED  BY <1>2, <2>2, <3>1, <3>2 DEF Live, TurnInv
    <2> HIDE DEF out
    <2>8. Fits(x, client, out)
        BY <2>6, <2>7 DEF Fits
    <2>9. Gated(x, d, client, out)
        BY <2>1, <2>5, <2>6, <2>8, GateKeeps
    <2>10. Sound(d, client) /\ Around(x, d)
        BY <2>5, <2>9, GatedIsSound DEF Sound
    <2> QED  BY <1>1, <1>8, <2>3, <2>10, AroundEnds
<1> QED  BY <1>9, <1>10

LEMMA GpuDoneStep ==
    ASSUME Calm(Now, client), GpuDone
    PROVE  Calm(Now, client)'
<1> DEFINE item == Head(engine.gpu)
           c == [Now EXCEPT !.e.gpu = Tail(@), !.e.voiced = 0]
           x == [c EXCEPT !.e.left = @ - 1, !.e.heard = TRUE]
           out == Output("completed", item.g, FALSE)
           y == IF media.closed THEN x ELSE Gate(x, out)
           d == IF ~IsCurrent(Now, item) THEN c ELSE MaybeFire(y)
<1>0. Sound(Now, client) /\ ~Now.m.tearing /\ Now \in Composites
    BY CalmIs
<1>1. Completes(d)
    BY DEF GpuDone
<1>2. Now.e.gpu \in Seq(Speech) /\ Now.e.gpu # <<>> /\ Now.e.gpu = engine.gpu
    BY <1>0, CompositeParts, NowIs DEF GpuDone
<1>3. item \in Speech /\ Tail(Now.e.gpu) \in Seq(Speech)
    BY <1>2
<1>4. item.g \in Turns
    BY <1>3 DEF Speech
<1>5. /\ c \in Composites /\ c.m = Now.m /\ c.a = Now.a /\ c.w = Now.w
      /\ c.e.next = Now.e.next /\ c.e.fired = Now.e.fired /\ c.e.turn = Now.e.turn
      /\ c.e.stream = Now.e.stream /\ c.e.settle = Now.e.settle
    <2>1. 0 \in Nat
        OBVIOUS
    <2> QED  BY <1>0, <1>3, <2>1, Zenon DEF Composites, Engines
<1> HIDE DEF c, item
<1>6. Minor(Now, c)
    BY <1>5 DEF Minor, SameGate
<1>7. Sound(c, client)
    BY <1>0, <1>6, MinorSound
<1>8. ~c.m.tearing
    BY <1>0, <1>5
<1>9. CASE ~IsCurrent(Now, item)
    <2>1. d = c
        BY <1>9
    <2> HIDE DEF d
    <2> QED  BY <1>1, <1>7, <1>8, <2>1, EventEnds
<1>10. CASE IsCurrent(Now, item)
    <2>1. d = MaybeFire(y)
        BY <1>10
    <2>2. /\ x \in Composites /\ x.m = c.m /\ x.a = c.a /\ x.w = c.w
          /\ x.e.next = c.e.next /\ x.e.fired = c.e.fired /\ x.e.turn = c.e.turn
          /\ x.e.stream = c.e.stream /\ x.e.settle = c.e.settle
        <3> DEFINE l == c.e.left - 1
        <3>1. l \in Int
            <4>1. c.e.left \in Int
                BY <1>5, Zenon DEF Composites, Engines
            <4> QED  BY <4>1
        <3>2. x = [c EXCEPT !.e.left = l, !.e.heard = TRUE]
            OBVIOUS
        <3> HIDE DEF l, x
        <3> QED  BY <1>5, <3>1, <3>2, Zenon DEF Composites, Engines
    <2> HIDE DEF x
    <2>3. Minor(c, x)
        BY <2>2 DEF Minor, SameGate
    <2>4. Sound(x, client) /\ Steady(x, client) /\ (Lives(x) => OpenInv(x))
        BY <1>7, <2>3, MinorSound
    <2>5. x.e.turn = item.g /\ item.g # NoTurn
        BY <1>4, <1>5, <1>10, <2>2 DEF IsCurrent, Turns, NoTurn
    <2>6. Sound(y, client) /\ Around(x, y) /\ y.e = x.e
        <3>1. CASE media.closed
            <4>1. y = x
                BY <3>1
            <4> QED  BY <2>4, <4>1 DEF Around
        <3>2. CASE ~media.closed
            <4>1. y = Gate(x, out)
                BY <3>2
            <4>2. out \in ResponseOutputs /\ out.t = "completed" /\ out.g = item.g
                BY <1>4, ResponseOutputIs
            <4>3. Lives(x) => item.g = x.e.next - 1
                BY <2>4, <2>5 DEF Steady, Live, TurnInv
            <4> HIDE DEF out, y
            <4>4. Fits(x, client, out)
                BY <4>2, <4>3 DEF Fits
            <4>5. Gated(x, y, client, out)
                BY <2>4, <4>1, <4>2, <4>4, GateKeeps
            <4> QED  BY <2>4, <4>5, GatedIsSound DEF Sound
        <3> QED  BY <3>1, <3>2
    <2> HIDE DEF y
    <2>7. Sound(MaybeFire(y), client) /\ Around(y, MaybeFire(y))
        BY <2>5, <2>6, MaybeFireKeeps
    <2> HIDE DEF d
    <2>8. Around(x, d) /\ ~x.m.tearing
        BY <1>8, <2>1, <2>2, <2>6, <2>7, AroundChain
    <2> QED  BY <1>1, <2>1, <2>7, <2>8, AroundEnds
<1> QED  BY <1>9, <1>10

LEMMA GpuDropsStep ==
    ASSUME Calm(Now, client), GpuDrops
    PROVE  Calm(Now, client)'
<1>0. Sound(Now, client) /\ ~Now.m.tearing /\ Now \in Composites
    BY CalmIs
<1>1. PICK n \in DOMAIN engine.gpu :
          Completes([Now EXCEPT !.e.gpu = SubSeq(@, n + 1, Len(@)), !.e.voiced = 0])
    BY DEF GpuDrops
<1> DEFINE r == SubSeq(Now.e.gpu, n + 1, Len(Now.e.gpu))
           c == [Now EXCEPT !.e.gpu = r, !.e.voiced = 0]
<1>2. Completes(c)
    BY <1>1
<1>3. r \in Seq(Speech)
    <2>1. Now.e.gpu \in Seq(Speech) /\ Now.e.gpu = engine.gpu
        BY <1>0, CompositeParts, NowIs
    <2>2. n \in Nat /\ n >= 1
        BY <2>1
    <2> DEFINE gpu == Now.e.gpu
    <2> HIDE DEF gpu
    <2>3. ASSUME NEW s \in Seq(Speech)
          PROVE  SubSeq(s, n + 1, Len(s)) \in Seq(Speech)
        <3>1. n + 1 \in 1..(Len(s) + 1) \/ n + 1 > Len(s)
            BY <2>2
        <3>2. Len(s) \in Nat
            OBVIOUS
        <3>3. \A i \in (n + 1)..Len(s) : s[i] \in Speech
            BY <2>2, <3>2
        <3> QED  BY <2>2, <3>1, <3>2, <3>3
    <2> QED  BY <2>1, <2>3
<1> HIDE DEF r
<1>4. /\ c \in Composites /\ c.m = Now.m /\ c.a = Now.a /\ c.w = Now.w
      /\ c.e.next = Now.e.next /\ c.e.fired = Now.e.fired /\ c.e.turn = Now.e.turn
      /\ c.e.stream = Now.e.stream /\ c.e.settle = Now.e.settle
    <2>1. 0 \in Nat
        OBVIOUS
    <2> QED  BY <1>0, <1>3, <2>1, Zenon DEF Composites, Engines
<1> HIDE DEF c
<1>5. Minor(Now, c)
    BY <1>4 DEF Minor, SameGate
<1>6. Sound(c, client) /\ ~c.m.tearing
    BY <1>0, <1>4, <1>5, MinorSound
<1> QED  BY <1>2, <1>6, EventEnds

LEMMA PlaybackEndsStep ==
    ASSUME Calm(Now, client), PlaybackEnds
    PROVE  Calm(Now, client)'
<1>0. Steady(Now, client) /\ ~Now.m.tearing /\ Now.m.fail = NoTurn
      /\ (Lives(Now) => OpenInv(Now))
    BY CalmIs
<1>1. PICK auto \in BOOLEAN : Completes(SettleResponse(Now, auto))
    BY DEF PlaybackEnds
<1> DEFINE d == SettleResponse(Now, auto)
<1>2. Sound(d, client) /\ Around(Now, d)
    BY <1>0, SettleKeeps
<1>3. Completes(d)
    BY <1>1
<1> HIDE DEF d
<1> QED  BY <1>0, <1>2, <1>3, AroundEnds

\* A cancellation, with the note that the speech was cut.
LEMMA CutKeeps ==
    ASSUME NEW c, NEW seen, Sound(c, seen)
    PROVE  LET d == CancelTurn(Note([c EXCEPT !.m.speaking = FALSE]))
           IN Sound(d, seen) /\ Around(c, d)
<1> DEFINE x == [c EXCEPT !.m.speaking = FALSE]
           y == Note(x)
           d == CancelTurn(y)
<1>0. c \in Composites
    BY DEF Sound, Steady, Base, Solid, Piped
<1>1. /\ x \in Composites /\ x.e = c.e /\ x.a = c.a /\ x.w = c.w
      /\ x.m.closed = c.m.closed /\ x.m.active = c.m.active /\ x.m.flow = c.m.flow
      /\ x.m.paused = c.m.paused /\ x.m.by = c.m.by /\ x.m.queue = c.m.queue
      /\ x.m.retired = c.m.retired /\ x.m.fail = c.m.fail
      /\ x.m.feedback = c.m.feedback
    BY <1>0, Zenon DEF Composites, MediaSessions
<1>2. x.m.ending = c.m.ending /\ x.m.tearing = c.m.tearing
    BY <1>0, Zenon DEF Composites, MediaSessions
<1> HIDE DEF x
<1>3. Minor(c, x) /\ Around(c, x)
    BY <1>1, <1>2 DEF Minor, SameGate, Around
<1>4. Sound(x, seen) /\ Base(x, seen)
    BY <1>3, MinorSound DEF Steady
<1>5. Sound(y, seen) /\ Around(x, y)
    BY <1>4, NoteKeeps
<1> HIDE DEF y
<1>6. Steady(y, seen) /\ (Lives(y) => OpenInv(y))
    BY <1>5 DEF Sound
<1>7. Sound(d, seen) /\ Around(y, d)
    BY <1>6, CancelKeeps
<1> HIDE DEF d
<1>8. Around(c, d)
    BY <1>3, <1>5, <1>7, AroundChain
<1> QED  BY <1>7, <1>8 DEF d, y, x

LEMMA BargeInStep ==
    ASSUME Calm(Now, client), BargeIn
    PROVE  Calm(Now, client)'
<1> DEFINE d == CancelTurn(Note([Now EXCEPT !.m.speaking = FALSE]))
<1>0. Sound(Now, client) /\ ~Now.m.tearing
    BY CalmIs
<1>1. Sound(d, client) /\ Around(Now, d)
    BY <1>0, CutKeeps
<1>2. Completes(d)
    BY DEF BargeIn
<1> HIDE DEF d
<1> QED  BY <1>0, <1>1, <1>2, AroundEnds

LEMMA ClientCancelsStep ==
    ASSUME Calm(Now, client), ClientCancels
    PROVE  Calm(Now, client)'
<1> DEFINE c == [Now EXCEPT !.a.cancelled = TRUE]
           x == CancelTurn(Note([c EXCEPT !.m.speaking = FALSE]))
           not == adapter.fatal \/ media.closed \/ adapter.active # media.active
           d == IF not THEN c ELSE x
<1>0. Sound(Now, client) /\ ~Now.m.tearing /\ Now \in Composites /\ GateInv(Now)
      /\ (Lives(Now) => OpenInv(Now))
    BY CalmIs DEF Solid, Piped
<1>1. Completes(d)
    BY DEF ClientCancels
<1>2. /\ c \in Composites /\ c.e = Now.e /\ c.m = Now.m /\ c.w = Now.w
      /\ c.a.active = Now.a.active /\ c.a.produced = Now.a.produced
      /\ c.a.timers = Now.a.timers /\ c.a.close = Now.a.close /\ c.a.fatal = Now.a.fatal
      /\ c.a.soon = Now.a.soon /\ c.a.tripped = Now.a.tripped
    BY <1>0, Zenon DEF Composites, Adapters
<1>3. c.a.pausedGen = Now.a.pausedGen
    BY <1>0, Zenon DEF Composites, Adapters
<1> HIDE DEF c
<1>4. SameFlow(Now, c) /\ GateInv(c)
    BY <1>0, <1>2, <1>3 DEF SameFlow, GateInv
<1>5. Sound(c, client)
    <2>1. Steady(c, client) /\ (Lives(c) <=> Lives(Now))
          /\ (Lives(c) => SettleInv(c, client) /\ FreshInv(c))
        BY <1>0, <1>4, SameFlowKeeps
    <2>2. OpenInv(Now) => OpenInv(c)
        BY <1>2 DEF OpenInv
    <2> QED  BY <1>0, <2>1, <2>2 DEF Sound
<1>6. ~c.m.tearing
    BY <1>0, <1>2
<1>7. Sound(x, client) /\ Around(c, x)
    BY <1>5, CutKeeps
<1>8. Around(c, c)
    BY DEF Around
<1>9. Sound(d, client) /\ Around(c, d)
    <2> HIDE DEF x
    <2> QED  BY <1>5, <1>7, <1>8
<1> HIDE DEF d
<1> QED  BY <1>1, <1>6, <1>9, AroundEnds

LEMMA OtherOutputStep ==
    ASSUME Calm(Now, client), OtherOutput
    PROVE  Calm(Now, client)'
<1> DEFINE d == Note(Now)
<1>0. Sound(Now, client) /\ ~Now.m.tearing /\ Base(Now, client)
    BY CalmIs
<1>1. Sound(d, client) /\ Around(Now, d)
    BY <1>0, NoteKeeps
<1>2. Completes(d)
    BY DEF OtherOutput
<1> HIDE DEF d
<1> QED  BY <1>0, <1>1, <1>2, AroundEnds

LEMMA HandoffStep ==
    ASSUME Calm(Now, client), Handoff
    PROVE  Calm(Now, client)'
<1> DEFINE msg == Head(writer.q)
           x(later, auto) == OnHandoff([Now EXCEPT !.w.q = Tail(@)], msg, later, auto)
<1>0. Sound(Now, client) /\ ~Now.m.tearing /\ Now.m.fail = NoTurn
    BY CalmIs
<1>1. PICK later \in BOOLEAN, auto \in BOOLEAN :
          Become(Done(CheckLow(x(later, auto)))) /\ client' = After(client, msg)
    BY DEF Handoff
<1> DEFINE b == x(later, auto)
           n == After(client, msg)
           y == CheckLow(b)
           d == Done(y)
<1>2. Sound(b, n) /\ Around(Now, b)
    <2>1. Now.w.q # <<>> /\ Head(Now.w.q) = msg
        BY NowIs DEF Handoff
    <2> QED  BY <1>0, <2>1, HandoffKeeps
<1>3. Become(d) /\ client' = n
    BY <1>1
<1> HIDE DEF x, b
<1>4. Sound(y, n) /\ Around(b, y)
    BY <1>2, CheckLowKeeps
<1> HIDE DEF y
<1>5. ~y.m.tearing
    BY <1>0, <1>2, <1>4 DEF Around
<1>6. Calm(d, n)
    BY <1>4, <1>5, DoneKeeps
<1> HIDE DEF d, n
<1>7. d \in Composites
    BY <1>6, CalmIs
<1>8. Now' = d
    BY <1>3, <1>7, Installed
<1> QED  BY <1>3, <1>6, <1>8

-----------------------------------------------------------------------------
(* The connection's steps                                                  *)

\* A writer that failed, or a socket that closed, has nothing queued.
LEMMA EmptyKeeps ==
    ASSUME NEW c, NEW seen, Solid(c, seen), NEW d \in Composites,
           d.e = c.e, d.m = c.m, d.w.q = <<>>, d.w.failed, d.w.paused = c.w.paused,
           d.a.pausedGen = c.a.pausedGen, d.a.tripped = c.a.tripped
    PROVE  Solid(d, seen)
<1>0. Piped(c, seen) /\ seen \in Tellings /\ seen.open \in {NoTurn, seen.last}
    <2>1. Piped(c, seen) /\ WireInv(seen, c.w.q)
        BY DEF Solid, Piped
    <2> QED  BY <2>1, FinalIs
<1>1. WireInv(seen, d.w.q) /\ ~Has(d.w.q, "ended", NoTurn)
    BY <1>0, WireEmpty, HasNothing
<1>2. AgreesInv(d, seen)
    BY DEF AgreesInv, Talks
<1>3. Piped(d, seen)
    BY <1>0, <1>1, <1>2 DEF Piped, GateInv
<1> QED  BY <1>3 DEF Solid

LEMMA WriterFailsStep ==
    ASSUME Calm(Now, client), WriterFails
    PROVE  Calm(Now, client)'
<1> DEFINE ts == Now.a.timers \ Queued("done")
           c == [Now EXCEPT !.w.failed = TRUE, !.w.q = <<>>, !.a.timers = ts]
           g == CHOOSE h \in Queued("done") : TRUE
           told == IF Queued("done") # {} THEN FailInternal(c, g)
                   ELSE IF Queued("ended") = {} /\ adapter.close # "requested"
                   THEN FailInternal(c, adapter.active)
                   ELSE c
           d == IF Queued("ended") = {} THEN told ELSE RequestClose(told)
<1>0. /\ Solid(Now, client) /\ Base(Now, client) /\ ~Now.m.tearing /\ Now.m.fail = NoTurn
      /\ Now \in Composites /\ (Has(Now.w.q, "ended", NoTurn) => Now.a.close # "open")
    BY CalmIs DEF Solid, Piped
<1>1. Completes(d)
    <2>1. LostWriter = c
        BY DEF LostWriter
    <2> HIDE DEF c
    <2> QED  BY <2>1 DEF WriterFails, LoseWriter
<1>2. /\ c \in Composites /\ c.e = Now.e /\ c.m = Now.m /\ c.w.q = <<>> /\ c.w.failed = TRUE
      /\ c.w.paused = Now.w.paused
      /\ c.a.pausedGen = Now.a.pausedGen /\ c.a.tripped = Now.a.tripped
      /\ c.a.fatal = Now.a.fatal /\ c.a.close = Now.a.close
    <2>1. ts \in SUBSET Turns /\ <<>> \in Seq(WireMessages)
        BY <1>0, CompositeParts
    <2> HIDE DEF ts
    <2> QED  BY <1>0, <2>1, Zenon DEF Composites, Adapters, Writers
<1> HIDE DEF c
<1>3. Solid(c, client)
    BY <1>0, <1>2, EmptyKeeps
<1>4. c.a.fatal \/ c.a.close = "closed" => c.m.closed
    BY <1>0, <1>2 DEF Base
<1>5. ~c.m.tearing /\ c.m.fail = NoTurn
    BY <1>0, <1>2
<1>6. \A h : /\ Solid(FailInternal(c, h), client) /\ FailInternal(c, h).m.closed
            /\ ~FailInternal(c, h).m.tearing
    <2> TAKE h
    <2> QED  BY <1>3, <1>4, <1>5, FailureEnds
<1>7. Queued("ended") # {} => Now.m.closed
    <2>1. ASSUME Queued("ended") # {}
          PROVE  Has(Now.w.q, "ended", NoTurn)
        <3>1. PICK msg \in Range(writer.q) : msg.t = "ended"
            BY <2>1 DEF Queued
        <3>2. writer.q \in Seq(WireMessages) /\ Now.w.q = writer.q
            BY <1>0, CompositeParts, NowIs
        <3>3. PICK i \in 1..Len(writer.q) : writer.q[i] = msg
            BY <3>2 DEF Range
        <3>4. msg \in WireMessages
            BY <3>2, <3>3
        <3>5. msg.g = NoTurn
            BY <3>1, <3>4 DEF WireMessages
        <3> QED  BY <3>1, <3>2, <3>3, <3>5 DEF Has
    <2> QED  BY <1>0, <2>1 DEF Base
<1>8. Solid(told, client) /\ told.m.closed /\ ~told.m.tearing
    <2>1. CASE Queued("done") # {}
        <3>1. told = FailInternal(c, g)
            BY <2>1
        <3> HIDE DEF told, g
        <3> QED  BY <1>6, <3>1
    <2>2. CASE Queued("done") = {} /\ Queued("ended") = {} /\ adapter.close # "requested"
        <3>1. told = FailInternal(c, adapter.active)
            BY <2>2
        <3> HIDE DEF told
        <3> QED  BY <1>6, <3>1
    <2>3. CASE Queued("done") = {} /\ ~(Queued("ended") = {} /\ adapter.close # "requested")
        <3>1. told = c
            BY <2>3
        <3>2. adapter.close = "requested" => Now.m.closed
            BY <1>0, NowIs DEF Base
        <3> HIDE DEF told
        <3> QED  BY <1>2, <1>3, <1>5, <1>7, <2>3, <3>1, <3>2
    <2> QED  BY <2>1, <2>2, <2>3
<1> HIDE DEF told
<1>9. Solid(d, client) /\ d.m.closed /\ ~d.m.tearing
    <2>1. Solid(RequestClose(told), client) /\ RequestClose(told).m = told.m
        BY <1>8, RequestKeeps
    <2> QED  BY <1>8, <2>1
<1> HIDE DEF d
<1> QED  BY <1>1, <1>9, OverEnds

LEMMA DrainTimeoutStep ==
    ASSUME Calm(Now, client), DrainTimeout
    PROVE  Calm(Now, client)'
<1>0. Solid(Now, client) /\ Base(Now, client) /\ ~Now.m.tearing /\ Now \in Composites
    BY CalmIs
<1>1. PICK g \in adapter.timers :
          Completes(FailInternal([Now EXCEPT !.a.timers = @ \ {g}], g))
    BY DEF DrainTimeout
<1> DEFINE ts == Now.a.timers \ {g}
           c == [Now EXCEPT !.a.timers = ts]
           d == FailInternal(c, g)
<1>2. Completes(d)
    BY <1>1
<1>3. /\ c \in Composites /\ c.e = Now.e /\ c.m = Now.m /\ c.w = Now.w
      /\ c.a.active = Now.a.active /\ c.a.produced = Now.a.produced
      /\ c.a.pausedGen = Now.a.pausedGen /\ c.a.tripped = Now.a.tripped
      /\ c.a.close = Now.a.close /\ c.a.fatal = Now.a.fatal
    <2>1. ts \in SUBSET Turns
        BY <1>0, CompositeParts
    <2> HIDE DEF ts
    <2> QED  BY <1>0, <2>1, Zenon DEF Composites, Adapters
<1> HIDE DEF c
<1>4. SamePipe(Now, c)
    BY <1>3 DEF SamePipe
<1>5. Solid(c, client) /\ ~c.m.tearing /\ (c.a.fatal \/ c.a.close = "closed" => c.m.closed)
    BY <1>0, <1>3, <1>4, SamePipeKeeps DEF Base
<1>6. Solid(d, client) /\ d.m.closed /\ ~d.m.tearing
    BY <1>5, FailureEnds
<1> HIDE DEF d
<1> QED  BY <1>2, <1>6, OverEnds

LEMMA QueueTimeoutStep ==
    ASSUME Calm(Now, client), QueueTimeout
    PROVE  Calm(Now, client)'
<1> DEFINE g == Head(media.queue).g
           d == FailPending(Now, g)
<1>0. Base(Now, client) /\ ~Now.m.tearing /\ Now \in Composites
    BY CalmIs
<1>1. Completes(d)
    BY DEF QueueTimeout
<1>2. g \in Turns
    <2>1. media.queue \in Seq(ResponseOutputs) /\ media.queue # <<>>
        BY <1>0, CompositeParts, NowIs DEF QueueTimeout
    <2>2. Head(media.queue) \in ResponseOutputs
        BY <2>1
    <2> QED  BY <2>2, OutputIs
<1> HIDE DEF g
<1>3. Steady(d, client) /\ Frame(Now, d) /\ ~Lives(d)
    BY <1>0, <1>2, FailPendingIs
<1> HIDE DEF d
<1>4. Sound(d, client) /\ ~d.m.tearing
    BY <1>0, <1>3 DEF Sound, Frame
<1> QED  BY <1>1, <1>4, EventEnds

LEMMA EndStep ==
    ASSUME Calm(Now, client), SessionEnds \/ Takeover
    PROVE  Calm(Now, client)'
<1>0. Solid(Now, client) /\ ~Now.m.tearing
    BY CalmIs
<1>1. PICK takeover \in BOOLEAN : Completes(Teardown(Now, takeover))
    BY DEF SessionEnds, Takeover
<1> DEFINE d == Teardown(Now, takeover)
<1>2. Solid(d, client) /\ d.m.closed /\ ~d.m.tearing
    BY <1>0, TeardownKeeps
<1>3. Completes(d)
    BY <1>1
<1> HIDE DEF d
<1> QED  BY <1>2, <1>3, OverEnds

LEMMA UploadDoneStep ==
    ASSUME Calm(Now, client), UploadDone
    PROVE  Calm(Now, client)'
<1> DEFINE x == CancelTurn(Now)
           c == [x EXCEPT !.m.ending = FALSE, !.e.gpu = <<>>, !.e.voiced = 0]
           d == CloseTransport(c)
<1>0. Steady(Now, client) /\ Solid(Now, client) /\ ~Now.m.tearing
      /\ (Lives(Now) => OpenInv(Now))
    BY CalmIs
<1>1. Completes(d)
    BY DEF UploadDone
<1>2. Now.m.closed
    BY <1>0, NowIs DEF UploadDone, Solid
<1>3. Sound(x, client) /\ Around(Now, x)
    BY <1>0, CancelKeeps
<1> HIDE DEF x
<1>4. Solid(x, client) /\ x.m.closed /\ ~x.m.tearing /\ x \in Composites
    BY <1>0, <1>2, <1>3 DEF Sound, Steady, Base, Solid, Piped, Around
<1>5. /\ c \in Composites /\ c.a = x.a /\ c.w = x.w
      /\ c.m.closed = x.m.closed /\ c.m.active = x.m.active /\ c.m.flow = x.m.flow
      /\ c.m.paused = x.m.paused /\ c.m.by = x.m.by /\ c.m.queue = x.m.queue
      /\ c.m.retired = x.m.retired /\ c.m.fail = x.m.fail
      /\ c.m.feedback = x.m.feedback /\ c.m.ending = FALSE /\ c.m.tearing = x.m.tearing
    <2>1. <<>> \in Seq(Speech) /\ 0 \in Nat
        OBVIOUS
    <2> QED  BY <1>4, <2>1, Zenon DEF Composites, MediaSessions, Engines
<1> HIDE DEF c
<1>6. SameGate(x, c)
    BY <1>5 DEF SameGate
<1>7. Solid(c, client) /\ c.m.closed /\ ~c.m.tearing
    BY <1>4, <1>5, <1>6, SameGateKeeps
<1>8. Solid(d, client) /\ d.m.closed /\ ~d.m.tearing
    BY <1>7, TransportCloses
<1> HIDE DEF d
<1> QED  BY <1>1, <1>8, OverEnds

LEMMA TerminalTimeoutStep ==
    ASSUME Calm(Now, client), TerminalTimeout
    PROVE  Calm(Now, client)'
<1> DEFINE d == RequestClose(Now)
<1>0. Solid(Now, client) /\ Base(Now, client) /\ ~Now.m.tearing
    BY CalmIs
<1>1. Now.m.closed
    BY <1>0, NowIs DEF TerminalTimeout, Base
<1>2. Solid(d, client) /\ d.m = Now.m
    BY <1>0, <1>1, RequestKeeps
<1>3. Completes(d)
    BY DEF TerminalTimeout
<1> HIDE DEF d
<1> QED  BY <1>0, <1>1, <1>2, <1>3, OverEnds

LEMMA CloseSoonStep ==
    ASSUME Calm(Now, client), CloseSoon
    PROVE  Calm(Now, client)'
<1> DEFINE c == [Now EXCEPT !.a.soon = FALSE]
           d == RequestClose(c)
<1>0. Solid(Now, client) /\ Base(Now, client) /\ ~Now.m.tearing /\ Now \in Composites
    BY CalmIs
<1>1. Now.m.closed
    BY <1>0, NowIs DEF CloseSoon, Base
<1>2. /\ c \in Composites /\ c.e = Now.e /\ c.m = Now.m /\ c.w = Now.w
      /\ c.a.active = Now.a.active /\ c.a.produced = Now.a.produced
      /\ c.a.pausedGen = Now.a.pausedGen /\ c.a.tripped = Now.a.tripped
      /\ c.a.close = Now.a.close
    BY <1>0, Zenon DEF Composites, Adapters
<1>3. Completes(d)
    BY DEF CloseSoon
<1> HIDE DEF c
<1>4. SamePipe(Now, c)
    BY <1>2 DEF SamePipe
<1>5. Solid(c, client) /\ c.m.closed /\ ~c.m.tearing
    BY <1>0, <1>1, <1>2, <1>4, SamePipeKeeps
<1>6. Solid(d, client) /\ d.m = c.m
    BY <1>5, RequestKeeps
<1> HIDE DEF d
<1> QED  BY <1>3, <1>5, <1>6, OverEnds

LEMMA SocketStep ==
    ASSUME Calm(Now, client), SocketClosed \/ ClientLeaves
    PROVE  Calm(Now, client)'
<1> DEFINE c == [Now EXCEPT !.a.close = "closed", !.a.timers = {},
                            !.w.failed = TRUE, !.w.q = <<>>]
           d == Teardown(c, FALSE)
<1>0. Solid(Now, client) /\ ~Now.m.tearing /\ Now \in Composites
    BY CalmIs
<1>1. Completes(d)
    BY DEF SocketClosed, ClientLeaves, CloseSocket
<1>2. /\ c \in Composites /\ c.e = Now.e /\ c.m = Now.m /\ c.w.q = <<>> /\ c.w.failed = TRUE
      /\ c.w.paused = Now.w.paused
      /\ c.a.pausedGen = Now.a.pausedGen /\ c.a.tripped = Now.a.tripped
    <2>1. "closed" \in Closes /\ {} \in SUBSET Turns /\ <<>> \in Seq(WireMessages)
        BY DEF Closes
    <2> QED  BY <1>0, <2>1, Zenon DEF Composites, Adapters, Writers
<1> HIDE DEF c
<1>3. Solid(c, client) /\ ~c.m.tearing
    BY <1>0, <1>2, EmptyKeeps
<1>4. Solid(d, client) /\ d.m.closed /\ ~d.m.tearing
    BY <1>3, TeardownKeeps
<1> HIDE DEF d
<1> QED  BY <1>1, <1>4, OverEnds

-----------------------------------------------------------------------------
LEMMA DeliveryStarts ==
    ASSUME DeliveryInit
    PROVE  Calm(Now, client)
<1> DEFINE c == Now
<1>0. /\ c.e = EngineInit /\ c.m = MediaInit /\ c.a = AdapterInit
      /\ c.w = [q |-> <<>>, paused |-> FALSE, failed |-> FALSE]
      /\ client = [open |-> NoTurn, last |-> 0, next |-> 0]
      /\ c = [e |-> c.e, m |-> c.m, a |-> c.a, w |-> c.w]
    BY DEF DeliveryInit, Now
<1>1. MaxTurns \in Nat /\ MaxTurns >= 1 /\ NoTurn \in Responses /\ 0 \in Responses
      /\ 1 \in 1..MaxTurns + 1 /\ 0 \in Nat /\ 0 \in Int
    BY DeliveryAssumption DEF DeliveryAssumption, Responses, NoTurn
<1>2. /\ <<>> \in Seq(Speech) /\ <<>> \in Seq(ResponseOutputs)
      /\ <<>> \in Seq(WireMessages) /\ {} \in SUBSET Turns
    OBVIOUS
<1>3. EngineInit \in Engines
    BY <1>1, <1>2, SettledIs, Zenon DEF EngineInit, Engines
<1>4. MediaInit \in MediaSessions
    <2>1. [g \in Turns |-> [st |-> "none", next |-> 0]] \in [Turns -> Feedbacks]
        BY DEF Feedbacks
    <2> QED  BY <1>1, <1>2, <2>1, Zenon DEF MediaInit, MediaSessions
<1>5. AdapterInit \in Adapters
    <2>1. "open" \in Closes
        BY DEF Closes
    <2> QED  BY <1>1, <1>2, <2>1, Zenon DEF AdapterInit, Adapters
<1>6. [q |-> <<>>, paused |-> FALSE, failed |-> FALSE] \in Writers
    BY <1>2 DEF Writers
<1>7. c \in Composites
    BY <1>0, <1>3, <1>4, <1>5, <1>6 DEF Composites
<1>8. client \in Tellings /\ client.open \in {NoTurn, client.last}
    BY <1>0, <1>1 DEF Tellings, NoTurn
<1>9. WireInv(client, <<>>) /\ Final(client, <<>>) = client
    BY <1>8, WireEmpty
<1>10. /\ c.w.q = <<>> /\ c.w.failed = FALSE /\ c.m.queue = <<>> /\ c.m.closed = FALSE
       /\ c.m.fail = NoTurn /\ c.m.tearing = FALSE /\ c.m.ending = FALSE
       /\ c.m.paused = FALSE /\ c.m.flow = NoTurn /\ c.m.active = NoTurn
       /\ c.m.retired = 0 /\ c.a.active = NoTurn /\ c.a.tripped = FALSE
       /\ c.a.fatal = FALSE /\ c.a.soon = FALSE /\ c.a.close = "open"
       /\ c.e.turn = NoTurn /\ c.e.next = 1 /\ c.e.fired = {} /\ c.e.stream = FALSE
       /\ c.e.settle.phase = "none"
       /\ c.m.feedback = [g \in Turns |-> [st |-> "none", next |-> 0]]
    BY <1>0, SettledIs DEF EngineInit, MediaInit, AdapterInit
<1>11. client.open = NoTurn /\ client.last = 0
    BY <1>0
<1> HIDE DEF c
<1>12. \A t, g : ~Has(<<>>, t, g)
    BY HasNothing
<1>13. Piped(c, client)
    BY <1>7, <1>9, <1>10, <1>11, <1>12 DEF Piped, AgreesInv, GateInv
<1>14. Base(c, client)
    BY <1>10, <1>12, <1>13 DEF Base, Solid
<1>15. Live(c, client)
    <2>1. QueueInv(<<>>, 1, 0, {}, c.m.feedback)
        BY DEF QueueInv
    <2>2. FeedbackInv(c.m.feedback, client, <<>>)
        BY <1>10, <1>12 DEF FeedbackInv
    <2>3. FlowInv(c, 0)
        BY <1>10 DEF FlowInv, NoTurn
    <2>4. TurnInv(c)
        BY <1>10 DEF TurnInv, NoTurn
    <2> QED  BY <1>9, <1>10, <1>11, <2>1, <2>2, <2>3, <2>4 DEF Live
<1>16. SettleInv(c, client) /\ FreshInv(c) /\ OpenInv(c)
    BY <1>10 DEF SettleInv, FreshInv, OpenInv
<1> QED  BY <1>10, <1>14, <1>15, <1>16 DEF Calm, Sound, Steady, c

LEMMA DeliverySteps ==
    ASSUME Calm(Now, client), [DeliveryNext]_deliveryVars
    PROVE  Calm(Now, client)'
<1>1. CASE DeliveryNext
    BY <1>1, SystemTurnStep, UserSpeaksStep, UserTurnEndsStep, DeclareStep,
       StreamEndsStep, StreamFailsStep, TtsTimeoutStep, GpuAudioStep, GpuDoneStep,
       GpuDropsStep, PlaybackEndsStep, BargeInStep, ClientCancelsStep, OtherOutputStep,
       HandoffStep, WriterFailsStep, DrainTimeoutStep, QueueTimeoutStep, EndStep,
       UploadDoneStep, TerminalTimeoutStep, CloseSoonStep, SocketStep
    DEF DeliveryNext
<1>2. CASE UNCHANGED deliveryVars
    <2>1. Now' = Now /\ client' = client
        BY <1>2 DEF deliveryVars, Now
    <2> QED  BY <2>1
<1> QED  BY <1>1, <1>2

\* The inductive invariant: whatever the client, the GPU, the timers and the
\* candidate do, between two events the connection is as it should be.
THEOREM ConnectionIsSound == DeliverySpec => []DeliveryInv
<1>1. DeliveryInit => DeliveryInv
    BY DeliveryStarts DEF DeliveryInv
<1>2. DeliveryInv /\ [DeliveryNext]_deliveryVars => DeliveryInv'
    BY DeliverySteps DEF DeliveryInv
<1> QED  BY <1>1, <1>2, PTL DEF DeliverySpec

LEMMA WireFollows == DeliveryInv => WireIsWellFormed
<1> SUFFICES ASSUME Calm(Now, client) PROVE WireIsWellFormed
    BY DEF DeliveryInv
<1>1. WireInv(client, writer.q) /\ ~adapter.tripped
    BY CalmIs, NowIs DEF Solid, Piped
<1>2. DOMAIN writer.q = 1..Len(writer.q)
    BY <1>1 DEF WireInv
<1> QED  BY <1>1, <1>2 DEF WireIsWellFormed, WireInv

LEMMA GateFollows == DeliveryInv => GateFollowsWriter
  BY CalmIs, NowIs DEF DeliveryInv, Solid, Piped, GateInv, GateFollowsWriter

LEMMA SettlementFollows == DeliveryInv => SettlementIsOnItsWay
<1> SUFFICES ASSUME Calm(Now, client), engine.settle.phase = "wire",
                    Announced(engine.settle.g), ~media.closed
             PROVE  EndIsOnItsWay
    BY DEF SettlementIsOnItsWay, DeliveryInv
<1> DEFINE g == engine.settle.g
<1>1. /\ SettleInv(Now, client) /\ FreshInv(Now) /\ WireInv(client, writer.q)
      /\ media.queue \in Seq(ResponseOutputs) /\ writer.q \in Seq(WireMessages)
      /\ g \in Nat /\ client.last <= Final(client, writer.q).last
      /\ client.last \in Nat /\ Final(client, writer.q).last \in Nat
    <2>1. /\ Lives(Now) /\ Now \in Composites /\ WireInv(client, writer.q)
          /\ SettleInv(Now, client) /\ FreshInv(Now)
        BY CalmIs, NowIs DEF Solid, Piped
    <2>2. g \in Nat
        BY <2>1, NumbersAre, NowIs
    <2>3. media.queue \in Seq(ResponseOutputs) /\ writer.q \in Seq(WireMessages)
        BY <2>1, CompositeParts, NowIs
    <2>4. client.last <= Final(client, writer.q).last
          /\ client.last \in Nat /\ Final(client, writer.q).last \in Nat
        BY <2>1, FinalIs
    <2> QED  BY <2>1, <2>2, <2>3, <2>4
<1>2. Known(Now, client, g) \/ Sent(Now, g)
    <2>1. CASE g <= client.last
        <3>1. g <= Final(client, writer.q).last
            BY <1>1, <2>1
        <3> QED  BY <3>1, NowIs DEF Known
    <2>2. CASE Message("created", g, 0) \in Range(writer.q)
        <3>1. PICK i \in 1..Len(writer.q) : writer.q[i] = Message("created", g, 0)
            BY <1>1, <2>2 DEF Range
        <3>2. writer.q[i].t = "created" /\ writer.q[i].g = g
            BY <3>1 DEF Message
        <3>3. g <= Final(client, writer.q).last
            BY <1>1, <3>2, FinalIs
        <3> QED  BY <3>3, NowIs DEF Known
    <2>3. CASE Output("started", g, FALSE) \in Range(media.queue)
        <3> DEFINE o == Output("started", g, FALSE)
        <3>0. o \in Range(media.queue) /\ o.t = "started" /\ o.g = g
            BY <2>3 DEF Output
        <3> HIDE DEF o, g
        <3>1. PICK i \in 1..Len(media.queue) : media.queue[i] = o
            BY <1>1, <3>0 DEF Range
        <3>2. media.queue[i].t = "started" /\ media.queue[i].g = g
            BY <3>0, <3>1
        <3>3. Has(Now.m.queue, "started", g)
            BY <3>2, NowIs DEF Has
        <3> QED  BY <1>1, <3>3, NowIs DEF FreshInv, Known, g
    <2> QED  BY <2>1, <2>2, <2>3 DEF Announced
<1>3. Has(media.queue, "terminal", g) \/ (Has(writer.q, "done", g) /\ g \in adapter.timers)
    BY <1>1, <1>2, NowIs DEF SettleInv, Ending, Sent
<1>4. CASE Has(media.queue, "terminal", g)
    <2>1. PICK i \in 1..Len(media.queue) :
              media.queue[i].t = "terminal" /\ media.queue[i].g = g
        BY <1>4 DEF Has
    <2>2. media.queue[i] \in Range(media.queue)
        BY <1>1 DEF Range
    <2> QED  BY <2>1, <2>2 DEF EndIsOnItsWay
<1>5. CASE Has(writer.q, "done", g) /\ g \in adapter.timers
    <2>1. PICK i \in 1..Len(writer.q) : writer.q[i].t = "done" /\ writer.q[i].g = g
        BY <1>5 DEF Has
    <2>2. writer.q[i] \in Range(writer.q) /\ writer.q[i] \in WireMessages
        BY <1>1 DEF Range
    <2>3. writer.q[i] = Message("done", g, 0)
        BY <2>1, <2>2, WireMessageIs
    <2> QED  BY <1>5, <2>2, <2>3 DEF EndIsOnItsWay
<1> QED  BY <1>3, <1>4, <1>5

\* For any number of turns, segments and frames and any water marks: what the
\* writer sends is one well-formed response after the other, and the adapter's
\* checks of itself never fail.
THEOREM WireIsAlwaysWellFormed == DeliverySpec => []WireIsWellFormed
  BY ConnectionIsSound, WireFollows, PTL

\* A gate that the media session holds shut is one the adapter will open: its
\* writer is full, and it remembers the response it paused.
THEOREM ShutGatesAreRemembered == DeliverySpec => []GateFollowsWriter
  BY ConnectionIsSound, GateFollows, PTL

\* A turn whose response was announced and whose end the engine waits for has
\* its response.done at the gate, or with the writer under a drain timer.
THEOREM SettlementsAreOnTheirWay == DeliverySpec => []SettlementIsOnItsWay
  BY ConnectionIsSound, SettlementFollows, PTL
=============================================================================
