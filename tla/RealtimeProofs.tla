---------------------------- MODULE RealtimeProofs ----------------------------
(***************************************************************************)
(* Proofs about the two directions of a realtime connection.               *)
(*                                                                         *)
(* OrderedWriter, out: for any number of frames, any sizes, any legal      *)
(* limits and any faults.                                                  *)
(* SpeechInput, in: for any number of appends, commits, clears, flushes    *)
(* and refusals, and any limit on what is held back.                       *)
(***************************************************************************)
EXTENDS OrderedWriter, SpeechInput, SequenceTheorems, WellFoundedInduction, TLAPS

-----------------------------------------------------------------------------
(* OrderedWriter                                                           *)

(* The strengthening: where the frames are follows from three numbers, the *)
(* frames given, the frames handed off and the frames queued.              *)

Delivered == Len(handoffs)
Between(m, n) == {f \in Frames : m < f /\ f <= n}

InOrder ==
    /\ HandoffsInOrder
    /\ Delivered <= given

\* While the writer works, the frames not handed off are the one with the
\* socket and then those in the queue.
WorkingInv ==
    ~failed =>
        /\ Delivered + (IF inFlight = None THEN 0 ELSE 1) + Len(queue) = given
        /\ inFlight # None => inFlight = Delivered + 1
        /\ \A i \in DOMAIN queue : queue[i] = given - Len(queue) + i
        /\ \A f \in Frames : failures[f] = 0
        /\ queuedBytes = Ends[given] - Ends[given - Len(queue)]

\* A failed writer holds nothing, and told every frame it did not hand off.
FailedInv ==
    failed =>
        /\ queue = <<>> /\ inFlight = None /\ queuedBytes = 0
        /\ \A f \in Frames :
            failures[f] = IF Delivered < f /\ f <= given THEN 1 ELSE 0

\* The socket holds at most one frame, the one in flight.
WireInv ==
    /\ Len(wire) \in {0, 1}
    /\ wire = <<>> => ~flushed
    /\ ~failed => wire = IF inFlight = None THEN <<>> ELSE <<inFlight>>
    /\ buffered = IF wire = <<>> \/ flushed THEN 0 ELSE Bytes(Head(wire))

IInv ==
    /\ TypeOK
    /\ InOrder
    /\ WorkingInv
    /\ FailedInv
    /\ WireInv
    /\ ResidentBounded

-----------------------------------------------------------------------------
(* What the invariant says of the frames *)

LEMMA BytesPositive == ASSUME NEW f \in Frames PROVE Bytes(f) \in Nat \ {0}
<1>1. f \in 0..Count /\ f - 1 \in 0..Count /\ f - 1 < f
  BY WriterAssumption DEF Frames
<1>2. Ends[f] \in Nat /\ Ends[f - 1] \in Nat /\ Ends[f - 1] < Ends[f]
  BY <1>1, WriterAssumption
<1> QED BY <1>2 DEF Bytes

\* The queue of a working writer holds no more than was given.
LEMMA QueueFits ==
    ASSUME TypeOK, InOrder, WorkingInv, ~failed
    PROVE  /\ queue \in Seq(Frames) /\ Len(queue) \in Nat /\ DOMAIN queue = 1..Len(queue)
           /\ Delivered \in Nat /\ given \in Nat /\ Count \in Nat /\ given <= Count
           /\ Len(queue) <= given /\ given - Len(queue) \in 0..Count
<1>1. /\ queue \in Seq(Frames) /\ Len(queue) \in Nat /\ DOMAIN queue = 1..Len(queue)
      /\ Delivered \in Nat
  BY DEF TypeOK, Delivered
<1>2. given \in Nat /\ given <= Count /\ Count \in Nat
  BY WriterAssumption DEF TypeOK
<1>3. Delivered + (IF inFlight = None THEN 0 ELSE 1) + Len(queue) = given
  BY DEF WorkingInv
<1>4. Len(queue) <= given
  BY <1>1, <1>2, <1>3
<1> QED BY <1>1, <1>2, <1>4

\* A working writer's pending frames are those given and not handed off.
LEMMA PendingIsInterval ==
    ASSUME TypeOK, InOrder, WorkingInv, ~failed
    PROVE  /\ QueuedFrames = Between(given - Len(queue), given)
           /\ PendingFrames = Between(Delivered, given)
<1> DEFINE q == Len(queue)
<1>1. /\ queue \in Seq(Frames) /\ q \in Nat /\ given \in Nat /\ Delivered \in Nat
      /\ given <= Count /\ Count \in Nat
      /\ DOMAIN queue = 1..q
      /\ \A i \in 1..q : queue[i] = given - q + i
      /\ q <= given
  BY QueueFits DEF WorkingInv
<1>2. \A f \in Frames : InQueue(f) <=> given - q < f /\ f <= given
  <2> SUFFICES ASSUME NEW f \in Frames
               PROVE  InQueue(f) <=> given - q < f /\ f <= given
    OBVIOUS
  <2>1. f \in Nat
    BY DEF Frames
  <2>2. ASSUME InQueue(f) PROVE given - q < f /\ f <= given
    <3>1. PICK i \in 1..q : queue[i] = f
      BY <2>2, <1>1 DEF InQueue
    <3>2. f = given - q + i
      BY <1>1, <3>1
    <3> QED BY <1>1, <2>1, <3>1, <3>2
  <2>3. ASSUME given - q < f, f <= given PROVE InQueue(f)
    <3> DEFINE i == f - (given - q)
    <3>1. i \in 1..q
      BY <1>1, <2>1, <2>3
    <3>2. queue[i] = given - q + i
      BY <1>1, <3>1
    <3>3. queue[i] = f
      BY <1>1, <2>1, <3>2
    <3> QED BY <1>1, <3>1, <3>3 DEF InQueue
  <2> QED BY <2>2, <2>3
<1>3. QueuedFrames = Between(given - q, given)
  BY <1>2 DEF QueuedFrames, Between
<1>4. \A f \in Frames : Pending(f) <=> Delivered < f /\ f <= given
  <2>1. CASE inFlight = None
    <3>1. \A f \in Frames : f # inFlight
      BY <2>1 DEF Frames, None
    <3>2. Delivered = given - q
      BY <1>1, <2>1 DEF WorkingInv
    <3> QED BY <1>2, <3>1, <3>2 DEF Pending
  <2>2. CASE inFlight # None
    <3>1. Delivered + 1 = given - q /\ inFlight = Delivered + 1
      BY <1>1, <2>2 DEF WorkingInv
    <3> QED BY <1>1, <1>2, <3>1 DEF Pending, Frames
  <2> QED BY <2>1, <2>2
<1>5. PendingFrames = Between(Delivered, given)
  BY <1>4 DEF PendingFrames, Between
<1> QED BY <1>3, <1>5

\* A failed writer has no pending frame.
LEMMA FailedHoldsNothing ==
    ASSUME TypeOK, FailedInv, failed
    PROVE  PendingFrames = {}
BY DEF FailedInv, PendingFrames, Pending, InQueue, Frames, None

\* The frames handed off are the first ones.
LEMMA HandedOffIsPrefix ==
    ASSUME TypeOK, InOrder, NEW f \in Frames
    PROVE  HandedOff(f) <=> f <= Delivered
<1>1. DOMAIN handoffs = 1..Delivered /\ Delivered \in Nat
  BY DEF TypeOK, Delivered
<1>2. \A i \in 1..Delivered : handoffs[i] = i
  BY <1>1 DEF InOrder, HandoffsInOrder
<1>3. f \in Nat /\ f >= 1
  BY DEF Frames
<1> QED BY <1>1, <1>2, <1>3 DEF HandedOff

-----------------------------------------------------------------------------
(* Initial states and steps *)

LEMMA InitInvariant == Init => IInv
<1> SUFFICES ASSUME Init PROVE IInv
  OBVIOUS
<1> USE DEF Init
<1>1. 0 \in 0..Count /\ Hard \in Nat /\ MaxAge \in Nat \ {0} /\ Ends[0] = 0
  BY WriterAssumption
<1>2. TypeOK
  <2>1. age \in [Frames -> 0..MaxAge] /\ failures \in [Frames -> Nat]
    BY <1>1
  <2>2. /\ queue \in Seq(Frames) /\ handoffs \in Seq(Frames)
        /\ wire \in Seq(Frames) /\ todo \in Seq(Steps)
    BY EmptySeq
  <2> QED BY <1>1, <2>1, <2>2 DEF TypeOK
<1>3. InOrder
  BY DEF InOrder, HandoffsInOrder, Delivered
<1>4. WorkingInv
  BY <1>1 DEF WorkingInv, Delivered
<1>5. FailedInv /\ WireInv
  BY DEF FailedInv, WireInv
<1>6. ResidentBounded
  BY <1>1 DEF ResidentBounded, Resident
<1> QED BY <1>2, <1>3, <1>4, <1>5, <1>6 DEF IInv

\* What the socket looks like after it gave up its only frame.
LEMMA ReleaseEmpties ==
    ASSUME IInv, wire # <<>>, Releases
    PROVE  /\ wire' = <<>> /\ flushed' = FALSE /\ buffered' = 0
           /\ Head(wire) \in Frames
<1>1. wire \in Seq(Frames) /\ Len(wire) = 1 /\ Head(wire) \in Frames
  <2>1. wire \in Seq(Frames) /\ Len(wire) \in {0, 1}
    BY DEF IInv, TypeOK, WireInv
  <2>2. Len(wire) # 0 /\ Len(wire) \in Nat
    BY <2>1, EmptySeq
  <2>3. Head(wire) \in Frames
    BY <2>1, HeadTailProperties
  <2>4. Len(wire) = 1
    BY <2>1, <2>2
  <2> QED BY <2>1, <2>3, <2>4
<1>2. wire' = <<>>
  BY <1>1 DEF Releases
<1>3. Bytes(Head(wire)) \in Nat
  BY <1>1, BytesPositive
<1> QED BY <1>1, <1>2, <1>3 DEF Releases, IInv, WireInv

\* Whatever fails the writer keeps the invariant if it tells exactly the frames
\* given and not handed off.
LEMMA FailKeeps ==
    ASSUME IInv, NEW pending, NEW own, Fail(pending, own),
           ~failed => /\ given' \in 0..Count /\ given <= given'
                      /\ pending \cup own = Between(Delivered, given'),
           failed => own = {} /\ given' = given,
           paused' = paused,
           todo' \in Seq(Steps),
           \/ UNCHANGED socketVars
           \/ wire' = <<>> /\ flushed' = FALSE /\ buffered' = 0
    PROVE  IInv'
<1>1. failed' /\ handoffs' = handoffs /\ age' = age /\ Delivered' = Delivered
  BY DEF Fail, IInv, TypeOK, Delivered
<1>2. queue' = <<>> /\ inFlight' = None /\ queuedBytes' = 0
  BY DEF Fail, IInv, FailedInv
<1>3. given' \in 0..Count /\ given <= given' /\ given \in Nat
  BY DEF IInv, TypeOK
<1>4. failures' \in [Frames -> Nat]
  <2>1. failures \in [Frames -> Nat]
    BY DEF IInv, TypeOK
  <2>2. \A notified : Notify(notified) \in [Frames -> Nat]
    BY <2>1 DEF Notify
  <2> QED BY <2>2 DEF Fail
<1>5. TypeOK'
  <2>1. timer' \in {NoTimer} \cup 0..MaxAge
    BY DEF Fail, IInv, TypeOK
  <2>2. wire' \in Seq(Frames) /\ flushed' \in BOOLEAN /\ buffered' \in Nat
    <3>1. wire \in Seq(Frames) /\ flushed \in BOOLEAN /\ buffered \in Nat
      BY DEF IInv, TypeOK
    <3>2. CASE UNCHANGED socketVars
      BY <3>1, <3>2 DEF socketVars
    <3>3. CASE wire' = <<>> /\ flushed' = FALSE /\ buffered' = 0
      BY <3>3, EmptySeq
    <3> QED BY <3>2, <3>3
  <2>3. age' \in [Frames -> 0..MaxAge] /\ handoffs' \in Seq(Frames) /\ paused' \in BOOLEAN
    BY <1>1 DEF IInv, TypeOK
  <2> QED BY <1>1, <1>2, <1>3, <1>4, <2>1, <2>2, <2>3 DEF TypeOK
<1>6. InOrder'
  BY <1>1, <1>3 DEF IInv, TypeOK, InOrder, HandoffsInOrder, Delivered
<1>7. FailedInv'
  <2>1. CASE failed
    <3>1. \A f \in Frames : failures'[f] = failures[f]
      BY <2>1 DEF Fail, Notify, IInv, TypeOK
    <3> QED BY <1>1, <1>2, <2>1, <3>1 DEF IInv, FailedInv
  <2>2. CASE ~failed
    <3>1. failures' = Notify(Between(Delivered, given'))
      BY <2>2 DEF Fail
    <3>2. \A f \in Frames : failures[f] = 0
      BY <2>2 DEF IInv, WorkingInv
    <3>3. \A f \in Frames :
            failures'[f] = IF Delivered < f /\ f <= given' THEN 1 ELSE 0
      BY <3>1, <3>2 DEF Notify, Between
    <3> QED BY <1>1, <1>2, <3>3 DEF FailedInv
  <2> QED BY <2>1, <2>2
<1>8. WireInv'
  BY <1>1 DEF IInv, WireInv, socketVars, Bytes
<1> QED BY <1>1, <1>5, <1>6, <1>7, <1>8 DEF IInv, WorkingInv, ResidentBounded

\* Steps of synchronous code and of time that leave the writer and the socket
\* alone.
LEMMA QuietKeeps ==
    ASSUME IInv, UNCHANGED <<writerVars, socketVars>>,
           timer' \in {NoTimer} \cup 0..MaxAge,
           age' \in [Frames -> 0..MaxAge],
           todo' \in Seq(Steps)
    PROVE  IInv'
<1> USE DEF writerVars, socketVars
<1>1. TypeOK'
  BY DEF IInv, TypeOK
<1>2. Delivered' = Delivered
  BY DEF Delivered
<1>3. InOrder' /\ WorkingInv' /\ FailedInv' /\ ResidentBounded'
  BY <1>2 DEF IInv, InOrder, HandoffsInOrder, WorkingInv, FailedInv, ResidentBounded, Resident
<1>4. WireInv'
  BY DEF IInv, WireInv, Bytes
<1> QED BY <1>1, <1>3, <1>4 DEF IInv

\* The continuation after its first step is a continuation.
LEMMA TodoAfter ==
    ASSUME IInv, todo # <<>>
    PROVE  Tail(todo) \in Seq(Steps)
BY HeadTailProperties DEF IInv, TypeOK

LEMMA EnqueueAcceptedKeeps == ASSUME IInv, EnqueueAccepted PROVE IInv'
<1> DEFINE n == given + 1
<1>1. /\ given \in Nat /\ n \in Frames /\ n \in 0..Count /\ ~failed
      /\ queue \in Seq(Frames) /\ Len(queue) \in Nat /\ Hard \in Nat
  BY WriterAssumption DEF EnqueueAccepted, MayEnqueue, IInv, TypeOK, Frames
<1>2. /\ queue' = Append(queue, n) /\ given' = n
      /\ queuedBytes' = queuedBytes + Bytes(n)
      /\ UNCHANGED <<inFlight, paused, failed, handoffs, failures>>
      /\ UNCHANGED clockVars /\ UNCHANGED socketVars
      /\ todo' = <<"pump", "flow", "stall">> \o todo
      /\ ~Overruns(n)
  BY DEF EnqueueAccepted
<1> HIDE DEF n
<1>3. /\ queue' \in Seq(Frames) /\ Len(queue') = Len(queue) + 1
      /\ \A i \in 1..Len(queue) : queue'[i] = queue[i]
      /\ queue'[Len(queue) + 1] = n
      /\ DOMAIN queue' = 1..(Len(queue) + 1) /\ DOMAIN queue = 1..Len(queue)
  BY <1>1, <1>2, AppendProperties, LenProperties
<1>4. Bytes(n) \in Nat
  BY <1>1, BytesPositive
<1>5. TypeOK'
  <2>1. todo' \in Seq(Steps)
    <3>1. <<"pump", "flow", "stall">> \in Seq(Steps)
      BY DEF Steps
    <3> QED BY <1>2, <3>1, ConcatProperties DEF IInv, TypeOK
  <2>2. queuedBytes' \in Nat
    BY <1>2, <1>4, SMTT(30) DEF IInv, TypeOK
  <2> QED BY <1>1, <1>2, <1>3, <2>1, <2>2 DEF IInv, TypeOK, clockVars, socketVars
<1>6. Delivered' = Delivered /\ Delivered \in Nat /\ Delivered <= given
  BY <1>2 DEF Delivered, IInv, TypeOK, InOrder
<1>7. InOrder'
  BY <1>1, <1>2, <1>6 DEF n, IInv, InOrder, HandoffsInOrder
<1>8. WorkingInv'
  <2>1. /\ Delivered + (IF inFlight = None THEN 0 ELSE 1) + Len(queue) = given
        /\ inFlight # None => inFlight = Delivered + 1
        /\ \A i \in 1..Len(queue) : queue[i] = given - Len(queue) + i
        /\ \A f \in Frames : failures[f] = 0
        /\ queuedBytes = Ends[given] - Ends[given - Len(queue)]
    BY <1>1, <1>3 DEF IInv, WorkingInv
  <2>2. Delivered + (IF inFlight = None THEN 0 ELSE 1) + Len(queue') = n
    BY <1>1, <1>3, <1>6, <2>1 DEF n
  <2>3. n - Len(queue') = given - Len(queue)
    BY <1>1, <1>3 DEF n
  <2>4. \A i \in 1..(Len(queue) + 1) : queue'[i] = given - Len(queue) + i
    BY <1>1, <1>3, <2>1 DEF n
  <2>5. queuedBytes' = Ends[n] - Ends[given - Len(queue)]
    <3>1. Bytes(n) = Ends[n] - Ends[given]
      BY <1>1 DEF n, Bytes
    <3>2. given \in 0..Count /\ given - Len(queue) \in 0..Count
      BY <1>1, QueueFits DEF IInv, TypeOK
    <3>3. Ends[n] \in Nat /\ Ends[given] \in Nat /\ Ends[given - Len(queue)] \in Nat
      BY <1>1, <3>2, WriterAssumption
    <3> QED BY <1>2, <2>1, <3>1, <3>3
  <2> QED BY <1>2, <1>3, <1>6, <2>1, <2>2, <2>3, <2>4, <2>5 DEF WorkingInv
<1>9. FailedInv' /\ WireInv'
  BY <1>1, <1>2 DEF IInv, FailedInv, WireInv, socketVars, Bytes
<1>10. ResidentBounded'
  <2>1. queuedBytes \in Nat /\ buffered \in Nat
    BY DEF IInv, TypeOK
  <2> QED BY <1>1, <1>2, <1>4, <2>1 DEF ResidentBounded, Resident, Overruns, socketVars
<1> QED BY <1>5, <1>7, <1>8, <1>9, <1>10 DEF IInv

LEMMA PumpSendsKeeps == ASSUME IInv, PumpSends PROVE IInv'
<1> DEFINE f == Head(queue)
           q == Len(queue)
<1>1. /\ todo # <<>> /\ ~failed /\ inFlight = None /\ queue # <<>>
      /\ queue' = Tail(queue)
      /\ queuedBytes' = queuedBytes - Bytes(f)
      /\ inFlight' = f
      /\ wire' = Append(wire, f)
      /\ buffered' = buffered + Bytes(f)
      /\ todo' = Tail(todo)
      /\ UNCHANGED <<given, paused, failed, handoffs, failures, flushed>>
      /\ UNCHANGED clockVars
  BY DEF PumpSends, At, MayPump
<1>2. /\ queue \in Seq(Frames) /\ f \in Frames /\ q \in Nat \ {0}
      /\ queue' \in Seq(Frames) /\ Len(queue') = q - 1
      /\ \A i \in 1..(q - 1) : queue'[i] = queue[i + 1]
      /\ DOMAIN queue = 1..q /\ DOMAIN queue' = 1..(q - 1)
  <2>1. queue \in Seq(Frames) /\ queue # <<>>
    BY <1>1 DEF IInv, TypeOK
  <2>2. f \in Frames /\ Tail(queue) \in Seq(Frames) /\ Len(Tail(queue)) = q - 1
        /\ \A i \in 1..Len(Tail(queue)) : Tail(queue)[i] = queue[i + 1]
    BY <2>1, HeadTailProperties
  <2>3. q \in Nat \ {0}
    BY <2>1, EmptySeq
  <2>4. DOMAIN queue = 1..q /\ DOMAIN queue' = 1..Len(queue')
    BY <1>1, <2>1, <2>2, LenProperties
  <2> QED BY <1>1, <2>1, <2>2, <2>3, <2>4
<1>3. /\ Delivered + q = given /\ f = Delivered + 1
      /\ \A i \in 1..q : queue[i] = given - q + i
      /\ \A g \in Frames : failures[g] = 0
      /\ queuedBytes = Ends[given] - Ends[given - q]
      /\ given \in 0..Count /\ Delivered \in Nat
  <2>1. /\ Delivered + 0 + q = given
        /\ \A i \in 1..q : queue[i] = given - q + i
        /\ \A g \in Frames : failures[g] = 0
        /\ queuedBytes = Ends[given] - Ends[given - q]
    BY <1>1, <1>2 DEF IInv, WorkingInv
  <2>2. given \in 0..Count /\ Delivered \in Nat
    BY DEF IInv, TypeOK, Delivered
  <2>3. f = queue[1] /\ q >= 1 /\ q \in Nat
    BY <1>2
  <2>4. f = given - q + 1 /\ Delivered + q = given
    BY <2>1, <2>2, <2>3
  <2>5. f = Delivered + 1
    BY <2>2, <2>3, <2>4
  <2> QED BY <2>1, <2>2, <2>4, <2>5
<1>4. wire = <<>> /\ wire' = <<f>> /\ buffered = 0 /\ flushed \in BOOLEAN
  BY <1>1, <1>2 DEF IInv, TypeOK, WireInv
<1> HIDE DEF f, q
<1>5. /\ Bytes(f) = Ends[f] - Ends[f - 1] /\ Bytes(f) \in Nat
      /\ f = given - q + 1 /\ f - 1 = given - q
  BY <1>2, <1>3, BytesPositive DEF Bytes
<1>6. queuedBytes' = Ends[given] - Ends[given - (q - 1)] /\ queuedBytes' \in Nat
  <2>1. given - q \in 0..Count /\ f \in 0..Count /\ f <= given /\ given - (q - 1) = f
    BY <1>1, <1>2, <1>3, <1>5, QueueFits DEF Frames, IInv, q
  <2>2. Ends[given] \in Nat /\ Ends[given - q] \in Nat /\ Ends[f] \in Nat
    BY <1>3, <2>1, WriterAssumption
  <2>3. queuedBytes' = Ends[given] - Ends[f]
    <3>1. Bytes(f) = Ends[f] - Ends[given - q]
      BY <1>5
    <3>2. queuedBytes' = queuedBytes - Bytes(f) /\ queuedBytes = Ends[given] - Ends[given - q]
      BY <1>1, <1>3
    <3> QED BY <2>2, <3>1, <3>2
  <2>4. Ends[f] <= Ends[given]
    BY <1>3, <2>1, <2>2, WriterAssumption
  <2> QED BY <2>1, <2>2, <2>3, <2>4
<1>7. TypeOK'
  <2>1. wire' \in Seq(Frames) /\ buffered' \in Nat
    BY <1>1, <1>2, <1>4, <1>5
  <2> QED BY <1>1, <1>2, <1>6, <2>1, TodoAfter DEF IInv, TypeOK, clockVars
<1>8. Delivered' = Delivered
  BY <1>1 DEF Delivered
<1>9. InOrder'
  BY <1>1, <1>8 DEF IInv, InOrder, HandoffsInOrder
<1>10. WorkingInv'
  <2>1. f # None
    BY <1>2 DEF Frames, None
  <2>2. \A i \in 1..(q - 1) : queue'[i] = given - (q - 1) + i
    BY <1>2, <1>3
  <2>3. given' - Len(queue') = given - (q - 1) /\ given' = given
    BY <1>1, <1>2
  <2>4. queuedBytes' = Ends[given'] - Ends[given' - Len(queue')]
    BY <1>6, <2>3
  <2>5. Delivered + 1 + Len(queue') = given
    BY <1>2, <1>3
  <2> QED BY <1>1, <1>2, <1>3, <1>8, <2>1, <2>2, <2>3, <2>4, <2>5 DEF WorkingInv
<1>11. FailedInv'
  BY <1>1 DEF FailedInv
<1>12. WireInv'
  <2>1. flushed = FALSE
    BY <1>4 DEF IInv, WireInv
  <2> QED BY <1>1, <1>2, <1>4, <1>5, <2>1 DEF WireInv, Frames, None, Bytes
<1>13. ResidentBounded'
  <2>1. queuedBytes \in Nat /\ Hard \in Nat
    BY WriterAssumption DEF IInv, TypeOK
  <2> QED BY <1>1, <1>4, <1>5, <2>1 DEF IInv, ResidentBounded, Resident
<1> QED BY <1>7, <1>9, <1>10, <1>11, <1>12, <1>13 DEF IInv

LEMMA SocketFlushesKeeps == ASSUME IInv, SocketFlushes PROVE IInv'
<1>1. /\ UNCHANGED <<writerVars, clockVars, wire, todo>> /\ wire # <<>> /\ ~flushed
      /\ flushed' = TRUE /\ buffered' = buffered - Bytes(Head(wire))
  BY DEF SocketFlushes
<1>2. Head(wire) \in Frames /\ buffered = Bytes(Head(wire)) /\ buffered \in Nat
  BY <1>1, HeadTailProperties DEF IInv, TypeOK, WireInv
<1>3. buffered' = 0
  BY <1>1, <1>2
<1>4. TypeOK'
  BY <1>1, <1>3 DEF IInv, TypeOK, writerVars, clockVars
<1>5. Delivered' = Delivered
  BY <1>1 DEF Delivered, writerVars
<1>6. InOrder' /\ WorkingInv' /\ FailedInv'
  BY <1>1, <1>5 DEF IInv, InOrder, HandoffsInOrder, WorkingInv, FailedInv, writerVars
<1>7. WireInv'
  BY <1>1, <1>3 DEF IInv, WireInv, writerVars
<1>8. ResidentBounded'
  <2>1. queuedBytes \in Nat /\ Hard \in Nat
    BY WriterAssumption DEF IInv, TypeOK
  <2> QED BY <1>1, <1>2, <1>3, <2>1 DEF IInv, ResidentBounded, Resident, writerVars
<1> QED BY <1>4, <1>6, <1>7, <1>8 DEF IInv

LEMMA CallbackIgnoredKeeps == ASSUME IInv, CallbackIgnored PROVE IInv'
<1>1. /\ UNCHANGED writerVars /\ UNCHANGED clockVars /\ todo' = todo
      /\ wire # <<>> /\ Releases /\ (failed \/ inFlight # Head(wire))
  BY DEF CallbackIgnored
<1>2. wire' = <<>> /\ flushed' = FALSE /\ buffered' = 0
  BY <1>1, ReleaseEmpties
<1>3. failed
  <2>1. ~failed => wire = <<inFlight>>
    BY <1>1 DEF IInv, WireInv
  <2> QED BY <1>1, <2>1
<1>4. TypeOK'
  BY <1>1, <1>2, EmptySeq DEF IInv, TypeOK, writerVars, clockVars
<1>5. Delivered' = Delivered /\ failed'
  BY <1>1, <1>3 DEF Delivered, writerVars
<1>6. InOrder' /\ WorkingInv' /\ FailedInv' /\ ResidentBounded'
  BY <1>1, <1>5 DEF IInv, InOrder, HandoffsInOrder, WorkingInv, FailedInv, ResidentBounded,
                    writerVars
<1>7. WireInv'
  BY <1>2, <1>5, EmptySeq DEF WireInv
<1> QED BY <1>4, <1>6, <1>7 DEF IInv

LEMMA CallbackSucceedsKeeps == ASSUME IInv, CallbackSucceeds PROVE IInv'
<1> DEFINE f == Head(wire)
<1>1. /\ wire # <<>> /\ ~failed /\ inFlight = f /\ Releases
      /\ inFlight' = None /\ handoffs' = Append(handoffs, f)
      /\ todo' = <<"handoff_observer", "pump", "flow", "stall">>
      /\ UNCHANGED <<given, queue, queuedBytes, paused, failed, failures>>
      /\ UNCHANGED clockVars
  BY DEF CallbackSucceeds
<1>2. wire' = <<>> /\ flushed' = FALSE /\ buffered' = 0 /\ f \in Frames
  BY <1>1, ReleaseEmpties
<1> HIDE DEF f
<1>3. /\ f = Delivered + 1 /\ Delivered + 1 + Len(queue) = given
      /\ Delivered \in Nat /\ Len(queue) \in Nat /\ given \in Nat
      /\ \A i \in 1..Delivered : handoffs[i] = i
  <2>1. f # None
    BY <1>2 DEF Frames, None
  <2>2. f = Delivered + 1 /\ Delivered + 1 + Len(queue) = given
    BY <1>1, <2>1 DEF IInv, WorkingInv
  <2>3. Delivered \in Nat /\ Len(queue) \in Nat /\ given \in Nat
    BY <1>1, QueueFits DEF IInv
  <2>4. DOMAIN handoffs = 1..Delivered
    BY DEF IInv, TypeOK, Delivered
  <2> QED BY <2>2, <2>3, <2>4 DEF IInv, InOrder, HandoffsInOrder
<1>4. /\ handoffs' \in Seq(Frames) /\ Delivered' = Delivered + 1
      /\ DOMAIN handoffs' = 1..(Delivered + 1)
      /\ \A i \in 1..Delivered : handoffs'[i] = handoffs[i]
      /\ handoffs'[Delivered + 1] = f
  BY <1>1, <1>2, AppendProperties, LenProperties DEF IInv, TypeOK, Delivered
<1>5. TypeOK'
  <2>1. todo' \in Seq(Steps)
    BY <1>1 DEF Steps
  <2>2. wire' \in Seq(Frames)
    BY <1>2, EmptySeq
  <2> QED BY <1>1, <1>2, <1>4, <2>1, <2>2 DEF IInv, TypeOK, clockVars
<1>6. InOrder'
  <2>1. \A i \in 1..(Delivered + 1) : handoffs'[i] = i
    BY <1>3, <1>4
  <2> QED BY <1>1, <1>3, <1>4, <2>1 DEF InOrder, HandoffsInOrder
<1>7. WorkingInv'
  BY <1>1, <1>3, <1>4 DEF IInv, WorkingInv
<1>8. FailedInv' /\ WireInv'
  BY <1>1, <1>2, EmptySeq DEF FailedInv, WireInv
<1>9. ResidentBounded'
  <2>1. queuedBytes \in Nat /\ buffered \in Nat /\ Hard \in Nat
    BY WriterAssumption DEF IInv, TypeOK
  <2> QED BY <1>1, <1>2, <2>1 DEF IInv, ResidentBounded, Resident
<1> QED BY <1>5, <1>6, <1>7, <1>8, <1>9 DEF IInv

LEMMA EnqueueRejectedKeeps == ASSUME IInv, EnqueueRejected PROVE IInv'
<1>1. /\ failed /\ given < Count /\ given' = given + 1
      /\ failures' = Notify({given + 1})
      /\ UNCHANGED <<queue, queuedBytes, inFlight, paused, failed, handoffs, todo>>
      /\ UNCHANGED clockVars /\ UNCHANGED socketVars
  BY DEF EnqueueRejected, MayEnqueue
<1>2. given \in Nat /\ given' \in 0..Count /\ Delivered \in Nat /\ Delivered <= given
  BY <1>1, WriterAssumption DEF IInv, TypeOK, InOrder, Delivered
<1>3. Delivered' = Delivered
  BY <1>1 DEF Delivered
<1>4. failures \in [Frames -> Nat] /\ failures' \in [Frames -> Nat]
  BY <1>1 DEF IInv, TypeOK, Notify
<1>5. TypeOK'
  BY <1>1, <1>2, <1>4 DEF IInv, TypeOK, clockVars, socketVars
<1>6. InOrder'
  BY <1>1, <1>2, <1>3 DEF IInv, InOrder, HandoffsInOrder
<1>7. FailedInv'
  <2>1. \A f \in Frames :
          failures'[f] = IF Delivered < f /\ f <= given' THEN 1 ELSE 0
    <3> SUFFICES ASSUME NEW f \in Frames
                 PROVE  failures'[f] = IF Delivered < f /\ f <= given' THEN 1 ELSE 0
      OBVIOUS
    <3>1. failures[f] = IF Delivered < f /\ f <= given THEN 1 ELSE 0
      BY <1>1 DEF IInv, FailedInv
    <3>2. failures'[f] = failures[f] + IF f = given + 1 THEN 1 ELSE 0
      BY <1>1 DEF Notify
    <3>3. f \in Nat
      BY DEF Frames
    <3> QED BY <1>1, <1>2, <3>1, <3>2, <3>3
  <2> QED BY <1>1, <1>3, <2>1 DEF IInv, FailedInv
<1>8. WireInv' /\ WorkingInv' /\ ResidentBounded'
  BY <1>1 DEF IInv, WireInv, WorkingInv, ResidentBounded, socketVars, Bytes
<1> QED BY <1>5, <1>6, <1>7, <1>8 DEF IInv

\* The steps that fail the writer tell the right frames: all that are pending.
LEMMA FailAllKeeps ==
    ASSUME IInv, Fail(PendingFrames, {}), given' = given, paused' = paused,
           UNCHANGED socketVars, todo' \in Seq(Steps)
    PROVE  IInv'
<1>1. given \in 0..Count /\ given <= given
  BY WriterAssumption DEF IInv, TypeOK
<1>2. ~failed => PendingFrames \cup {} = Between(Delivered, given)
  BY PendingIsInterval DEF IInv
<1> QED BY <1>1, <1>2, FailKeeps

LEMMA EnqueueOverrunsKeeps == ASSUME IInv, EnqueueOverruns PROVE IInv'
<1>1. /\ given < Count /\ ~failed /\ given' = given + 1
      /\ Fail(PendingFrames \cup {given + 1}, {})
      /\ paused' = paused /\ todo' = todo /\ UNCHANGED socketVars
  BY DEF EnqueueOverruns, MayEnqueue
<1>2. given \in Nat /\ given' \in 0..Count /\ Delivered \in Nat /\ Delivered <= given
  BY <1>1, WriterAssumption DEF IInv, TypeOK, InOrder, Delivered
<1>3. (PendingFrames \cup {given + 1}) \cup {} = Between(Delivered, given')
  <2>1. PendingFrames = Between(Delivered, given)
    BY <1>1, PendingIsInterval DEF IInv
  <2>2. Between(Delivered, given) \cup {given + 1} = Between(Delivered, given + 1)
    BY <1>1, <1>2 DEF Between, Frames
  <2> QED BY <1>1, <2>1, <2>2
<1>4. todo' \in Seq(Steps)
  BY <1>1 DEF IInv, TypeOK
<1> QED BY <1>1, <1>2, <1>3, <1>4, FailKeeps

LEMMA PumpThrowsKeeps == ASSUME IInv, PumpThrows PROVE IInv'
<1> DEFINE f == Head(queue)
<1>1. /\ todo # <<>> /\ ~failed /\ inFlight = None /\ queue # <<>>
      /\ Fail(QueuedFrames \ {f}, {f})
      /\ given' = given /\ paused' = paused /\ UNCHANGED socketVars
      /\ todo' = Tail(todo)
  BY DEF PumpThrows, At, MayPump
<1>2. f \in QueuedFrames
  <2>1. queue \in Seq(Frames) /\ f \in Frames
    BY <1>1, HeadTailProperties DEF IInv, TypeOK
  <2>2. 1 \in DOMAIN queue /\ queue[1] = f
    BY <1>1, <2>1, EmptySeq, LenProperties
  <2> QED BY <2>1, <2>2 DEF QueuedFrames, InQueue
<1>3. QueuedFrames = Between(Delivered, given)
  <2>1. QueuedFrames = Between(given - Len(queue), given)
    BY <1>1, PendingIsInterval DEF IInv
  <2>2. given - Len(queue) = Delivered
    BY <1>1, QueueFits DEF IInv, WorkingInv
  <2> QED BY <2>1, <2>2
<1>4. given \in 0..Count /\ given <= given
  BY WriterAssumption DEF IInv, TypeOK
<1> HIDE DEF f
<1>5. (QueuedFrames \ {f}) \cup {f} = Between(Delivered, given)
  BY <1>2, <1>3
<1> QED BY <1>1, <1>4, <1>5, TodoAfter, FailKeeps

LEMMA CallbackFailsKeeps == ASSUME IInv, CallbackFails PROVE IInv'
<1> DEFINE f == Head(wire)
<1>1. /\ wire # <<>> /\ ~failed /\ inFlight = f /\ Releases
      /\ Fail(QueuedFrames, {f})
      /\ given' = given /\ paused' = paused /\ todo' = todo
  BY DEF CallbackFails
<1>2. wire' = <<>> /\ flushed' = FALSE /\ buffered' = 0 /\ f \in Frames
  BY <1>1, ReleaseEmpties
<1> HIDE DEF f
<1>3. QueuedFrames \cup {f} = Between(Delivered, given)
  <2>1. PendingFrames = QueuedFrames \cup {f}
    BY <1>1, <1>2 DEF PendingFrames, QueuedFrames, Pending
  <2> QED BY <1>1, <2>1, PendingIsInterval DEF IInv
<1>4. given \in 0..Count /\ given <= given /\ todo' \in Seq(Steps)
  BY <1>1, WriterAssumption DEF IInv, TypeOK
<1> QED BY <1>1, <1>2, <1>3, <1>4, FailKeeps

LEMMA FlowChangesKeeps == ASSUME IInv, FlowChanges PROVE IInv'
<1>1. /\ todo # <<>> /\ paused' \in BOOLEAN /\ todo' = <<"flow_observer">> \o Tail(todo)
      /\ UNCHANGED <<given, queue, queuedBytes, inFlight, failed, handoffs, failures>>
      /\ UNCHANGED clockVars /\ UNCHANGED socketVars
  BY DEF FlowChanges, At, Pauses
<1>2. todo' \in Seq(Steps)
  <2>1. <<"flow_observer">> \in Seq(Steps)
    BY DEF Steps
  <2> QED BY <1>1, <2>1, TodoAfter, ConcatProperties
<1>3. TypeOK'
  BY <1>1, <1>2 DEF IInv, TypeOK, clockVars, socketVars
<1>4. Delivered' = Delivered
  BY <1>1 DEF Delivered
<1>5. InOrder' /\ WorkingInv' /\ FailedInv' /\ ResidentBounded'
  BY <1>1, <1>4 DEF IInv, InOrder, HandoffsInOrder, WorkingInv, FailedInv, ResidentBounded,
                    Resident, socketVars
<1>6. WireInv'
  BY <1>1 DEF IInv, WireInv, socketVars, Bytes
<1> QED BY <1>3, <1>5, <1>6 DEF IInv

\* The stall timer is never set beyond MaxAge.
LEMMA DelayFits ==
    ASSUME IInv, NEW f \in Frames
    PROVE  Delay(f) \in 0..MaxAge
<1>1. age[f] \in 0..MaxAge /\ MaxAge \in Nat \ {0}
  BY WriterAssumption DEF IInv, TypeOK
<1> QED BY <1>1 DEF Delay

LEMMA OldestIsFrame ==
    ASSUME IInv, Oldest # None
    PROVE  Oldest \in Frames
BY HeadTailProperties DEF IInv, TypeOK, Oldest

-----------------------------------------------------------------------------

LEMMA StepInvariant == ASSUME IInv, [Next]_vars PROVE IInv'
<1> USE DEF writerVars, clockVars, socketVars
<1>1. timer \in {NoTimer} \cup 0..MaxAge /\ age \in [Frames -> 0..MaxAge]
      /\ todo \in Seq(Steps) /\ MaxAge \in Nat \ {0}
  BY WriterAssumption DEF IInv, TypeOK
<1>2. CASE Enqueue
  BY <1>2, EnqueueRejectedKeeps, EnqueueOverrunsKeeps, EnqueueAcceptedKeeps DEF Enqueue
<1>3. CASE Pump
  <2>1. CASE PumpNothing
    BY <1>1, <2>1, TodoAfter, QuietKeeps DEF PumpNothing, At
  <2> QED BY <1>3, <2>1, PumpSendsKeeps, PumpThrowsKeeps DEF Pump
<1>4. CASE Flow
  <2>1. CASE FlowStays
    BY <1>1, <2>1, TodoAfter, QuietKeeps DEF FlowStays, At
  <2> QED BY <1>4, <2>1, FlowChangesKeeps DEF Flow
<1>5. CASE ObserverEnds
  <2>1. CASE FlowObserverReturns \/ HandoffObserverReturns
    BY <1>1, <2>1, TodoAfter, QuietKeeps DEF FlowObserverReturns, HandoffObserverReturns, At
  <2>2. CASE FlowObserverThrows
    BY <2>2, TodoAfter, FailAllKeeps DEF FlowObserverThrows, At
  <2>3. CASE HandoffObserverThrows
    BY <2>3, EmptySeq, FailAllKeeps DEF HandoffObserverThrows
  <2> QED BY <1>5, <2>1, <2>2, <2>3 DEF ObserverEnds
<1>6. CASE StallCheck
  <2>1. timer' \in {NoTimer} \cup 0..MaxAge
    BY <1>6, DelayFits, OldestIsFrame DEF StallCheck
  <2> QED BY <1>1, <1>6, <2>1, TodoAfter, QuietKeeps DEF StallCheck, At
<1>7. CASE SocketFlushes
  BY <1>7, SocketFlushesKeeps
<1>8. CASE Callback
  BY <1>8, CallbackIgnoredKeeps, CallbackSucceedsKeeps, CallbackFailsKeeps DEF Callback
<1>9. CASE Timer
  <2>1. CASE TimerFindsStall
    BY <1>1, <2>1, FailAllKeeps DEF TimerFindsStall
  <2>2. CASE TimerFindsYounger
    <3>1. timer' \in {NoTimer} \cup 0..MaxAge
      BY <2>2, DelayFits, OldestIsFrame DEF TimerFindsYounger
    <3> QED BY <1>1, <2>2, <3>1, QuietKeeps DEF TimerFindsYounger
  <2> QED BY <1>9, <2>1, <2>2 DEF Timer
<1>10. CASE Tick
  <2>1. timer' \in {NoTimer} \cup 0..MaxAge
    BY <1>1, <1>10 DEF Tick, NoTimer
  <2>2. age' \in [Frames -> 0..MaxAge]
    BY <1>1, <1>10 DEF Tick
  <2> QED BY <1>1, <1>10, <2>1, <2>2, QuietKeeps DEF Tick
<1>11. CASE SocketClosed
  BY <1>1, <1>11, FailAllKeeps DEF SocketClosed
<1>12. CASE UNCHANGED vars
  BY <1>1, <1>12, QuietKeeps DEF vars
<1> QED BY <1>2, <1>3, <1>4, <1>5, <1>6, <1>7, <1>8, <1>9, <1>10, <1>11, <1>12 DEF Next, Code

LEMMA Invariance == Spec => []IInv
BY InitInvariant, StepInvariant, PTL DEF Spec

\* The types, for any number of frames and any limits the constructor accepts.
THEOREM TypeCorrect == Spec => []TypeOK
<1>1. IInv => TypeOK
  BY DEF IInv
<1> QED BY Invariance, <1>1, PTL

\* Every frame has exactly one fate: pending, handed off or failed, whatever
\* fails and whichever observer enqueues.
THEOREM TellsOnce == Spec => []ToldOnce
<1>1. IInv => ToldOnce
  <2> SUFFICES ASSUME IInv, NEW f \in Frames
               PROVE  (IF Pending(f) THEN 1 ELSE 0) + (IF HandedOff(f) THEN 1 ELSE 0)
                        + failures[f] = IF f <= given THEN 1 ELSE 0
    BY DEF ToldOnce
  <2>1. HandedOff(f) <=> f <= Delivered
    BY HandedOffIsPrefix DEF IInv
  <2>2. /\ f \in Nat /\ Delivered \in Nat /\ given \in Nat /\ Delivered <= given
        /\ failures[f] \in Nat
    BY DEF IInv, TypeOK, InOrder, Delivered, Frames
  <2>3. CASE failed
    <3>1. ~Pending(f)
      BY <2>3, FailedHoldsNothing DEF IInv, PendingFrames
    <3>2. failures[f] = IF Delivered < f /\ f <= given THEN 1 ELSE 0
      BY <2>3 DEF IInv, FailedInv
    <3> QED BY <2>1, <2>2, <3>1, <3>2
  <2>4. CASE ~failed
    <3>1. Pending(f) <=> Delivered < f /\ f <= given
      BY <2>4, PendingIsInterval DEF IInv, PendingFrames, Between
    <3>2. failures[f] = 0
      BY <2>4 DEF IInv, WorkingInv
    <3> QED BY <2>1, <2>2, <3>1, <3>2
  <2> QED BY <2>3, <2>4
<1> QED BY Invariance, <1>1, PTL

\* Hand-offs follow the order of the enqueue() calls, also when they are nested.
THEOREM OrderedHandoffs == Spec => []HandoffsInOrder
<1>1. IInv => HandoffsInOrder
  BY DEF IInv, InOrder
<1> QED BY Invariance, <1>1, PTL

\* A working writer stays within the hard limit.
THEOREM StaysBounded == Spec => []ResidentBounded
<1>1. IInv => ResidentBounded
  BY DEF IInv
<1> QED BY Invariance, <1>1, PTL

-----------------------------------------------------------------------------
(* Refinement: the fates of all frames follow from the frames given, the   *)
(* frames handed off and whether the writer failed.                        *)

Fates(g, d, b) ==
    [f \in Frames |->
        IF f > g THEN "new"
        ELSE IF f <= d THEN "delivered"
        ELSE IF b THEN "failed"
        ELSE "pending"]

OutcomeIsFates == Outcome = Fates(given, Delivered, failed)

LEMMA FatesInvariance == IInv => OutcomeIsFates
<1> SUFFICES ASSUME IInv, NEW f \in Frames
             PROVE  Outcome[f] = Fates(given, Delivered, failed)[f]
  BY DEF OutcomeIsFates, Outcome, Fates
<1>1. f \in Nat /\ given \in Nat /\ Delivered \in Nat /\ Delivered <= given
  BY DEF Frames, IInv, TypeOK, InOrder, Delivered
<1>2. HandedOff(f) <=> f <= Delivered
  BY HandedOffIsPrefix DEF IInv
<1>3. failed => ~Pending(f)
  BY FailedHoldsNothing DEF IInv, PendingFrames
<1>4. ~failed => (Pending(f) <=> Delivered < f /\ f <= given)
  BY PendingIsInterval DEF IInv, PendingFrames, Between
<1>5. CASE failed
  BY <1>1, <1>2, <1>3, <1>5 DEF Outcome, Fates
<1>6. CASE ~failed
  BY <1>1, <1>2, <1>4, <1>6 DEF Outcome, Fates
<1> QED BY <1>5, <1>6

\* Each way the three numbers change is a step of OrderedDelivery.
LEMMA FatesRefine ==
    ASSUME IInv, IInv', OutcomeIsFates, OutcomeIsFates',
           \/ given' = given /\ Delivered' = Delivered /\ failed' = failed
           \/ given' = given + 1 /\ Delivered' = Delivered /\ failed' = failed
           \/ given' = given /\ Delivered' = Delivered + 1 /\ ~failed /\ ~failed'
           \/ given' \in {given, given + 1} /\ Delivered' = Delivered /\ ~failed /\ failed'
    PROVE  [Delivery!Next]_(Delivery!vars)
<1> USE DEF Fates, Delivery!Frames, Frames
<1>1. /\ Outcome = Fates(given, Delivered, failed)
      /\ Outcome' = Fates(given', Delivered', failed')
  BY DEF OutcomeIsFates
<1>2. /\ given \in Nat /\ Delivered \in Nat /\ Delivered <= given /\ failed \in BOOLEAN
      /\ given' \in Nat /\ given' <= Count /\ Delivered' <= given' /\ Count \in Nat
  BY WriterAssumption DEF IInv, TypeOK, InOrder, Delivered
<1>3. CASE given' = given /\ Delivered' = Delivered /\ failed' = failed
  BY <1>1, <1>3 DEF Delivery!vars
<1>4. CASE given' = given + 1 /\ Delivered' = Delivered /\ failed' = failed
  <2> DEFINE n == given + 1
  <2>1. n \in Frames /\ Delivery!NextToGive(n)
    BY <1>1, <1>2, <1>4 DEF Delivery!NextToGive
  <2>2. Outcome' = [Outcome EXCEPT ![n] = IF failed THEN "failed" ELSE "pending"]
    <3>1. \A f \in Frames :
              Outcome'[f] = IF f = n THEN IF failed THEN "failed" ELSE "pending"
                            ELSE Outcome[f]
      BY <1>1, <1>2, <1>4
    <3> QED BY <1>1, <3>1
  <2>3. Delivery!Give(n)
    BY <1>4, <2>1, <2>2 DEF Delivery!Give
  <2> QED BY <2>1, <2>3 DEF Delivery!Next
<1>5. CASE given' = given /\ Delivered' = Delivered + 1 /\ ~failed /\ ~failed'
  <2> DEFINE n == Delivered + 1
  <2>1. n \in Frames /\ Delivery!FirstPending(n)
    BY <1>1, <1>2, <1>5 DEF Delivery!FirstPending
  <2>2. Outcome' = [Outcome EXCEPT ![n] = "delivered"]
    <3>1. n <= given
      BY <1>2, <1>5
    <3>2. \A f \in Frames : Outcome'[f] = IF f = n THEN "delivered" ELSE Outcome[f]
      BY <1>1, <1>2, <1>5, <3>1
    <3> QED BY <1>1, <3>2
  <2>3. Delivery!Deliver(n)
    BY <1>2, <1>5, <2>1, <2>2 DEF Delivery!Deliver, IInv, TypeOK
  <2> QED BY <2>1, <2>3 DEF Delivery!Next
<1>6. CASE given' = given /\ Delivered' = Delivered /\ ~failed /\ failed'
  <2>1. Outcome' = Delivery!FailPending(Outcome)
    BY <1>1, <1>2, <1>6 DEF Delivery!FailPending
  <2>2. failed' = TRUE
    BY <1>6 DEF IInv, TypeOK
  <2>3. Delivery!Break
    BY <1>6, <2>1, <2>2 DEF Delivery!Break
  <2> QED BY <2>3 DEF Delivery!Next
<1>7. CASE given' = given + 1 /\ Delivered' = Delivered /\ ~failed /\ failed'
  <2> DEFINE n == given + 1
  <2>1. n \in Frames /\ Delivery!NextToGive(n)
    BY <1>1, <1>2, <1>7 DEF Delivery!NextToGive
  <2>2. Outcome' = Delivery!FailPending([Outcome EXCEPT ![n] = "pending"])
    BY <1>1, <1>2, <1>7 DEF Delivery!FailPending
  <2>3. failed' = TRUE
    BY <1>7 DEF IInv, TypeOK
  <2>4. Delivery!GiveAndBreak(n)
    BY <1>7, <2>1, <2>2, <2>3 DEF Delivery!GiveAndBreak
  <2> QED BY <2>1, <2>4 DEF Delivery!Next
<1> QED BY <1>3, <1>4, <1>5, <1>6, <1>7

\* What each step does to the three numbers.
LEMMA StepRefines ==
    ASSUME IInv, IInv', OutcomeIsFates, OutcomeIsFates', [Next]_vars
    PROVE  [Delivery!Next]_(Delivery!vars)
<1> DEFINE Stays == given' = given /\ Delivered' = Delivered /\ failed' = failed
           Fails == given' = given /\ Delivered' = Delivered /\ failed'
<1> USE DEF writerVars
<1>1. failed \in BOOLEAN /\ failed' \in BOOLEAN
  BY DEF IInv, TypeOK
<1>2. \A pending, own : Fail(pending, own) => failed' /\ Delivered' = Delivered
  BY DEF Fail, Delivered
<1>3. CASE EnqueueRejected \/ EnqueueAccepted
  <2>1. given' = given + 1 /\ Delivered' = Delivered /\ failed' = failed
    BY <1>3 DEF EnqueueRejected, EnqueueAccepted, Delivered
  <2> QED BY <2>1, FatesRefine
<1>4. CASE EnqueueOverruns
  <2>1. given' = given + 1 /\ Delivered' = Delivered /\ ~failed /\ failed'
    BY <1>2, <1>4 DEF EnqueueOverruns
  <2> QED BY <2>1, FatesRefine
<1>5. CASE CallbackSucceeds
  <2>1. given' = given /\ ~failed /\ failed' = failed /\ handoffs' = Append(handoffs, Head(wire))
        /\ wire # <<>>
    BY <1>5 DEF CallbackSucceeds
  <2>2. Delivered' = Delivered + 1
    <3>1. handoffs \in Seq(Frames) /\ Head(wire) \in Frames
      BY <2>1, HeadTailProperties DEF IInv, TypeOK
    <3> QED BY <2>1, <3>1, AppendProperties DEF Delivered
  <2> QED BY <2>1, <2>2, FatesRefine
<1>6. CASE SocketClosed \/ PumpThrows \/ FlowObserverThrows \/ CallbackFails
           \/ HandoffObserverThrows \/ TimerFindsStall
  <2>1. Fails
    BY <1>2, <1>6 DEF SocketClosed, PumpThrows, FlowObserverThrows, CallbackFails,
                      HandoffObserverThrows, TimerFindsStall
  <2> QED BY <1>1, <2>1, FatesRefine
<1>7. CASE PumpNothing \/ PumpSends \/ Flow \/ FlowObserverReturns \/ HandoffObserverReturns
           \/ StallCheck \/ SocketFlushes \/ CallbackIgnored \/ TimerFindsYounger \/ Tick
           \/ UNCHANGED vars
  <2>1. Stays
    BY <1>7 DEF PumpNothing, PumpSends, Flow, FlowChanges, FlowStays, FlowObserverReturns,
                HandoffObserverReturns, StallCheck, SocketFlushes, CallbackIgnored,
                TimerFindsYounger, Tick, vars, Delivered
  <2> QED BY <2>1, FatesRefine
<1> QED BY <1>3, <1>4, <1>5, <1>6, <1>7
        DEF Next, Code, Enqueue, Pump, ObserverEnds, Callback, Timer

LEMMA InitRefines == Init => Delivery!Init
<1> SUFFICES ASSUME Init PROVE Outcome = [f \in Frames |-> "new"] /\ failed = FALSE
  BY DEF Delivery!Init, Delivery!Frames, Frames
<1> QED BY DEF Init, Outcome, Frames

\* The writer is an OrderedDelivery: it delivers in order, breaks once, and
\* fails what it has not delivered.
THEOREM ImplementsOrderedDelivery == Spec => ImplementsDelivery
<1>1. IInv /\ IInv' /\ OutcomeIsFates /\ OutcomeIsFates' /\ [Next]_vars
        => [Delivery!Next]_(Delivery!vars)
  BY StepRefines
<1> QED BY Invariance, FatesInvariance, InitRefines, <1>1, PTL
        DEF Spec, ImplementsDelivery, Delivery!Spec

-----------------------------------------------------------------------------
(* The flow signal.  While synchronous code runs the signal may be behind what  *)
(* the writer holds, but then the update that corrects it is still to come, and *)
(* so is the pump that sends what is queued.                                    *)

ToCome(step) == \E i \in DOMAIN todo : todo[i] = step

FlowInv ==
    ~failed =>
        /\ ~paused /\ Resident >= High => ToCome("flow")
        /\ paused => ToCome("flow") \/ inFlight # None \/ queue # <<>>
        /\ inFlight = None /\ queue # <<>> => ToCome("pump")

\* What is to come stays to come, until it is next.
LEMMA ToComeAfter ==
    ASSUME IInv, todo # <<>>, NEW step, ToCome(step), Head(todo) # step,
           NEW first \in Seq(Steps), Len(first) \in {0, 1},
           todo' = first \o Tail(todo)
    PROVE  ToCome(step)'
<1>1. PICK i \in DOMAIN todo : todo[i] = step
  BY DEF ToCome
<1>2. todo \in Seq(Steps) /\ Tail(todo) \in Seq(Steps) /\ Len(Tail(todo)) = Len(todo) - 1
      /\ i \in 1..Len(todo) /\ Len(todo) \in Nat
      /\ \A j \in 1..Len(Tail(todo)) : Tail(todo)[j] = todo[j + 1]
  BY <1>1, HeadTailProperties DEF IInv, TypeOK
<1>3. i # 1
  BY <1>1, <1>2
<1>4. i - 1 \in 1..Len(Tail(todo)) /\ Tail(todo)[i - 1] = step
  BY <1>1, <1>2, <1>3
<1>5. /\ todo' \in Seq(Steps) /\ Len(todo') = Len(first) + Len(Tail(todo))
      /\ \A j \in 1..Len(todo') :
            todo'[j] = IF j <= Len(first) THEN first[j] ELSE Tail(todo)[j - Len(first)]
  BY <1>2, ConcatProperties
<1>6. Len(first) \in Nat /\ Len(first) + (i - 1) \in 1..Len(todo')
      /\ DOMAIN todo' = 1..Len(todo')
  BY <1>2, <1>4, <1>5
<1>7. todo'[Len(first) + (i - 1)] = step
  BY <1>2, <1>4, <1>5, <1>6
<1> QED BY <1>6, <1>7 DEF ToCome

\* Without a frame in flight or queued nothing is resident.
LEMMA HoldsNothing ==
    ASSUME IInv, ~failed, inFlight = None, queue = <<>> PROVE Resident = 0
<1>1. wire = <<>> /\ buffered = 0
  BY DEF IInv, WireInv
<1>2. given \in 0..Count /\ Ends[given] \in Nat
  BY WriterAssumption DEF IInv, TypeOK
<1>3. queuedBytes = 0
  BY <1>2 DEF IInv, WorkingInv
<1> QED BY <1>1, <1>3 DEF Resident

LEMMA FlowInit == Init => FlowInv
<1> SUFFICES ASSUME Init PROVE FlowInv
  OBVIOUS
<1>1. High \in Nat /\ Low \in Nat /\ Low < High
  BY WriterAssumption
<1> QED BY <1>1 DEF Init, FlowInv, Resident

\* Steps that only take a finished step of the code off the stack.
LEMMA PopKeepsFlow ==
    ASSUME IInv, FlowInv, todo # <<>>, todo' = Tail(todo),
           UNCHANGED <<paused, failed, inFlight, queue, queuedBytes, buffered>>,
           Head(todo) \notin {"flow", "pump"}
    PROVE  FlowInv'
<1>1. /\ <<>> \in Seq(Steps) /\ Len(<<>>) = 0 /\ Tail(todo) \in Seq(Steps)
  BY TodoAfter, EmptySeq
<1>2. todo' = <<>> \o Tail(todo)
  BY <1>1, ConcatEmptySeq
<1>3. \A step \in {"flow", "pump"} : ToCome(step) => ToCome(step)'
  BY <1>1, <1>2, ToComeAfter
<1> QED BY <1>3 DEF FlowInv, Resident

LEMMA EnqueueKeepsFlow ==
    ASSUME IInv, EnqueueAccepted PROVE FlowInv'
<1>1. /\ todo' = <<"pump", "flow", "stall">> \o todo
      /\ todo \in Seq(Steps) /\ <<"pump", "flow", "stall">> \in Seq(Steps)
  BY DEF EnqueueAccepted, IInv, TypeOK, Steps
<1>2. /\ todo'[1] = "pump" /\ todo'[2] = "flow"
      /\ DOMAIN todo' = 1..(3 + Len(todo)) /\ Len(todo) \in Nat
  BY <1>1, ConcatProperties
<1>3. ToCome("pump")' /\ ToCome("flow")'
  BY <1>2 DEF ToCome
<1> QED BY <1>3 DEF FlowInv

LEMMA PumpKeepsFlow ==
    ASSUME IInv, FlowInv, PumpNothing \/ PumpSends PROVE FlowInv'
<1>1. todo # <<>> /\ Head(todo) = "pump" /\ todo' = Tail(todo)
  BY DEF PumpNothing, PumpSends, At
<1>2. <<>> \in Seq(Steps) /\ Len(<<>>) = 0 /\ todo' = <<>> \o Tail(todo)
  BY <1>1, TodoAfter, EmptySeq, ConcatEmptySeq
<1>3. ToCome("flow") => ToCome("flow")'
  BY <1>1, <1>2, ToComeAfter
<1>4. CASE PumpNothing
  BY <1>3, <1>4 DEF PumpNothing, MayPump, FlowInv, Resident, writerVars, socketVars
<1>5. CASE PumpSends
  <2>1. Head(queue) \in Frames /\ Bytes(Head(queue)) \in Nat
    BY <1>5, HeadTailProperties, BytesPositive DEF PumpSends, MayPump, IInv, TypeOK
  <2>2. inFlight' # None
    BY <1>5, <2>1 DEF PumpSends, Frames, None
  <2>3. Resident' = Resident
    BY <1>5, <2>1 DEF PumpSends, Resident, IInv, TypeOK
  <2> QED BY <1>3, <1>5, <2>2, <2>3 DEF PumpSends, FlowInv
<1> QED BY <1>4, <1>5

\* The update of the flow finds something resident when it leaves the producer
\* paused, and too little to pause when it does not.
LEMMA FlowKeepsFlow ==
    ASSUME IInv, FlowInv, FlowChanges \/ FlowStays PROVE FlowInv'
<1>1. /\ todo # <<>> /\ Head(todo) = "flow"
      /\ UNCHANGED <<queue, queuedBytes, inFlight, failed, buffered>>
      /\ \/ todo' = <<"flow_observer">> \o Tail(todo)
         \/ todo' = Tail(todo)
  BY DEF FlowChanges, FlowStays, At, writerVars, socketVars
<1>2. ToCome("pump") => ToCome("pump")'
  <2>1. CASE todo' = <<"flow_observer">> \o Tail(todo)
    <3>1. <<"flow_observer">> \in Seq(Steps) /\ Len(<<"flow_observer">>) = 1
      BY DEF Steps
    <3> QED BY <1>1, <2>1, <3>1, ToComeAfter
  <2>2. CASE todo' = Tail(todo)
    <3>1. <<>> \in Seq(Steps) /\ Len(<<>>) = 0 /\ todo' = <<>> \o Tail(todo)
      BY <1>1, <2>2, TodoAfter, EmptySeq, ConcatEmptySeq
    <3> QED BY <1>1, <3>1, ToComeAfter
  <2> QED BY <1>1, <2>1, <2>2
<1>3. /\ Low \in Nat /\ High \in Nat /\ Low < High /\ Resident \in Nat
      /\ Resident' = Resident /\ paused \in BOOLEAN
  BY <1>1, WriterAssumption DEF IInv, TypeOK, Resident
<1>4. /\ paused' => Resident > 0
      /\ ~paused' => Resident < High
  <2>1. CASE FlowChanges
    <3>1. CASE Pauses
      <4>1. paused' = TRUE
        BY <2>1, <3>1 DEF FlowChanges
      <4>2. Resident >= High
        BY <3>1 DEF Pauses
      <4> QED BY <1>3, <4>1, <4>2
    <3>2. CASE ~Pauses
      <4>1. paused' = FALSE
        BY <2>1, <3>2 DEF FlowChanges, Pauses
      <4>2. Resident <= Low
        BY <2>1, <3>2 DEF FlowChanges, Resumes
      <4> QED BY <1>3, <4>1, <4>2
    <3> QED BY <3>1, <3>2
  <2>2. CASE FlowStays
    BY <1>3, <2>2 DEF FlowStays, Pauses, Resumes, writerVars
  <2> QED BY <2>1, <2>2
<1>5. ~failed /\ paused' => inFlight # None \/ queue # <<>>
  BY <1>3, <1>4, HoldsNothing
<1> QED BY <1>1, <1>2, <1>3, <1>4, <1>5 DEF FlowInv

LEMMA CallbackKeepsFlow ==
    ASSUME IInv, CallbackSucceeds PROVE FlowInv'
<1>1. todo' = <<"handoff_observer", "pump", "flow", "stall">>
  BY DEF CallbackSucceeds
<1>2. ToCome("pump")' /\ ToCome("flow")'
  BY <1>1 DEF ToCome
<1> QED BY <1>2 DEF FlowInv

\* Between events the socket only gets rid of bytes.
LEMMA SocketKeepsFlow ==
    ASSUME IInv, FlowInv, SocketFlushes \/ CallbackIgnored PROVE FlowInv'
<1>1. /\ UNCHANGED <<queue, queuedBytes, inFlight, paused, failed, todo>>
      /\ wire # <<>>
  BY DEF SocketFlushes, CallbackIgnored, writerVars
<1>2. ~failed => buffered' <= buffered /\ buffered' \in Nat
  <2>1. wire \in Seq(Frames) /\ Head(wire) \in Frames /\ Bytes(Head(wire)) \in Nat
    BY <1>1, HeadTailProperties, BytesPositive DEF IInv, TypeOK
  <2>2. buffered \in Nat /\ (~flushed => buffered = Bytes(Head(wire)))
    BY <1>1 DEF IInv, TypeOK, WireInv
  <2>3. buffered' = buffered \/ (~flushed /\ buffered' = buffered - Bytes(Head(wire)))
    BY DEF SocketFlushes, CallbackIgnored, Releases
  <2> QED BY <2>1, <2>2, <2>3
<1>3. ~failed => Resident' <= Resident
  BY <1>1, <1>2 DEF Resident, IInv, TypeOK
<1>4. High \in Nat /\ (~failed => Resident' \in Nat) /\ Resident \in Nat
  BY <1>1, <1>2, WriterAssumption DEF IInv, TypeOK, Resident
<1> QED BY <1>1, <1>3, <1>4 DEF FlowInv, ToCome

LEMMA FlowStep == ASSUME IInv, FlowInv, [Next]_vars PROVE FlowInv'
<1>1. CASE EnqueueRejected
  BY <1>1 DEF EnqueueRejected, FlowInv
<1>2. CASE EnqueueOverruns
  BY <1>2 DEF EnqueueOverruns, Fail, FlowInv
<1>3. CASE PumpThrows \/ FlowObserverThrows \/ HandoffObserverThrows \/ CallbackFails
           \/ TimerFindsStall \/ SocketClosed
  BY <1>3 DEF PumpThrows, FlowObserverThrows, HandoffObserverThrows, CallbackFails,
              TimerFindsStall, SocketClosed, Fail, FlowInv
<1>4. CASE FlowObserverReturns \/ HandoffObserverReturns \/ StallCheck
  BY <1>4, PopKeepsFlow
     DEF FlowObserverReturns, HandoffObserverReturns, StallCheck, At, writerVars, socketVars
<1>5. CASE TimerFindsYounger \/ Tick \/ UNCHANGED vars
  BY <1>5 DEF TimerFindsYounger, Tick, vars, writerVars, socketVars, FlowInv, Resident, ToCome
<1> QED BY <1>1, <1>2, <1>3, <1>4, <1>5, EnqueueKeepsFlow, PumpKeepsFlow, FlowKeepsFlow,
           CallbackKeepsFlow, SocketKeepsFlow
        DEF Next, Enqueue, Code, Pump, Flow, ObserverEnds, Callback, Timer

\* A producer that was told to wait is told to go on: between events a pause has
\* a send callback to end it, and what is held without a pause is below the mark
\* (ordered-writer.ts, updateFlow after every pump).
THEOREM FlowSignalIsTrue == Spec => []FlowTracksResidency
<1>1. IInv /\ FlowInv => FlowTracksResidency
  <2> SUFFICES ASSUME IInv, FlowInv, Idle, ~failed
               PROVE  (paused => inFlight # None) /\ (~paused => Resident < High)
    BY DEF FlowTracksResidency
  <2>1. \A step : ~ToCome(step)
    BY DEF Idle, ToCome
  <2>2. High \in Nat /\ Resident \in Nat
    BY WriterAssumption DEF IInv, TypeOK, Resident
  <2> QED BY <2>1, <2>2 DEF FlowInv
<1>2. Init => IInv /\ FlowInv
  BY InitInvariant, FlowInit
<1>3. IInv /\ FlowInv /\ [Next]_vars => (IInv /\ FlowInv)'
  BY StepInvariant, FlowStep
<1> QED BY <1>1, <1>2, <1>3, PTL DEF Spec


-----------------------------------------------------------------------------
(* SpeechInput: the two directions of the socket to the GPU                *)

Turned == {"partial", "final", "turn_end"}
After(m) == IF m.t = "turn_end" THEN m.k + 1 ELSE m.k

\* Everything on its way to the GPU is of epoch e, no flush is of a turn beyond k,
\* and a reset, if one was sent, is the last.
UpFits(u, e, k, sent) ==
    \A i \in 1..Len(u) :
        /\ u[i].t # "bare" => u[i].e = e
        /\ u[i].t = "flush" => u[i].k <= k
        /\ u[i].t = "reset" => i = Len(u) /\ sent

\* On the way back the turns are of epoch e, ready comes first and an
\* acknowledgement last.
DownFits(d, e, early) ==
    \A i \in 1..Len(d) :
        /\ d[i].t = "ready" <=> i = 1 /\ early
        /\ d[i].t = "ack" => i = Len(d) /\ d[i].e = e + 1
        /\ d[i].t \in Turned => d[i].e = e
NoAck(d) == \A i \in 1..Len(d) : d[i].t # "ack"

\* Turns arrive in order, without a gap, the first of them is the given one,
Chained(d, first) ==
    /\ \A i \in 1..Len(d) :
          d[i].t \in Turned /\ (i = 1 \/ (i = 2 /\ d[1].t = "ready")) => d[i].k = first
    /\ \A i \in 1..(Len(d) - 1) :
          d[i].t \in Turned /\ d[i+1].t \in Turned => d[i+1].k = After(d[i])
\* and the last one leads to where the GPU is.
Reaches(d, first, last) ==
    /\ d = <<>> \/ d[Len(d)].t = "ready" => last = first
    /\ d # <<>> /\ d[Len(d)].t # "ready" => last = After(d[Len(d)])
    /\ \A i \in 1..Len(d) :
          /\ d[i].t \in Turned => d[i].k <= last
          /\ d[i].t = "turn_end" => d[i].k < last
    /\ first <= last

LEMMA Elements ==
    ASSUME NEW S, NEW s \in Seq(S)
    PROVE  /\ Len(s) \in Nat
           /\ \A i \in 1..Len(s) : s[i] \in S
  OBVIOUS

LEMMA UpAppend ==
    ASSUME NEW u \in Seq(ToGpu), NEW m \in ToGpu, NEW e \in Nat, NEW k \in Nat,
           UpFits(u, e, k, FALSE), NEW sent \in BOOLEAN,
           m.t # "bare" => m.e = e, m.t = "flush" => m.k <= k, m.t = "reset" => sent
    PROVE  UpFits(Append(u, m), e, k, sent)
  BY DEF UpFits, ToGpu

LEMMA UpConcat ==
    ASSUME NEW u \in Seq(ToGpu), NEW f \in Seq(ToGpu), NEW e \in Nat, NEW k \in Nat,
           UpFits(u, e, k, FALSE),
           \A i \in 1..Len(f) : f[i].t = "audio" /\ f[i].e = e
    PROVE  UpFits(u \o f, e, k, FALSE)
<1> DEFINE w == u \o f
<1>1. /\ Len(w) = Len(u) + Len(f)
      /\ \A i \in 1..Len(u) : w[i] = u[i]
      /\ \A i \in (Len(u) + 1)..Len(w) : w[i] = f[i - Len(u)]
    OBVIOUS
<1>2. Len(u) \in Nat /\ Len(f) \in Nat
    OBVIOUS
<1> HIDE DEF w
<1>3. ASSUME NEW i \in 1..Len(w)
      PROVE  /\ w[i].t # "bare" => w[i].e = e
             /\ w[i].t = "flush" => w[i].k <= k
             /\ w[i].t # "reset"
    <2>1. CASE i \in 1..Len(u)
        BY <1>1, <2>1 DEF UpFits
    <2>2. CASE i \in (Len(u) + 1)..Len(w)
        <3>1. i - Len(u) \in 1..Len(f)
            BY <1>1, <1>2, <2>2
        <3> QED  BY <1>1, <2>2, <3>1
    <2> QED  BY <1>1, <1>2, <2>1, <2>2
<1> QED  BY <1>3 DEF UpFits, w

LEMMA UpTail ==
    ASSUME NEW u \in Seq(ToGpu), u # <<>>, NEW e \in Nat, NEW k \in Nat, NEW sent \in BOOLEAN,
           UpFits(u, e, k, sent)
    PROVE  /\ UpFits(Tail(u), e, k, sent)
           /\ Head(u).t # "bare" => Head(u).e = e
           /\ Head(u).t = "flush" => Head(u).k <= k
           /\ Head(u).t = "reset" => Tail(u) = <<>> /\ sent
           /\ Head(u).t # "reset" /\ u[Len(u)].t = "reset" =>
                Tail(u) # <<>> /\ Tail(u)[Len(Tail(u))].t = "reset"
           /\ Head(u) \in ToGpu /\ Tail(u) \in Seq(ToGpu)
<1> DEFINE w == Tail(u)
<1>1. /\ Head(u) = u[1] /\ Len(w) = Len(u) - 1 /\ Len(u) \in Nat /\ Len(u) >= 1
      /\ \A i \in 1..Len(w) : w[i] = u[i + 1]
      /\ w \in Seq(ToGpu)
    OBVIOUS
<1>2. u[1] \in ToGpu
    BY <1>1
<1> HIDE DEF w
<1>3. \A i \in 1..Len(w) : i + 1 \in 1..Len(u)
    BY <1>1
<1>4. UpFits(w, e, k, sent)
    BY <1>1, <1>3 DEF UpFits
<1>5. 1 \in 1..Len(u)
    BY <1>1
<1>6. u[1].t = "reset" => Len(w) = 0 /\ sent
    BY <1>1, <1>5 DEF UpFits
<1>7. u[1].t = "reset" => w = <<>>
    BY <1>1, <1>6
<1>8. u[1].t # "reset" /\ u[Len(u)].t = "reset" => Len(w) >= 1 /\ w[Len(w)].t = "reset"
    BY <1>1
<1>9. u[1].t # "reset" /\ u[Len(u)].t = "reset" => w # <<>>
    BY <1>8, <1>1
<1> QED  BY <1>1, <1>2, <1>4, <1>5, <1>6, <1>7, <1>8, <1>9 DEF UpFits, w

LEMMA UpLater ==
    ASSUME NEW u \in Seq(ToGpu), NEW e \in Nat, NEW k \in Nat, NEW n \in Nat, k <= n,
           NEW sent \in BOOLEAN, UpFits(u, e, k, sent)
    PROVE  UpFits(u, e, n, sent)
<1>1. \A i \in 1..Len(u) : u[i] \in ToGpu
    BY Elements
<1>2. \A i \in 1..Len(u) : u[i].k \in Nat
    BY <1>1 DEF ToGpu
<1> QED  BY <1>2 DEF UpFits

\* The GPU adds a message of the turn it is at.
LEMMA DownAppend ==
    ASSUME NEW d \in Seq(FromGpu), NEW m \in FromGpu, m.t \in Turned,
           NEW e \in Nat, NEW early \in BOOLEAN, NEW first \in Nat, NEW last \in Nat,
           early => d # <<>>, m.e = e, m.k = last,
           DownFits(d, e, early), NoAck(d), Chained(d, first), Reaches(d, first, last)
    PROVE  LET w == Append(d, m)
           IN /\ w \in Seq(FromGpu) /\ w # <<>>
              /\ DownFits(w, e, early) /\ NoAck(w) /\ Chained(w, first)
              /\ Reaches(w, first, After(m))
<1> DEFINE w == Append(d, m)
<1>1. /\ w \in Seq(FromGpu) /\ Len(w) = Len(d) + 1 /\ Len(d) \in Nat
      /\ \A i \in 1..Len(d) : w[i] = d[i]
      /\ w[Len(w)] = m
    OBVIOUS
<1>2. m.t # "ready" /\ m.t # "ack" /\ After(m) \in Nat
      /\ last <= After(m) /\ (m.t = "turn_end" => last < After(m))
      /\ (m.t # "turn_end" => After(m) = last)
    <2>1. m.t # "ready" /\ m.t # "ack"
        BY DEF Turned
    <2>2. CASE m.t = "turn_end"
        <3>1. After(m) = last + 1
            BY <2>2 DEF After
        <3> QED  BY <2>1, <2>2, <3>1
    <2>3. CASE m.t # "turn_end"
        <3>1. After(m) = last
            BY <2>3 DEF After
        <3> QED  BY <2>1, <2>3, <3>1
    <2> QED  BY <2>2, <2>3
<1>3. \A i \in 1..Len(d) : d[i] \in FromGpu /\ d[i].k \in Nat
    <2>1. \A i \in 1..Len(d) : d[i] \in FromGpu
        BY Elements
    <2> QED  BY <2>1 DEF FromGpu
<1>4. d = <<>> <=> Len(d) = 0
    OBVIOUS
<1> HIDE DEF w
<1>5. \A i \in 1..Len(w) : i \in 1..Len(d) \/ i = Len(w)
    BY <1>1
<1>6. NoAck(w)
    BY <1>1, <1>2, <1>5 DEF NoAck
<1>7. DownFits(w, e, early)
    <2>1. ASSUME NEW i \in 1..Len(w)
          PROVE  /\ w[i].t = "ready" <=> i = 1 /\ early
                 /\ w[i].t \in Turned => w[i].e = e
        <3>1. CASE i \in 1..Len(d)
            BY <1>1, <3>1 DEF DownFits
        <3>2. CASE i = Len(w)
            <4>1. early => i # 1
                BY <1>1, <1>4, <3>2
            <4> QED  BY <1>1, <1>2, <3>2, <4>1
        <3> QED  BY <1>5, <3>1, <3>2
    <2> QED  BY <1>6, <2>1 DEF DownFits, NoAck
<1>8. Chained(w, first)
    <2>1. ASSUME NEW i \in 1..Len(w), w[i].t \in Turned,
                 i = 1 \/ (i = 2 /\ w[1].t = "ready")
          PROVE  w[i].k = first
        <3>1. CASE i \in 1..Len(d)
            BY <1>1, <2>1, <3>1 DEF Chained
        <3>2. CASE i = Len(w)
            <4>1. CASE Len(d) = 0
                BY <1>1, <1>4, <3>2, <4>1 DEF Reaches
            <4>2. CASE Len(d) # 0
                <5>1. i # 1
                    BY <1>1, <3>2, <4>2
                <5>2. Len(d) = 1 /\ w[1].t = "ready"
                    <6>1. i = 2 /\ w[1].t = "ready"
                        BY <2>1, <5>1
                    <6>2. Len(w) = Len(d) + 1 /\ Len(d) \in Nat
                        BY <1>1
                    <6>3. Len(w) = 2
                        BY <3>2, <6>1
                    <6>4. \A j \in Nat : 2 = j + 1 => j = 1
                        OBVIOUS
                    <6>5. Len(d) = 1
                        BY <6>2, <6>3, <6>4, Zenon
                    <6> QED  BY <6>1, <6>5
                <5>3. d[1].t = "ready"
                    <6>1. 1 \in 1..Len(d)
                        BY <5>2
                    <6> QED  BY <1>1, <5>2, <6>1
                <5>4. last = first
                    BY <1>4, <5>2, <5>3 DEF Reaches
                <5> QED  BY <1>1, <3>2, <5>4
            <4> QED  BY <4>1, <4>2
        <3> QED  BY <1>5, <3>1, <3>2
    <2>2. ASSUME NEW i \in 1..(Len(w) - 1), w[i].t \in Turned, w[i+1].t \in Turned
          PROVE  w[i+1].k = After(w[i])
        <3>1. i \in 1..Len(d) /\ w[i] = d[i]
            BY <1>1
        <3>2. CASE i + 1 \in 1..Len(d)
            BY <1>1, <2>2, <3>1, <3>2 DEF Chained
        <3>3. CASE i + 1 = Len(w)
            <4>1. i = Len(d) /\ d[Len(d)].t # "ready" /\ d # <<>>
                BY <1>1, <1>4, <2>2, <3>1, <3>3 DEF Turned
            <4> QED  BY <1>1, <3>1, <3>3, <4>1 DEF Reaches
        <3> QED  BY <1>1, <3>2, <3>3
    <2> QED  BY <2>1, <2>2 DEF Chained
<1>9. Reaches(w, first, After(m))
    <2>1. w # <<>> /\ w[Len(w)].t # "ready"
        BY <1>1, <1>2
    <2>2. ASSUME NEW i \in 1..Len(w)
          PROVE  /\ w[i].t \in Turned => w[i].k <= After(m)
                 /\ w[i].t = "turn_end" => w[i].k < After(m)
        <3>1. CASE i \in 1..Len(d)
            BY <1>1, <1>2, <1>3, <3>1 DEF Reaches
        <3>2. CASE i = Len(w)
            BY <1>1, <1>2, <3>2
        <3> QED  BY <1>5, <3>1, <3>2
    <2>3. first <= After(m)
        BY <1>2 DEF Reaches
    <2> QED  BY <1>1, <2>1, <2>2, <2>3 DEF Reaches
<1> QED  BY <1>1, <1>6, <1>7, <1>8, <1>9 DEF w

\* The client takes the first message: ready, or one of the turn it is at.
LEMMA DownTail ==
    ASSUME NEW d \in Seq(FromGpu), d # <<>>,
           NEW e \in Nat, NEW early \in BOOLEAN, NEW first \in Nat,
           DownFits(d, e, early), Chained(d, first)
    PROVE  LET w == Tail(d)
               n == IF Head(d).t \in Turned THEN After(Head(d)) ELSE first
           IN /\ w \in Seq(FromGpu) /\ Head(d) \in FromGpu
              /\ DownFits(w, e, FALSE) /\ (NoAck(d) => NoAck(w))
              /\ Head(d).t = "ready" <=> early
              /\ Head(d).t = "ack" => w = <<>> /\ Head(d).e = e + 1
              /\ Head(d).t \in Turned => Head(d).k = first /\ Head(d).e = e
              /\ Head(d).t # "ack" => Chained(w, n)
              /\ Head(d).t # "ack" =>
                    \A last \in Nat : Reaches(d, first, last) => Reaches(w, n, last)
              /\ w # <<>> => w[Len(w)] = d[Len(d)]
<1> DEFINE w == Tail(d)
           n == IF Head(d).t \in Turned THEN After(Head(d)) ELSE first
<1>1. /\ w \in Seq(FromGpu) /\ Len(w) = Len(d) - 1 /\ Len(d) \in Nat /\ Len(d) >= 1
      /\ \A i \in 1..Len(w) : w[i] = d[i + 1]
      /\ Head(d) = d[1]
    OBVIOUS
<1>2. d[1] \in FromGpu /\ d[1].k \in Nat
    <2>1. d[1] \in FromGpu
        BY <1>1
    <2> QED  BY <2>1 DEF FromGpu
<1>3. w = <<>> <=> Len(w) = 0
    BY <1>1
<1>4. /\ d[1].t \in Turned => n = After(d[1])
      /\ d[1].t \notin Turned => n = first
    BY <1>1
<1> HIDE DEF w, n
<1>5. \A i \in 1..Len(w) : i + 1 \in 1..Len(d) /\ i + 1 # 1
    BY <1>1
<1>6. 1 \in 1..Len(d)
    BY <1>1
<1>7. DownFits(w, e, FALSE) /\ (NoAck(d) => NoAck(w))
    <2>1. NoAck(d) => NoAck(w)
        BY <1>1, <1>5 DEF NoAck
    <2>2. ASSUME NEW i \in 1..Len(w)
          PROVE  /\ w[i].t # "ready"
                 /\ w[i].t = "ack" => i = Len(w) /\ w[i].e = e + 1
                 /\ w[i].t \in Turned => w[i].e = e
        <3>1. w[i] = d[i + 1] /\ i + 1 \in 1..Len(d) /\ i + 1 # 1
            BY <1>1, <1>5
        <3>2. i + 1 = Len(d) => i = Len(w)
            BY <1>1
        <3>3. PICK j \in 1..Len(d) : j = i + 1
            BY <3>1
        <3>4. /\ d[j].t # "ready"
              /\ d[j].t = "ack" => j = Len(d) /\ d[j].e = e + 1
              /\ d[j].t \in Turned => d[j].e = e
            BY <3>1, <3>3 DEF DownFits
        <3> QED  BY <3>1, <3>2, <3>3, <3>4
    <2> QED  BY <2>1, <2>2 DEF DownFits
<1>8. /\ d[1].t = "ready" <=> early
      /\ d[1].t = "ack" => Len(w) = 0 /\ d[1].e = e + 1
      /\ d[1].t \in Turned => d[1].k = first /\ d[1].e = e
    BY <1>1, <1>6 DEF DownFits, Chained
<1>9. w # <<>> => w[Len(w)] = d[Len(d)]
    BY <1>1, <1>3
<1>10. d[1].t # "ack" => d[1].t \in Turned \/ d[1].t = "ready"
    BY <1>2 DEF FromGpu, Turned
<1>11. ASSUME d[1].t # "ack"
       PROVE  Chained(w, n)
    <2>1. ASSUME NEW i \in 1..Len(w), w[i].t \in Turned,
                 i = 1 \/ (i = 2 /\ w[1].t = "ready")
          PROVE  w[i].k = n
        <3>1. i = 1
            BY <1>1, <1>5, <1>6, <1>7, <2>1 DEF DownFits
        <3>2. w[1] = d[2] /\ 2 \in 1..Len(d) /\ 1 \in 1..(Len(d) - 1)
            BY <1>1, <3>1
        <3>3. CASE d[1].t \in Turned
            <4>1. d[1 + 1].k = After(d[1])
                BY <2>1, <3>1, <3>2, <3>3 DEF Chained
            <4> QED  BY <1>4, <3>1, <3>2, <3>3, <4>1
        <3>4. CASE d[1].t = "ready"
            BY <1>4, <2>1, <3>1, <3>2, <3>4 DEF Chained, Turned
        <3> QED  BY <1>10, <1>11, <3>3, <3>4
    <2>2. ASSUME NEW i \in 1..(Len(w) - 1), w[i].t \in Turned, w[i+1].t \in Turned
          PROVE  w[i+1].k = After(w[i])
        <3>1. i \in 1..Len(w) /\ i + 1 \in 1..Len(w) /\ i + 1 \in 1..(Len(d) - 1)
            BY <1>1
        <3>2. PICK j \in 1..Len(w) : j = i + 1
            BY <3>1
        <3>3. w[i] = d[j] /\ w[j] = d[j + 1] /\ j \in 1..(Len(d) - 1)
            BY <1>1, <3>1, <3>2
        <3>4. d[j + 1].k = After(d[j])
            BY <2>2, <3>2, <3>3 DEF Chained
        <3> QED  BY <3>2, <3>3, <3>4
    <2> QED  BY <2>1, <2>2 DEF Chained
<1>12. ASSUME d[1].t # "ack", NEW last \in Nat, Reaches(d, first, last)
       PROVE  Reaches(w, n, last)
    <2>1. \A i \in 1..Len(w) :
            /\ w[i].t \in Turned => w[i].k <= last
            /\ w[i].t = "turn_end" => w[i].k < last
        BY <1>1, <1>5, <1>12 DEF Reaches
    <2>2. n <= last
        <3>1. CASE d[1].t \in Turned
            BY <1>2, <1>4, <1>6, <1>12, <3>1 DEF Reaches, After
        <3>2. CASE d[1].t \notin Turned
            BY <1>4, <1>12, <3>2 DEF Reaches
        <3> QED  BY <3>1, <3>2
    <2>3. CASE w = <<>>
        <3>1. Len(d) = 1
            BY <1>1, <1>3, <2>3
        <3>2. d[1].t \in Turned => last = After(d[1])
            BY <1>12, <3>1 DEF Reaches, Turned
        <3>3. d[1].t = "ready" => last = first
            BY <1>12, <3>1 DEF Reaches
        <3>4. last = n
            BY <1>4, <1>10, <1>12, <3>2, <3>3 DEF Turned
        <3> QED  BY <2>1, <2>2, <2>3, <3>4 DEF Reaches
    <2>4. CASE w # <<>>
        <3>1. w[Len(w)] = d[Len(d)] /\ w[Len(w)].t # "ready"
            <4>1. Len(w) \in 1..Len(w)
                BY <1>1, <1>3, <2>4
            <4> QED  BY <1>7, <1>9, <2>4, <4>1 DEF DownFits
        <3> QED  BY <1>12, <2>1, <2>2, <2>4, <3>1 DEF Reaches
    <2> QED  BY <2>3, <2>4
<1> QED  BY <1>1, <1>2, <1>3, <1>7, <1>8, <1>9, <1>11, <1>12 DEF w, n

\* The acknowledgement of a reset closes the epoch.
LEMMA DownAck ==
    ASSUME NEW d \in Seq(FromGpu), NEW m \in FromGpu, m.t = "ack",
           NEW e \in Nat, m.e = e + 1, NEW first \in Nat,
           DownFits(d, e, FALSE), NoAck(d), Chained(d, first)
    PROVE  LET w == Append(d, m)
           IN /\ w \in Seq(FromGpu) /\ w # <<>> /\ w[Len(w)].t = "ack"
              /\ DownFits(w, e, FALSE) /\ Chained(w, first)
<1> DEFINE w == Append(d, m)
<1>1. /\ w \in Seq(FromGpu) /\ Len(w) = Len(d) + 1 /\ Len(d) \in Nat
      /\ \A i \in 1..Len(d) : w[i] = d[i]
      /\ w[Len(w)] = m
    OBVIOUS
<1>2. m.t # "ready" /\ m.t \notin Turned
    BY DEF Turned
<1> HIDE DEF w
<1>3. \A i \in 1..Len(w) : i \in 1..Len(d) \/ i = Len(w)
    BY <1>1
<1>4. DownFits(w, e, FALSE)
    BY <1>1, <1>2, <1>3 DEF DownFits, NoAck
<1>5. Chained(w, first)
    <2>1. ASSUME NEW i \in 1..Len(w), w[i].t \in Turned,
                 i = 1 \/ (i = 2 /\ w[1].t = "ready")
          PROVE  w[i].k = first
        <3>1. i \in 1..Len(d)
            BY <1>1, <1>2, <1>3, <2>1
        <3> QED  BY <1>1, <2>1, <3>1 DEF Chained
    <2>2. ASSUME NEW i \in 1..(Len(w) - 1), w[i].t \in Turned, w[i+1].t \in Turned
          PROVE  w[i+1].k = After(w[i])
        <3>1. i \in 1..(Len(d) - 1) /\ w[i] = d[i] /\ w[i+1] = d[i+1]
            BY <1>1, <1>2, <2>2
        <3> QED  BY <2>2, <3>1 DEF Chained
    <2> QED  BY <2>1, <2>2 DEF Chained
<1>6. w # <<>> /\ w[Len(w)].t = "ack"
    BY <1>1
<1> QED  BY <1>1, <1>4, <1>5, <1>6 DEF w


-----------------------------------------------------------------------------
(* The inductive invariant, of a connection that is open.                  *)

Queued(q, e) == \A i \in 1..Len(q) : q[i].t = "audio" /\ q[i].e = e

\* The books of the items s against the turn ct the client of the GPU is at, and the
\* turns the media session has heard of.
Accounted(s, ct, seen, final) ==
    /\ \A k \in s.closed : k < ct
    /\ s.high <= ct
    /\ s.cur # NoItem => s.cur.turn \in {NoTurn, ct} /\ s.cur.prev = s.last
    /\ s.cand # NoItem => s.cand.turn \in {NoTurn, ct} /\ s.cand.prev = s.last
    /\ s.high = ct => s.reset # "no" \/ s.cur.turn = ct
    /\ s.high = ct /\ s.cand # NoItem => s.cand.turn = ct
    /\ s.reset = "no" /\ <<s.epoch, ct>> \in seen => s.cur.turn = ct
    /\ s.reset = "no" /\ <<s.epoch, ct>> \in final => s.cur.heard
    /\ s.reset # "no" /\ s.cand # NoItem /\ <<s.epoch, ct>> \in final =>
         s.cand.heard \/ s.replay
    /\ \A key \in seen \cup final : key = <<s.epoch, ct>>
    /\ s.reset # "no" => s.cur = NoItem
    /\ s.reset = "no" => s.cand = NoItem

\* A clear is on its way while the items wait for it, and not before the session on
\* the GPU is ready; nothing is queued once it is, or while a clear is on its way.
Linked ==
    /\ items.reset = "waits" <=> client.reset # "no"
    /\ client.reset = "sent" => client.phase = "ready"
    /\ client.reset = "held" => client.phase # "ready"
    /\ client.phase # "ready" => items.epoch = 0 /\ client.turn = 0
    /\ ~gpu.on => gpu = Fresh /\ down = <<>> /\ client.phase # "ready"
    /\ client.phase = "backoff" => ~gpu.on
    /\ items.reset # "acked" => client.epoch = items.epoch
    /\ items.reset = "acked" => client.phase = "ready"
    /\ Queued(client.queue, items.epoch)
    /\ client.phase = "ready" \/ items.reset # "no" => client.queue = <<>>
    /\ items.reset # "no" => ~media.pending

Path(u, d, e, ct, gt, sent, early) ==
    /\ UpFits(u, e, gt, sent)
    /\ sent => u # <<>> /\ u[Len(u)].t = "reset"
    /\ DownFits(d, e, early) /\ NoAck(d) /\ Chained(d, ct) /\ Reaches(d, ct, gt)
    /\ early => d # <<>>

\* The GPU is in the epoch of the items; it has ended it for a clear, the answer to
\* which is on its way; or that has arrived and the clear is not yet done.
Flowing ==
    /\ items.reset # "acked" /\ gpu.epoch = items.epoch
    /\ Path(up, down, items.epoch, client.turn, gpu.turn, client.reset = "sent",
            gpu.on /\ client.phase # "ready")
Answered ==
    /\ client.reset = "sent" /\ gpu.epoch = items.epoch + 1 /\ gpu.turn = 0
    /\ up = <<>> /\ down # <<>> /\ down[Len(down)].t = "ack"
    /\ DownFits(down, items.epoch, FALSE) /\ Chained(down, client.turn)
Acked ==
    /\ items.reset = "acked" /\ gpu.epoch = items.epoch + 1 /\ gpu.turn = 0
    /\ client.turn = 0 /\ client.epoch = items.epoch + 1
    /\ up = <<>> /\ down = <<>>
    /\ \A key \in media.seen \cup media.final : key[1] = items.epoch

InOrderNow ==
    /\ Linked
    /\ Flowing \/ Answered \/ Acked
    /\ items.reset # "acked" => Accounted(items, client.turn, media.seen, media.final)
    /\ items.reset # "no" => items.cur = NoItem
    /\ items.last = told.id

InputInv ==
    /\ InputTypeOK /\ NothingIsStray
    /\ over = "no" => InOrderNow

-----------------------------------------------------------------------------
(* What the model's operators do                                           *)

\* A set of naturals has a least element.
LEMMA Smallest ==
    ASSUME NEW T \in SUBSET Nat, T # {}
    PROVE  \E x \in T : \A y \in T : ~(y < x)
<1>1. \E x \in T : \A y \in T : ~(<<y, x>> \in OpToRel(<, Nat))
    BY WFMin, NatLessThanWellFounded
<1> QED  BY <1>1 DEF OpToRel

\* Of a queue whose audio is all of one epoch, a clear of that epoch leaves nothing.
LEMMA RetiresAll ==
    ASSUME NEW S, NEW q \in Seq(S), NEW e, \A i \in 1..Len(q) : q[i].e = e
    PROVE  Retired(q, e) = <<>>
<1> DEFINE Step(G) == [n \in 0 .. Len(q) |->
                         IF n = 0 THEN <<>>
                         ELSE IF q[n].e = e THEN G[n - 1] ELSE Append(G[n - 1], q[n])]
           K == CHOOSE G : G = Step(G)
           E == [n \in 0 .. Len(q) |-> <<>>]
<1>1. Len(q) \in Nat
    OBVIOUS
<1>2. E = Step(E)
    BY <1>1
<1>3. K = Step(K)
    BY <1>2
<1>4. Retired(q, e) = K[Len(q)]
    BY DEF Retired
<1> HIDE DEF K
<1>5. \A n \in 0..Len(q) : K[n] = IF n = 0 THEN <<>> ELSE K[n-1]
    BY <1>1, <1>3
<1> DEFINE T == {n \in 0..Len(q) : K[n] # <<>>}
<1>6. T = {}
    <2> SUFFICES ASSUME T # {} PROVE FALSE
        OBVIOUS
    <2>1. T \in SUBSET Nat
        BY <1>1
    <2>2. PICK x \in T : \A y \in T : ~(y < x)
        <3> HIDE DEF T
        <3> QED  BY <2>1, Smallest
    <2>3. x # 0 /\ x - 1 \in 0..Len(q)
        BY <1>1, <1>5
    <2>4. K[x-1] # <<>>
        BY <1>5, <2>3
    <2> QED  BY <1>1, <2>2, <2>3, <2>4
<1> QED  BY <1>1, <1>4, <1>6

LEMMA NoItemFields ==
    /\ NoItem \in Item /\ NoItem.id = 0 /\ NoItem.turn = NoTurn /\ NoItem.req = "no"
    /\ NoItem.heard = FALSE /\ NoItem.prev = 0
    /\ NoTurn \notin Nat /\ NoTurn \in Int /\ \A k \in Nat : NoTurn < k
  BY DEF NoItem, Item, NoTurn

LEMMA Highest ==
    ASSUME NEW a \in Nat \cup {NoTurn}, NEW b \in Nat \cup {NoTurn}
    PROVE  /\ Higher(a, b) \in Nat \cup {NoTurn} /\ a <= Higher(a, b) /\ b <= Higher(a, b)
           /\ Higher(a, b) \in {a, b}
           /\ b = NoTurn => Higher(a, b) = a
  BY DEF Higher, NoTurn

LEMMA MessageTo ==
    ASSUME NEW t, NEW e \in Nat, NEW k \in Nat
    PROVE  /\ Message(t, e, k).t = t /\ Message(t, e, k).e = e /\ Message(t, e, k).k = k
           /\ t \in {"audio", "flush", "bare", "reset"} => Message(t, e, k) \in ToGpu
           /\ t \in {"ready", "ack", "partial", "final", "turn_end"} => Message(t, e, k) \in FromGpu
  BY ZenonT(30) DEF Message, ToGpu, FromGpu

LEMMA OpenedFields ==
    ASSUME NEW s \in InputBooks, NEW turn \in Nat \cup {NoTurn}
    PROVE  LET o == Opened(s, turn)
           IN /\ o \in InputBooks
              /\ o.epoch = s.epoch /\ o.cand = s.cand /\ o.replay = s.replay /\ o.held = s.held
              /\ o.reset = s.reset /\ o.closed = s.closed /\ o.last = s.last
              /\ o.high = Higher(s.high, turn)
              /\ o.cur # NoItem /\ o.cur.turn = turn /\ o.cur.req = "no"
              /\ o.cur.heard = FALSE /\ o.cur.prev = s.last
<1> DEFINE c == [NoItem EXCEPT !.id = s.made + 1, !.turn = turn, !.prev = s.last]
           h == Higher(s.high, turn)
           o == [s EXCEPT !.made = @ + 1, !.high = h, !.cur = c]
<1>1. /\ s.made \in Nat /\ s.made + 1 \in Nat /\ s.last \in Nat /\ s.made + 1 # 0
      /\ s.high \in Nat \cup {NoTurn}
    BY DEF InputBooks
<1>2. h \in Nat \cup {NoTurn}
    BY <1>1, Highest
<1>3. /\ c \in Item /\ c.id = s.made + 1 /\ c.turn = turn /\ c.req = "no" /\ c.heard = FALSE
      /\ c.prev = s.last
    BY <1>1, ZenonT(30) DEF NoItem, Item
<1>4. c # NoItem
    BY <1>1, <1>3, NoItemFields
<1> HIDE DEF c, h
<1>5. /\ o \in InputBooks
      /\ o.epoch = s.epoch /\ o.cand = s.cand /\ o.replay = s.replay /\ o.held = s.held
      /\ o.reset = s.reset /\ o.closed = s.closed /\ o.last = s.last
      /\ o.high = h /\ o.cur = c
    BY <1>1, <1>2, <1>3, ZenonT(30) DEF InputBooks
<1> HIDE DEF o
<1>6. Opened(s, turn) = o
    BY ZenonT(30) DEF Opened, o, h, c
<1> QED  BY <1>3, <1>4, <1>5, <1>6, ZenonT(30) DEF h

\* The first append after an item settled opens the next, which knows no turn.
LEMMA FedFits ==
    ASSUME NEW s \in InputBooks, NEW n \in Nat, s.reset = "no", NEW ct \in Nat, NEW seen, NEW final,
           Accounted(s, ct, seen, final)
    PROVE  LET f == Fed(s, n)
           IN /\ f \in InputBooks /\ f.epoch = s.epoch /\ f.reset = "no" /\ f.last = s.last
              /\ Accounted(f, ct, seen, final)
<1>1. CASE n > 0 /\ s.cur = NoItem
    <2> DEFINE o == Opened(s, NoTurn)
    <2>1. Fed(s, n) = o
        BY <1>1 DEF Fed
    <2>2. s.high \in Nat \cup {NoTurn} /\ NoTurn \in Nat \cup {NoTurn}
        BY DEF InputBooks
    <2>3. Higher(s.high, NoTurn) = s.high
        BY <2>2, Highest
    <2>4. /\ o \in InputBooks
          /\ o.epoch = s.epoch /\ o.cand = s.cand /\ o.replay = s.replay /\ o.reset = s.reset
          /\ o.closed = s.closed /\ o.last = s.last
          /\ o.high = s.high
          /\ o.cur # NoItem /\ o.cur.turn = NoTurn /\ o.cur.prev = s.last /\ o.cur.heard = FALSE
        BY <2>2, <2>3, OpenedFields
    <2> HIDE DEF o
    <2>5. Accounted(o, ct, seen, final)
        BY <1>1, <2>4, NoItemFields DEF Accounted
    <2> QED  BY <2>1, <2>4, <2>5
<1>2. CASE ~(n > 0 /\ s.cur = NoItem)
    <2>1. Fed(s, n) = s
        BY <1>2 DEF Fed
    <2> QED  BY <2>1
<1> QED  BY <1>1, <1>2

\* Audio leaves for the GPU, or is queued before the GPU is ready.
LEMMA PushFits ==
    ASSUME NEW n \in Nat, NEW e \in Nat, NEW k \in Nat, NEW c \in GpuClient, c.reset = "no",
           up \in Seq(ToGpu), UpFits(up, e, k, FALSE), Queued(c.queue, e), Pushes(n, e, c)
    PROVE  /\ client' \in GpuClient /\ client'.phase = c.phase /\ client'.reset = "no"
           /\ client'.epoch = c.epoch /\ client'.turn = c.turn
           /\ Queued(client'.queue, e)
           /\ c.phase = "ready" => client'.queue = c.queue
           /\ up' \in Seq(ToGpu) /\ UpFits(up', e, k, FALSE)
<1> DEFINE f == [i \in 1 .. n |-> Message("audio", e, 0)]
<1>1. Message("audio", e, 0) \in ToGpu
    BY MessageTo
<1>2. f \in Seq(ToGpu) /\ Len(f) = n
    BY <1>1
<1>3. \A i \in 1..Len(f) : f[i].t = "audio" /\ f[i].e = e
    BY <1>2, MessageTo
<1> HIDE DEF f
<1>4. CASE c.phase = "ready"
    <2>1. up' = up \o f /\ client' = c
        BY <1>4 DEF Pushes, f
    <2>2. up \o f \in Seq(ToGpu)
        BY <1>2
    <2>3. UpFits(up \o f, e, k, FALSE)
        BY <1>2, <1>3, UpConcat
    <2> QED  BY <2>1, <2>2, <2>3
<1>5. CASE c.phase # "ready"
    <2> DEFINE q == c.queue \o f
    <2>1. up' = up /\ client' = [c EXCEPT !.queue = q]
        BY <1>5 DEF Pushes, f
    <2>2. c.queue \in Seq(ToGpu)
        BY DEF GpuClient
    <2>3. q \in Seq(ToGpu)
        BY <1>2, <2>2
    <2>4. Queued(q, e)
        <3>1. /\ Len(q) = Len(c.queue) + Len(f) /\ Len(c.queue) \in Nat /\ Len(f) \in Nat
              /\ \A i \in 1..Len(c.queue) : q[i] = c.queue[i]
              /\ \A i \in (Len(c.queue) + 1)..Len(q) : q[i] = f[i - Len(c.queue)]
            BY <1>2, <2>2, SMTT(30)
        <3> HIDE DEF q
        <3>2. ASSUME NEW i \in 1..Len(q)
              PROVE  q[i].t = "audio" /\ q[i].e = e
            <4>1. CASE i \in 1..Len(c.queue)
                BY <3>1, <4>1 DEF Queued
            <4>2. CASE i \in (Len(c.queue) + 1)..Len(q)
                <5>1. i - Len(c.queue) \in 1..Len(f)
                    BY <3>1, <4>2
                <5> QED  BY <1>3, <3>1, <4>2, <5>1
            <4> QED  BY <3>1, <4>1, <4>2
        <3> QED  BY <3>2 DEF Queued
    <2> HIDE DEF q
    <2>5. /\ client' \in GpuClient /\ client'.queue = q /\ client'.phase = c.phase
          /\ client'.reset = c.reset /\ client'.epoch = c.epoch /\ client'.turn = c.turn
        BY <2>1, <2>3, ZenonT(30) DEF GpuClient
    <2> QED  BY <1>5, <2>1, <2>4, <2>5
<1> QED  BY <1>4, <1>5

\* After an item settled while no clear waits, what was held back is fed.
LEMMA BecomeFits ==
    ASSUME NEW s \in InputBooks, s.cur.req = "no", s.reset = "no",
           NEW ct \in Nat, NEW seen, NEW final, Accounted(s, ct, seen, final),
           NEW k \in Nat, NEW c \in GpuClient, c.reset = "no",
           up \in Seq(ToGpu), UpFits(up, s.epoch, k, FALSE), Queued(c.queue, s.epoch),
           Becomes(s, c)
    PROVE  /\ items' \in InputBooks /\ items'.epoch = s.epoch /\ items'.reset = "no"
           /\ items'.last = s.last /\ Accounted(items', ct, seen, final)
           /\ client' \in GpuClient /\ client'.phase = c.phase /\ client'.reset = "no"
           /\ client'.epoch = c.epoch /\ client'.turn = c.turn
           /\ Queued(client'.queue, s.epoch)
           /\ c.phase = "ready" => client'.queue = c.queue
           /\ up' \in Seq(ToGpu) /\ UpFits(up', s.epoch, k, FALSE)
<1>1. s.held \in Nat /\ s.epoch \in Nat
    BY DEF InputBooks
<1> DEFINE f == Fed(s, s.held)
<1>2. items' = [f EXCEPT !.held = 0] /\ Pushes(s.held, s.epoch, c)
    BY DEF Becomes, Free
<1>3. f \in InputBooks /\ f.epoch = s.epoch /\ f.reset = "no" /\ f.last = s.last
      /\ Accounted(f, ct, seen, final)
    BY <1>1, FedFits
<1> HIDE DEF f
<1>4. /\ items' \in InputBooks
      /\ items'.epoch = f.epoch /\ items'.cur = f.cur /\ items'.cand = f.cand
      /\ items'.replay = f.replay /\ items'.reset = f.reset /\ items'.closed = f.closed
      /\ items'.high = f.high /\ items'.last = f.last
    BY <1>2, <1>3, ZenonT(30) DEF InputBooks
<1>5. Accounted(items', ct, seen, final)
    BY <1>3, <1>4 DEF Accounted
<1>6. /\ client' \in GpuClient /\ client'.phase = c.phase /\ client'.reset = "no"
      /\ client'.epoch = c.epoch /\ client'.turn = c.turn
      /\ Queued(client'.queue, s.epoch)
      /\ c.phase = "ready" => client'.queue = c.queue
      /\ up' \in Seq(ToGpu) /\ UpFits(up', s.epoch, k, FALSE)
    BY <1>1, <1>2, PushFits
<1> QED  BY <1>3, <1>4, <1>5, <1>6

\* Speech of the turn the client of the GPU is at finds its item, or makes it; of an
\* item that is being cleared it is remembered.
LEMMA HearsFits ==
    ASSUME items \in InputBooks, items.reset # "acked", NEW ct \in Nat, NEW seen, NEW final,
           Accounted(items, ct, seen, final),
           NEW msg \in FromGpu, msg.e = items.epoch, msg.k = ct, NEW fin \in BOOLEAN,
           Hears(msg, fin, <<msg.e, msg.k>> \notin seen)
    PROVE  LET key == <<items.epoch, ct>>
           IN /\ over' = over
              /\ items' \in InputBooks /\ items'.epoch = items.epoch
              /\ items'.reset = items.reset /\ items'.last = items.last
              /\ Accounted(items', ct, seen \cup {key}, IF fin THEN final \cup {key} ELSE final)
<1> DEFINE key == <<items.epoch, ct>>
           s == IF key \notin seen THEN Ensured(items, items.epoch, ct) ELSE items
           at == Place(s, items.epoch, ct)
           seen2 == seen \cup {key}
           final2 == IF fin THEN final \cup {key} ELSE final
<1>1. /\ over' = IF at \in {"stale", "nobody"} THEN at ELSE over
      /\ items' = CASE at = "cur" ->
                         [s EXCEPT !.high = Higher(@, ct), !.cur.turn = ct, !.cur.heard = @ \/ fin]
                    [] at = "cand" ->
                         [s EXCEPT !.high = Higher(@, ct), !.cand.turn = ct,
                                   !.replay = @ \/ fin]
                    [] OTHER -> s
    BY DEF Hears
<1>2. items.reset \in {"no", "waits"} /\ items.high \in Nat \cup {NoTurn} /\ items.cur \in Item
      /\ items.closed \subseteq Nat
    BY DEF InputBooks
<1>3. ct \in Nat \cup {NoTurn} /\ NoTurn # ct
    BY NoItemFields
<1>4. /\ ct \notin items.closed
      /\ \A x \in seen2 \cup final2 : x = key
      /\ key \in final2 => key \in final \/ fin
    BY <1>2 DEF Accounted
<1> HIDE DEF s, at, seen2, final2
<1>5. CASE items.reset = "no"
    <2>1. /\ s \in InputBooks /\ s.epoch = items.epoch /\ s.reset = "no" /\ s.cand = NoItem
          /\ s.last = items.last /\ s.closed = items.closed
          /\ s.cur # NoItem /\ s.cur.turn \in {NoTurn, ct} /\ s.cur.prev = s.last
          /\ s.high <= ct /\ (s.high = ct => s.cur.turn = ct)
          /\ key \in final => s.cur.heard
        <3>1. CASE items.cur # NoItem
            <4>1. s = items
                BY <3>1 DEF s, Ensured
            <4> QED  BY <1>5, <3>1, <4>1 DEF Accounted
        <3>2. CASE items.cur = NoItem
            <4>1. items.high # ct /\ key \notin seen /\ key \notin final
                BY <1>3, <1>5, <3>2, NoItemFields DEF Accounted
            <4>2. ct > items.high
                BY <1>2, <4>1, NoItemFields DEF Accounted
            <4>3. s = Opened(items, ct)
                BY <1>4, <1>5, <3>2, <4>1, <4>2 DEF s, Ensured
            <4>4. Higher(items.high, ct) <= ct
                <5>1. items.high <= ct
                    BY DEF Accounted
                <5> QED  BY <1>2, <1>3, <5>1, Highest, NoItemFields
            <4>5. items.cand = NoItem
                BY <1>5 DEF Accounted
            <4>6. /\ s \in InputBooks /\ s.epoch = items.epoch /\ s.cand = items.cand
                  /\ s.reset = items.reset /\ s.closed = items.closed /\ s.last = items.last
                  /\ s.high = Higher(items.high, ct)
                  /\ s.cur # NoItem /\ s.cur.turn = ct /\ s.cur.prev = items.last
                BY <1>3, <4>3, OpenedFields
            <4> HIDE DEF key
            <4> QED  BY <1>5, <4>1, <4>4, <4>5, <4>6
        <3> QED  BY <3>1, <3>2
    <2>2. s.high \in Nat \cup {NoTurn} /\ s.cur \in Item
        BY <2>1 DEF InputBooks
    <2>3. at = "cur"
        <3>1. ~Replays(s, items.epoch, ct)
            BY <2>1 DEF Replays
        <3>2. s.cur.turn = ct \/ (s.cur.turn = NoTurn /\ ct > s.high)
            BY <2>1, <2>2, NoItemFields
        <3> QED  BY <1>4, <2>1, <3>1, <3>2 DEF at, Place
    <2> DEFINE h == Higher(s.high, ct)
               v == [s.cur EXCEPT !.turn = ct, !.heard = @ \/ fin]
    <2>4. over' = over /\ items' = [s EXCEPT !.high = h, !.cur = v]
        <3>1. items' = [s EXCEPT !.high = h, !.cur.turn = ct, !.cur.heard = @ \/ fin]
            BY <1>1, <2>3
        <3>2. [s EXCEPT !.high = h, !.cur.turn = ct, !.cur.heard = @ \/ fin]
                = [s EXCEPT !.high = h, !.cur = v]
            BY <2>1, ZenonT(30) DEF InputBooks, Item
        <3> QED  BY <1>1, <2>3, <3>1, <3>2
    <2>5. h = ct
        BY <2>1, <2>2, NoItemFields DEF Higher
    <2>6. v \in Item /\ v.turn = ct /\ v.prev = s.cur.prev /\ v.heard = (s.cur.heard \/ fin)
        BY <1>3, <2>2, ZenonT(30) DEF Item
    <2> HIDE DEF h, v
    <2>7. /\ items' \in InputBooks /\ items'.epoch = s.epoch /\ items'.reset = s.reset
          /\ items'.last = s.last /\ items'.closed = s.closed /\ items'.cand = s.cand
          /\ items'.high = ct /\ items'.cur = v
        BY <1>3, <2>1, <2>4, <2>5, <2>6, ZenonT(30) DEF InputBooks
    <2>8. key \in final2 => v.heard
        <3> HIDE DEF key
        <3> QED  BY <1>4, <2>1, <2>6, Zenon
    <2>9. v # NoItem
        BY <1>3, <2>6, NoItemFields
    <2>10. Accounted(items', ct, seen2, final2)
        BY <1>3, <1>4, <2>1, <2>6, <2>7, <2>8, <2>9 DEF Accounted
    <2> QED  BY <1>5, <2>1, <2>4, <2>7, <2>10 DEF seen2, final2
<1>6. CASE items.reset = "waits"
    <2>1. s = items
        BY <1>6 DEF s, Ensured
    <2>2. CASE items.cand = NoItem
        <3>1. ~Replays(items, items.epoch, ct)
            BY <2>2 DEF Replays
        <3>2. at = "known"
            BY <1>6, <2>1, <3>1 DEF at, Place
        <3>3. over' = over /\ items' = items
            BY <1>1, <2>1, <3>2
        <3>4. Accounted(items, ct, seen2, final2)
            BY <1>4, <1>6, <2>2 DEF Accounted
        <3> QED  BY <3>3, <3>4 DEF seen2, final2
    <2>3. CASE items.cand # NoItem
        <3>1. /\ items.cand.turn \in {NoTurn, ct} /\ items.high <= ct
              /\ items.cand.prev = items.last
              /\ items.high = ct => items.cand.turn = ct
              /\ items.cur = NoItem
              /\ key \in final => items.cand.heard \/ items.replay
            BY <1>6, <2>3 DEF Accounted
        <3>2. Replays(items, items.epoch, ct)
            BY <1>4, <1>6, <2>3, <3>1 DEF Replays
        <3>3. ~(items.cand.turn = NoTurn /\ ct <= items.high)
            BY <1>2, <1>3, <3>1, NoItemFields
        <3>4. at = "cand"
            BY <1>6, <2>1, <3>2, <3>3 DEF at, Place
        <3> DEFINE h == Higher(items.high, ct)
                   v == [items.cand EXCEPT !.turn = ct]
                   r == items.replay \/ fin
        <3>5. over' = over /\ items' = [items EXCEPT !.high = h, !.cand = v, !.replay = r]
            <4>1. items' = [items EXCEPT !.high = h, !.cand.turn = ct, !.replay = @ \/ fin]
                BY <1>1, <2>1, <3>4
            <4>2. [items EXCEPT !.high = h, !.cand.turn = ct, !.replay = @ \/ fin]
                    = [items EXCEPT !.high = h, !.cand = v, !.replay = r]
                BY ZenonT(30) DEF InputBooks, Item
            <4> QED  BY <1>1, <2>1, <3>4, <4>1, <4>2
        <3>6. h = ct
            BY <1>2, <3>1, NoItemFields DEF Higher
        <3>7. items.cand \in Item /\ items.replay \in BOOLEAN
            BY DEF InputBooks
        <3>8. v \in Item /\ v.turn = ct /\ v.prev = items.cand.prev /\ v.heard = items.cand.heard
            BY <1>3, <3>7, ZenonT(30) DEF Item
        <3>9. r \in BOOLEAN
            BY <3>7
        <3> HIDE DEF h, v, r
        <3>10. /\ items' \in InputBooks /\ items'.epoch = items.epoch /\ items'.reset = items.reset
               /\ items'.last = items.last /\ items'.closed = items.closed /\ items'.cand = v
               /\ items'.high = ct /\ items'.cur = items.cur /\ items'.replay = r
            BY <1>3, <3>5, <3>6, <3>8, <3>9, ZenonT(30) DEF InputBooks
        <3>11. key \in final2 => v.heard \/ r
            BY <1>4, <3>1, <3>8, ZenonT(30) DEF r
        <3>12. Accounted(items', ct, seen2, final2)
            BY <1>3, <1>4, <1>6, <3>1, <3>8, <3>10, <3>11, NoItemFields DEF Accounted
        <3> QED  BY <3>5, <3>10, <3>12 DEF seen2, final2
    <2> QED  BY <2>2, <2>3
<1> QED  BY <1>2, <1>5, <1>6

LEMMA SettledFields ==
    ASSUME NEW b \in InputBooks, NEW item \in Item, item.turn \in Nat, NEW committed \in BOOLEAN
    PROVE  LET t == Settled(b, item, committed)
           IN /\ t \in InputBooks
              /\ t.epoch = b.epoch /\ t.cur = b.cur /\ t.cand = b.cand /\ t.replay = b.replay
              /\ t.held = b.held /\ t.reset = b.reset /\ t.high = b.high
              /\ t.closed = b.closed \cup {item.turn}
              /\ t.last = IF committed THEN item.id ELSE b.last
<1>1. (IF committed THEN item.id ELSE b.last) \in Nat /\ b.closed \cup {item.turn} \subseteq Nat
    BY DEF Item, InputBooks
<1> DEFINE l == IF committed THEN item.id ELSE b.last
           z == b.closed \cup {item.turn}
           t == [b EXCEPT !.closed = z, !.last = l]
<1>2. Settled(b, item, committed) = t
    BY ZenonT(30) DEF Settled
<1> HIDE DEF l, z
<1>3. l \in Nat /\ z \in SUBSET Nat
    BY <1>1 DEF l, z
<1>4. /\ t \in InputBooks
      /\ t.epoch = b.epoch /\ t.cur = b.cur /\ t.cand = b.cand /\ t.replay = b.replay
      /\ t.held = b.held /\ t.reset = b.reset /\ t.high = b.high /\ t.closed = z /\ t.last = l
    BY <1>3, ZenonT(30) DEF InputBooks
<1> HIDE DEF t
<1> QED  BY <1>2, <1>4, ZenonT(30) DEF l, z

\* The end of the turn the client of the GPU is at closes the item it is of, which
\* follows the last the client was told, and was heard when it is told.
LEMMA ClosesFits ==
    ASSUME items \in InputBooks, items.reset # "acked", client.turn \in Nat,
           Accounted(items, client.turn, media.seen, media.final),
           over = "no", told \in Item, items.last = told.id,
           NEW c \in GpuClient, Queued(c.queue, items.epoch), gpu.turn \in Nat, up \in Seq(ToGpu),
           items.reset = "no" => c.reset = "no" /\ UpFits(up, items.epoch, gpu.turn, FALSE),
           NEW msg \in FromGpu, msg.e = items.epoch, msg.k = client.turn, NEW committed \in BOOLEAN,
           committed => <<items.epoch, client.turn>> \in media.seen
                        /\ <<items.epoch, client.turn>> \in media.final,
           Closes(msg, committed, c)
    PROVE  /\ over' \in {"no", "unheard"}
           /\ items' \in InputBooks /\ items'.epoch = items.epoch /\ items'.reset = items.reset
           /\ over' = "no" => Accounted(items', client.turn + 1, {}, {})
           /\ told' \in Item /\ items'.last = told'.id
           /\ told' # told => told'.prev = told.id /\ told'.heard
           /\ client' \in GpuClient /\ client'.phase = c.phase /\ client'.reset = c.reset
           /\ client'.epoch = c.epoch /\ client'.turn = c.turn
           /\ Queued(client'.queue, items.epoch)
           /\ c.phase = "ready" \/ items.reset # "no" => client'.queue = c.queue
           /\ up' \in Seq(ToGpu)
           /\ items.reset = "no" => UpFits(up', items.epoch, gpu.turn, FALSE)
           /\ items.reset # "no" => up' = up
<1> DEFINE ct == client.turn
           seen == media.seen
           final == media.final
           k == gpu.turn
<1> DEFINE at == Place(items, items.epoch, ct)
           item == IF at = "cur" THEN [items.cur EXCEPT !.turn = ct]
                   ELSE [items.cand EXCEPT !.turn = ct, !.heard = @ \/ items.replay]
           s == [items EXCEPT !.high = Higher(@, ct)]
           a == [s EXCEPT !.cur = NoItem]
           b == [s EXCEPT !.cand = NoItem, !.replay = FALSE]
<1>1. /\ over' = CASE at = "stale" -> "stale"
                   [] at = "nobody" -> IF committed THEN "nobody" ELSE "unheard"
                   [] OTHER -> over
      /\ told' = IF committed /\ at \in {"cur", "cand"} THEN item ELSE told
      /\ CASE at = "cur" -> Becomes(Settled(a, item, committed), c)
           [] at = "cand" -> Becomes(Settled(b, item, committed), c)
           [] OTHER -> items' = items /\ client' = c /\ up' = up
    BY DEF Closes
<1>2. /\ items.reset \in {"no", "waits"} /\ items.high \in Nat \cup {NoTurn}
      /\ items.cur \in Item /\ items.cand \in Item /\ items.replay \in BOOLEAN
      /\ items.closed \in SUBSET Nat /\ items.last \in Nat
    BY DEF InputBooks
<1>3. /\ ct \in Nat \cup {NoTurn} /\ NoTurn # ct /\ ct + 1 \in Nat /\ ct < ct + 1
      /\ ct \notin items.closed
      /\ \A x \in items.closed \cup {ct} : x < ct + 1
    BY <1>2, NoItemFields DEF Accounted
<1>4. /\ Higher(items.high, ct) \in Nat \cup {NoTurn}
      /\ Higher(items.high, ct) <= ct + 1 /\ Higher(items.high, ct) # ct + 1
    <2>1. items.high <= ct
        BY DEF Accounted
    <2>2. Higher(items.high, ct) = ct
        BY <1>2, <2>1, NoItemFields DEF Higher
    <2> QED  BY <1>3, <2>2
<1> DEFINE h == Higher(items.high, ct)
<1>5. /\ a \in InputBooks /\ a.epoch = items.epoch /\ a.cur = NoItem /\ a.cand = items.cand
      /\ a.replay = items.replay /\ a.reset = items.reset /\ a.closed = items.closed
      /\ a.high = h /\ a.last = items.last
      /\ b \in InputBooks /\ b.epoch = items.epoch /\ b.cur = items.cur /\ b.cand = NoItem
      /\ b.replay = FALSE /\ b.reset = items.reset /\ b.closed = items.closed
      /\ b.high = h /\ b.last = items.last
    <2>1. h \in Nat \cup {NoTurn}
        BY <1>4
    <2>2. s = [items EXCEPT !.high = h]
        OBVIOUS
    <2> HIDE DEF h
    <2>3. /\ s \in InputBooks /\ s.epoch = items.epoch /\ s.cur = items.cur /\ s.cand = items.cand
          /\ s.replay = items.replay /\ s.reset = items.reset /\ s.closed = items.closed
          /\ s.high = h /\ s.last = items.last
        BY <2>1, <2>2, ZenonT(30) DEF InputBooks
    <2> HIDE DEF s
    <2> QED  BY <2>3, NoItemFields, ZenonT(30) DEF InputBooks
<1>6. at = "cur" => item = [items.cur EXCEPT !.turn = ct]
    OBVIOUS
<1>7. at = "cand" => item = [items.cand EXCEPT !.turn = ct, !.heard = @ \/ items.replay]
    OBVIOUS
<1> HIDE DEF at, item, a, b, h
<1>8. CASE items.reset = "no" /\ items.cur # NoItem
    <2>1. /\ items.cur.turn \in {NoTurn, ct} /\ items.cur.prev = items.last
          /\ items.high <= ct /\ (items.high = ct => items.cur.turn = ct)
          /\ <<items.epoch, ct>> \in final => items.cur.heard
          /\ items.cand = NoItem
        BY <1>8 DEF Accounted
    <2>2. at = "cur"
        <3>1. ~Replays(items, items.epoch, ct)
            BY <1>8 DEF Replays
        <3>2. items.cur.turn = ct \/ (items.cur.turn = NoTurn /\ ct > items.high)
            BY <1>2, <1>3, <2>1, NoItemFields
        <3> QED  BY <1>3, <1>8, <3>1, <3>2 DEF at, Place
    <2>3. /\ item \in Item /\ item.turn = ct /\ item.prev = items.cur.prev
          /\ item.heard = items.cur.heard
        BY <1>2, <1>3, <1>6, <2>2, ZenonT(30) DEF Item
    <2> DEFINE t == Settled(a, item, committed)
    <2>4. over' = "no" /\ told' = IF committed THEN item ELSE told
        BY <1>1, <2>2
    <2>5. Becomes(t, c)
        BY <1>1, <2>2
    <2>6. /\ t \in InputBooks /\ t.epoch = items.epoch /\ t.cur = NoItem /\ t.cand = NoItem
          /\ t.reset = "no" /\ t.high = h /\ t.closed = items.closed \cup {ct}
          /\ t.last = IF committed THEN item.id ELSE items.last
        BY <1>5, <1>8, <2>1, <2>3, SettledFields
    <2> HIDE DEF t
    <2>7. Accounted(t, ct + 1, {}, {})
        BY <1>3, <1>4, <2>6 DEF Accounted, h
    <2>8. t.cur.req = "no"
        BY <2>6, NoItemFields
    <2>9. /\ items' \in InputBooks /\ items'.epoch = t.epoch /\ items'.reset = "no"
          /\ items'.last = t.last /\ Accounted(items', ct + 1, {}, {})
          /\ client' \in GpuClient /\ client'.phase = c.phase /\ client'.reset = "no"
          /\ client'.epoch = c.epoch /\ client'.turn = c.turn
          /\ Queued(client'.queue, t.epoch)
          /\ c.phase = "ready" => client'.queue = c.queue
          /\ up' \in Seq(ToGpu) /\ UpFits(up', t.epoch, k, FALSE)
        BY <1>3, <1>8, <2>5, <2>6, <2>7, <2>8, BecomeFits
    <2>10. told' \in Item /\ items'.last = told'.id
        BY <2>3, <2>4, <2>6, <2>9
    <2>11. told' # told => told'.prev = told.id /\ told'.heard
        BY <2>1, <2>3, <2>4
    <2> QED  BY <1>8, <2>4, <2>6, <2>9, <2>10, <2>11
<1>9. CASE items.reset = "no" /\ items.cur = NoItem
    <2>1. at = "nobody"
        BY <1>3, <1>9 DEF at, Place, Replays
    <2>2. ~committed
        BY <1>3, <1>9, NoItemFields DEF Accounted
    <2>3. over' = "unheard" /\ told' = told /\ items' = items /\ client' = c /\ up' = up
        BY <1>1, <2>1, <2>2
    <2> QED  BY <1>9, <2>3
<1>10. CASE items.reset = "waits" /\ items.cand = NoItem
    <2>1. at = "known"
        BY <1>10 DEF at, Place, Replays
    <2>2. over' = "no" /\ told' = told /\ items' = items /\ client' = c /\ up' = up
        BY <1>1, <2>1
    <2>3. Accounted(items, ct + 1, {}, {})
        BY <1>2, <1>3, <1>10, NoItemFields DEF Accounted
    <2> QED  BY <1>10, <2>2, <2>3
<1>11. CASE items.reset = "waits" /\ items.cand # NoItem
    <2>1. /\ items.cand.turn \in {NoTurn, ct} /\ items.high <= ct /\ items.cand.prev = items.last
          /\ items.high = ct => items.cand.turn = ct
          /\ items.cur = NoItem
          /\ <<items.epoch, ct>> \in final => items.cand.heard \/ items.replay
        BY <1>11 DEF Accounted
    <2>2. at = "cand"
        <3>1. Replays(items, items.epoch, ct)
            BY <1>3, <1>11, <2>1 DEF Replays
        <3>2. ~(items.cand.turn = NoTurn /\ ct <= items.high)
            BY <1>2, <1>3, <2>1, NoItemFields
        <3> QED  BY <1>11, <3>1, <3>2 DEF at, Place
    <2>3. /\ item \in Item /\ item.turn = ct /\ item.prev = items.cand.prev
          /\ item.heard = (items.cand.heard \/ items.replay)
        BY <1>2, <1>3, <1>7, <2>2, ZenonT(30) DEF Item
    <2> DEFINE t == Settled(b, item, committed)
    <2>4. over' = "no" /\ told' = IF committed THEN item ELSE told
        BY <1>1, <2>2
    <2>5. Becomes(t, c)
        BY <1>1, <2>2
    <2>6. /\ t \in InputBooks /\ t.epoch = items.epoch /\ t.cur = NoItem /\ t.cand = NoItem
          /\ t.reset = "waits" /\ t.high = h /\ t.closed = items.closed \cup {ct}
          /\ t.last = IF committed THEN item.id ELSE items.last
        BY <1>5, <1>11, <2>1, <2>3, SettledFields
    <2> HIDE DEF t
    <2>7. Accounted(t, ct + 1, {}, {})
        BY <1>3, <1>4, <2>6 DEF Accounted, h
    <2>8. items' = t /\ client' = c /\ up' = up
        BY <2>5, <2>6 DEF Becomes, Free
    <2>9. told' \in Item /\ items'.last = told'.id
        BY <2>3, <2>4, <2>6, <2>8
    <2>10. committed => item.heard
        BY <2>1, <2>3, Zenon
    <2>11. told' # told => told'.prev = told.id /\ told'.heard
        BY <2>1, <2>3, <2>4, <2>10
    <2> QED  BY <1>11, <2>4, <2>6, <2>7, <2>8, <2>9, <2>11
<1> QED  BY <1>2, <1>8, <1>9, <1>10, <1>11

-----------------------------------------------------------------------------
(* The steps: what the candidate, the watchdog and a refusal do            *)

LEMMA InvInit == InputInit => InputInv
<1> SUFFICES ASSUME InputInit PROVE InputInv
    OBVIOUS
<1>1. /\ items \in InputBooks /\ items.epoch = 0 /\ items.cur = NoItem /\ items.cand = NoItem
      /\ items.reset = "no" /\ items.closed = {} /\ items.high = NoTurn /\ items.last = 0
    BY NoItemFields, ZenonT(30) DEF InputInit, NoItems, InputBooks
<1>2. /\ client.phase = "dialled" /\ client.queue = <<>> /\ client.reset = "no"
      /\ client.epoch = 0 /\ client.turn = 0 /\ client.refused = 0
      /\ client \in GpuClient
    <2>1. <<>> \in Seq(ToGpu) /\ 0 \in Nat
        OBVIOUS
    <2> QED  BY <2>1, ZenonT(30) DEF InputInit, Dialled, GpuClient
<1>3. gpu \in GpuInput /\ gpu = Fresh /\ gpu.on = FALSE /\ gpu.epoch = 0 /\ gpu.turn = 0
    BY DEF InputInit, Fresh, GpuInput
<1>4. /\ media \in TurnsHeard /\ media.seen = {} /\ media.final = {} /\ media.pending = FALSE
    BY DEF InputInit, TurnsHeard
<1>5. /\ up = <<>> /\ down = <<>> /\ over = "no" /\ told = NoItem
      /\ done \in [append : Nat, commit : Nat, clear : Nat, flush : Nat]
    BY DEF InputInit
<1>6. InputTypeOK
    BY <1>1, <1>2, <1>3, <1>4, <1>5, NoItemFields DEF InputTypeOK
<1>7. NothingIsStray
    BY <1>5 DEF NothingIsStray
<1>8. Linked
    BY <1>1, <1>2, <1>3, <1>4, <1>5 DEF Linked, Queued
<1>9. Flowing
    BY <1>1, <1>2, <1>3, <1>5
       DEF Flowing, Path, UpFits, DownFits, NoAck, Chained, Reaches
<1>10. Accounted(items, client.turn, media.seen, media.final)
    BY <1>1, <1>2, <1>4, NoItemFields DEF Accounted
<1> QED  BY <1>1, <1>5, <1>6, <1>7, <1>8, <1>9, <1>10, NoItemFields DEF InputInv, InOrderNow

\* What the invariant gives a step of an open connection.
LEMMA Values ==
    ASSUME InputInv, over = "no"
    PROVE  /\ InputTypeOK /\ Linked /\ items.last = told.id
           /\ Flowing \/ Answered \/ Acked
           /\ items.reset # "acked" => Accounted(items, client.turn, media.seen, media.final)
           /\ items.reset # "no" => items.cur = NoItem
           /\ items.epoch \in Nat /\ items.cur \in Item /\ items.cand \in Item
           /\ items.held \in Nat /\ items.reset \in {"no", "waits", "acked"}
           /\ client.epoch \in Nat /\ client.turn \in Nat /\ client.queue \in Seq(ToGpu)
           /\ client.phase \in {"dialled", "backoff", "ready"} /\ client.refused \in Nat
           /\ client.reset \in {"no", "held", "sent"}
           /\ gpu.on \in BOOLEAN /\ gpu.epoch \in Nat /\ gpu.turn \in Nat
           /\ up \in Seq(ToGpu) /\ down \in Seq(FromGpu)
           /\ media.seen \in SUBSET (Nat \X Nat) /\ media.final \in SUBSET (Nat \X Nat)
           /\ media.discarded \in SUBSET (Nat \X Nat)
<1>1. InputTypeOK /\ InOrderNow
    BY DEF InputInv
<1> QED  BY <1>1 DEF InOrderNow, InputTypeOK, InputBooks, TurnsHeard, GpuClient, GpuInput

LEMMA CountsTyped ==
    ASSUME done \in [append : Nat, commit : Nat, clear : Nat, flush : Nat],
           NEW what \in {"append", "commit", "clear", "flush"}, NEW bound, Counts(what, bound)
    PROVE  done' \in [append : Nat, commit : Nat, clear : Nat, flush : Nat]
<1>1. \A n \in Nat : n + 1 \in Nat
    OBVIOUS
<1> QED  BY <1>1 DEF Counts

LEMMA StepMute ==
    ASSUME InputInv, Mute
    PROVE  InputInv'
<1>1. over = "no" /\ items' = items /\ client' = client /\ gpu' = gpu /\ up' = up /\ down' = down
      /\ done' = done /\ over' = over /\ told' = told
    BY DEF Mute, Runs
<1>2. media' \in TurnsHeard /\ media'.seen = media.seen /\ media'.final = media.final
      /\ media'.pending = media.pending
    <2>1. media \in TurnsHeard /\ media' = [media EXCEPT !.muted = ~@]
        BY DEF Mute, InputInv, InputTypeOK
    <2> QED  BY <2>1, ZenonT(30) DEF TurnsHeard
<1>3. InputTypeOK' /\ NothingIsStray'
    BY <1>1, <1>2 DEF InputInv, InputTypeOK, NothingIsStray
<1>4. Linked'
    BY <1>1, <1>2, Values DEF Linked
<1>5. (Flowing \/ Answered \/ Acked)'
    <2>1. CASE Flowing
        BY <1>1, <2>1 DEF Flowing
    <2>2. CASE Answered
        BY <1>1, <2>2 DEF Answered
    <2>3. CASE Acked
        BY <1>1, <1>2, <2>3 DEF Acked
    <2> QED  BY <1>1, <2>1, <2>2, <2>3, Values
<1> QED  BY <1>1, <1>2, <1>3, <1>4, <1>5, Values DEF InputInv, InOrderNow

\* A flush that names no turn ends the one the GPU is at.
LEMMA StepWatchdogFlush ==
    ASSUME InputInv, WatchdogFlush
    PROVE  InputInv'
<1>1. over = "no" /\ items' = items /\ client' = client /\ gpu' = gpu /\ media' = media
      /\ down' = down /\ over' = over /\ told' = told
      /\ up' = Sent(Message("bare", 0, 0)) /\ Counts("flush", MaxFlushes) /\ media.pending
    BY DEF WatchdogFlush, Runs
<1>2. Message("bare", 0, 0) \in ToGpu /\ Message("bare", 0, 0).t = "bare"
    BY MessageTo
<1>3. done' \in [append : Nat, commit : Nat, clear : Nat, flush : Nat]
    BY <1>1, CountsTyped DEF InputInv, InputTypeOK
<1>4. up' \in Seq(ToGpu)
    BY <1>1, <1>2, Values DEF Sent
<1>5. InputTypeOK' /\ NothingIsStray'
    BY <1>1, <1>3, <1>4 DEF InputInv, InputTypeOK, NothingIsStray
<1>6. Linked /\ items.reset = "no" /\ client.reset = "no"
    BY <1>1, Values DEF Linked
<1>7. Linked'
    BY <1>1, <1>6 DEF Linked
<1>8. Flowing
    BY <1>1, <1>6, Values DEF Answered, Acked
<1>9. UpFits(up', items.epoch, gpu.turn, FALSE)
    <2>1. UpFits(up, items.epoch, gpu.turn, FALSE)
        BY <1>6, <1>8 DEF Flowing, Path
    <2>2. UpFits(Append(up, Message("bare", 0, 0)), items.epoch, gpu.turn, FALSE)
        BY <1>1, <1>2, <2>1, Values, UpAppend
    <2> QED  BY <1>1, <2>1, <2>2 DEF Sent
<1>10. Flowing'
    BY <1>1, <1>6, <1>8, <1>9 DEF Flowing, Path
<1> QED  BY <1>1, <1>5, <1>7, <1>10, Values DEF InputInv, InOrderNow

LEMMA StepRefuse ==
    ASSUME InputInv, Refuse
    PROVE  InputInv'
<1>1. over = "no" /\ items' = items /\ gpu' = gpu /\ media' = media /\ down' = down
      /\ done' = done /\ told' = told /\ up' = <<>>
      /\ client.phase = "dialled" /\ ~gpu.on /\ over' \in {"no", "full"}
      /\ client' = [client EXCEPT !.phase = "backoff", !.refused = @ + 1]
    BY DEF Refuse
<1>2. client.refused + 1 \in Nat /\ client \in GpuClient
    BY <1>1, Values DEF InputTypeOK
<1>3. /\ client' \in GpuClient /\ client'.phase = "backoff" /\ client'.queue = client.queue
      /\ client'.reset = client.reset /\ client'.epoch = client.epoch
      /\ client'.turn = client.turn
    BY <1>1, <1>2, ZenonT(30) DEF GpuClient
<1>4. InputTypeOK' /\ NothingIsStray'
    BY <1>1, <1>3 DEF InputInv, InputTypeOK, NothingIsStray
<1>5. Linked
    BY <1>1, Values
<1>6. Linked'
    BY <1>1, <1>3, <1>5 DEF Linked
<1>7. Flowing
    BY <1>1, <1>5, Values DEF Answered, Acked, Linked
<1>8. client.reset # "sent"
    BY <1>1, <1>5 DEF Linked
<1>9. UpFits(<<>>, items.epoch, gpu.turn, FALSE)
    BY DEF UpFits
<1>10. Flowing'
    BY <1>1, <1>3, <1>7, <1>8, <1>9 DEF Flowing, Path
<1> QED  BY <1>1, <1>3, <1>4, <1>6, <1>10, Values DEF InputInv, InOrderNow

LEMMA StepRedial ==
    ASSUME InputInv, Redial
    PROVE  InputInv'
<1>1. over = "no" /\ items' = items /\ gpu' = gpu /\ media' = media /\ down' = down
      /\ done' = done /\ told' = told /\ up' = up /\ over' = over
      /\ client.phase = "backoff"
      /\ client' = [client EXCEPT !.phase = "dialled", !.epoch = 0, !.turn = 0,
                                  !.queue = IF client.reset = "no" THEN <<>> ELSE @]
    BY DEF Redial
<1>2. Linked
    BY <1>1, Values
<1>3. (IF client.reset = "no" THEN <<>> ELSE client.queue) = <<>>
    BY <1>1, <1>2, Values DEF Linked
<1>4. client \in GpuClient /\ <<>> \in Seq(ToGpu) /\ 0 \in Nat
    BY <1>1, Values DEF InputTypeOK
<1>5. client' = [client EXCEPT !.phase = "dialled", !.epoch = 0, !.turn = 0, !.queue = <<>>]
    BY <1>1, <1>3
<1>6. /\ client' \in GpuClient /\ client'.phase = "dialled" /\ client'.queue = <<>>
      /\ client'.reset = client.reset /\ client'.epoch = 0 /\ client'.turn = 0
    BY <1>4, <1>5, ZenonT(30) DEF GpuClient
<1>7. InputTypeOK' /\ NothingIsStray'
    BY <1>1, <1>6 DEF InputInv, InputTypeOK, NothingIsStray
<1>8. /\ client.turn = 0 /\ items.epoch = 0 /\ items.reset # "acked" /\ ~gpu.on
      /\ client.reset # "sent"
    BY <1>1, <1>2 DEF Linked
<1>9. Linked'
    BY <1>1, <1>2, <1>6, <1>8 DEF Linked, Queued
<1>10. Flowing
    BY <1>1, <1>8, Values DEF Answered, Acked
<1>11. Flowing'
    BY <1>1, <1>6, <1>8, <1>10 DEF Flowing
<1> QED  BY <1>1, <1>6, <1>7, <1>8, <1>9, <1>11, Values DEF InputInv, InOrderNow

LEMMA StepAppendAudio ==
    ASSUME InputInv, AppendAudio
    PROVE  InputInv'
<1>1. over = "no" /\ gpu' = gpu /\ down' = down /\ told' = told /\ Counts("append", MaxAppends)
      /\ items.reset # "acked"
    BY DEF AppendAudio, Runs
<1>2. done' \in [append : Nat, commit : Nat, clear : Nat, flush : Nat]
    BY <1>1, CountsTyped DEF InputInv, InputTypeOK
<1>3. Linked /\ items \in InputBooks /\ client \in GpuClient /\ media \in TurnsHeard
    BY <1>1, Values DEF InputTypeOK
<1>4. CASE /\ Free(items) /\ items' = Fed(items, 1) /\ Pushes(1, items.epoch, client)
           /\ \E p \in {media.pending, TRUE} : media' = [media EXCEPT !.pending = p]
           /\ over' = IF Len(client'.queue) > Limit THEN "limit" ELSE over
    <2>1. items.reset = "no" /\ client.reset = "no"
        BY <1>3, <1>4, Values, <1>1 DEF Free, Linked
    <2>2. Flowing
        BY <1>1, <2>1, Values DEF Answered, Acked
    <2>3. UpFits(up, items.epoch, gpu.turn, FALSE)
        BY <2>1, <2>2 DEF Flowing, Path
    <2>4. /\ client' \in GpuClient /\ client'.phase = client.phase /\ client'.reset = "no"
          /\ client'.epoch = client.epoch /\ client'.turn = client.turn
          /\ Queued(client'.queue, items.epoch)
          /\ client.phase = "ready" => client'.queue = client.queue
          /\ up' \in Seq(ToGpu) /\ UpFits(up', items.epoch, gpu.turn, FALSE)
        <3>1. Queued(client.queue, items.epoch)
            BY <1>3 DEF Linked
        <3> QED  BY <1>1, <1>3, <1>4, <2>1, <2>3, <3>1, Values, PushFits, ZenonT(40)
    <2>5. /\ items' \in InputBooks /\ items'.epoch = items.epoch /\ items'.reset = "no"
          /\ items'.last = items.last
          /\ Accounted(items', client.turn, media.seen, media.final)
        BY <1>1, <1>3, <1>4, <2>1, Values, FedFits
    <2>6. /\ media' \in TurnsHeard /\ media'.seen = media.seen /\ media'.final = media.final
        <3>1. PICK p \in {media.pending, TRUE} : media' = [media EXCEPT !.pending = p]
            BY <1>4
        <3>2. p \in BOOLEAN
            BY <1>3 DEF TurnsHeard
        <3> QED  BY <1>3, <3>1, <3>2, ZenonT(30) DEF TurnsHeard
    <2>7. over' \in {"no", "limit"}
        BY <1>1, <1>4
    <2>8. InputTypeOK' /\ NothingIsStray'
        BY <1>1, <1>2, <2>4, <2>5, <2>6, <2>7 DEF InputInv, InputTypeOK, NothingIsStray
    <2>9. Linked'
        BY <1>1, <1>3, <2>1, <2>4, <2>5, <2>6 DEF Linked
    <2>10. Flowing'
        BY <1>1, <2>1, <2>2, <2>4, <2>5 DEF Flowing, Path
    <2> QED  BY <1>1, <2>4, <2>5, <2>6, <2>8, <2>9, <2>10, Values DEF InputInv, InOrderNow
<1>5. CASE /\ items' = [items EXCEPT !.held = @ + 1]
           /\ over' = IF items.held = Limit THEN "limit" ELSE over
           /\ UNCHANGED <<media, client, up>>
    <2>1. items.held + 1 \in Nat
        BY <1>1, Values
    <2>2. /\ items' \in InputBooks /\ items'.epoch = items.epoch /\ items'.cur = items.cur
          /\ items'.cand = items.cand /\ items'.replay = items.replay
          /\ items'.reset = items.reset /\ items'.closed = items.closed
          /\ items'.high = items.high /\ items'.last = items.last
        BY <1>3, <1>5, <2>1, ZenonT(30) DEF InputBooks
    <2>3. over' \in {"no", "limit"}
        BY <1>1, <1>5
    <2>4. InputTypeOK' /\ NothingIsStray'
        BY <1>1, <1>2, <1>5, <2>2, <2>3 DEF InputInv, InputTypeOK, NothingIsStray
    <2>5. Linked'
        BY <1>1, <1>3, <1>5, <2>2 DEF Linked
    <2>6. (Flowing \/ Answered)'
        <3>1. Flowing \/ Answered
            BY <1>1, Values DEF Acked
        <3> QED  BY <1>1, <1>5, <2>2, <3>1 DEF Flowing, Answered
    <2>7. Accounted(items', client.turn, media.seen, media.final)
        <3>1. Accounted(items, client.turn, media.seen, media.final)
            BY <1>1, Values
        <3> QED  BY <2>2, <3>1 DEF Accounted
    <2> QED  BY <1>1, <1>5, <2>2, <2>4, <2>5, <2>6, <2>7, Values DEF InputInv, InOrderNow
<1> QED  BY <1>4, <1>5 DEF AppendAudio

\* The turn a commit names is the one the client of the GPU is at, which is not ahead
\* of the GPU.
LEMMA StepCommit ==
    ASSUME InputInv, Commit
    PROVE  InputInv'
<1> DEFINE k == IF items.cur.turn = NoTurn THEN client.turn ELSE items.cur.turn
           m == Message("flush", items.epoch, k)
           r == IF client.phase = "ready" THEN "yes" ELSE "early"
           v == [items.cur EXCEPT !.req = r]
<1>1. over = "no" /\ gpu' = gpu /\ down' = down /\ told' = told /\ media' = media
      /\ client' = client /\ over' = over /\ Counts("commit", MaxCommits)
      /\ items.reset # "acked" /\ items.cur # NoItem
      /\ up' = Sent(m) /\ items' = [items EXCEPT !.cur.req = r]
    BY DEF Commit, Runs
<1>2. done' \in [append : Nat, commit : Nat, clear : Nat, flush : Nat]
    BY <1>1, CountsTyped DEF InputInv, InputTypeOK
<1>3. Linked /\ items \in InputBooks
    BY <1>1, Values DEF InputTypeOK
<1>4. items.reset = "no" /\ client.reset = "no"
    BY <1>1, <1>3, Values DEF Linked
<1>5. Flowing
    BY <1>1, <1>4, Values DEF Answered, Acked
<1>6. Accounted(items, client.turn, media.seen, media.final)
    BY <1>1, Values
<1>7. k = client.turn
    BY <1>1, <1>6 DEF Accounted
<1>8. m \in ToGpu /\ m.t = "flush" /\ m.e = items.epoch /\ m.k = client.turn
    BY <1>1, <1>7, Values, MessageTo
<1>9. client.turn <= gpu.turn /\ UpFits(up, items.epoch, gpu.turn, FALSE)
    BY <1>4, <1>5 DEF Flowing, Path, Reaches
<1>10. r \in {"no", "yes", "early"} /\ r # "no"
    OBVIOUS
<1>11. items' = [items EXCEPT !.cur = v]
    BY <1>1, <1>3, ZenonT(30) DEF InputBooks, Item
<1> HIDE DEF k, m, r
<1>12. v \in Item /\ v.req = r /\ v.turn = items.cur.turn /\ v.prev = items.cur.prev
       /\ v.heard = items.cur.heard
    BY <1>1, <1>10, Values, ZenonT(30) DEF Item
<1> HIDE DEF v
<1>13. /\ items' \in InputBooks /\ items'.epoch = items.epoch /\ items'.cur = v
       /\ items'.cand = items.cand /\ items'.replay = items.replay
       /\ items'.reset = items.reset /\ items'.closed = items.closed
       /\ items'.high = items.high /\ items'.last = items.last
    BY <1>3, <1>11, <1>12, ZenonT(30) DEF InputBooks
<1>14. up' \in Seq(ToGpu) /\ UpFits(up', items.epoch, gpu.turn, FALSE)
    <2>1. UpFits(Append(up, m), items.epoch, gpu.turn, FALSE)
        BY <1>1, <1>8, <1>9, Values, UpAppend
    <2>2. Append(up, m) \in Seq(ToGpu)
        BY <1>1, <1>8, Values
    <2> QED  BY <1>1, <1>9, <2>1, <2>2, Values, ZenonT(30) DEF Sent
<1>15. InputTypeOK' /\ NothingIsStray'
    BY <1>1, <1>2, <1>13, <1>14 DEF InputInv, InputTypeOK, NothingIsStray
<1>16. Linked'
    BY <1>1, <1>3, <1>13 DEF Linked
<1>17. Accounted(items', client.turn, media.seen, media.final)
    BY <1>1, <1>4, <1>6, <1>12, <1>13 DEF Accounted
<1>18. Flowing'
    BY <1>1, <1>4, <1>5, <1>13, <1>14 DEF Flowing, Path
<1> QED  BY <1>1, <1>4, <1>13, <1>15, <1>16, <1>17, <1>18, Values DEF InputInv, InOrderNow

\* A clear puts the open item aside, with what was heard of it, and nothing can be
\* sent to the GPU after its reset until that is answered.
LEMMA StepClear ==
    ASSUME InputInv, Clear
    PROVE  InputInv'
<1> DEFINE now == client.phase = "ready"
           q == Retired(client.queue, items.epoch)
           r == IF now THEN "sent" ELSE "held"
           m == Message("reset", items.epoch, 0)
<1>1. over = "no" /\ gpu' = gpu /\ down' = down /\ told' = told /\ over' = over
      /\ Counts("clear", MaxClears) /\ items.reset = "no"
      /\ items' = [items EXCEPT !.reset = "waits", !.cand = items.cur, !.cur = NoItem,
                                !.replay = FALSE, !.held = 0]
      /\ media' = [media EXCEPT !.pending = FALSE]
      /\ client' = [client EXCEPT !.queue = q, !.reset = r]
      /\ up' = IF now THEN Append(up, m) ELSE up
    BY ZenonT(30) DEF Clear, Runs, ClearsEndpoint
<1>2. done' \in [append : Nat, commit : Nat, clear : Nat, flush : Nat]
    BY <1>1, CountsTyped DEF InputInv, InputTypeOK
<1>3. Linked /\ items \in InputBooks /\ client \in GpuClient /\ media \in TurnsHeard
    BY <1>1, Values DEF InputTypeOK
<1>4. client.reset = "no"
    BY <1>1, <1>3, Values DEF Linked
<1>5. Flowing
    BY <1>1, <1>4, Values DEF Answered, Acked
<1>6. Accounted(items, client.turn, media.seen, media.final)
    BY <1>1, Values
<1>7. q = <<>>
    BY <1>1, <1>3, Values, RetiresAll DEF Linked, Queued
<1>8. m \in ToGpu /\ m.t = "reset" /\ m.e = items.epoch
    BY <1>1, Values, MessageTo, SMTT(30)
<1>9. UpFits(up, items.epoch, gpu.turn, FALSE)
    BY <1>4, <1>5 DEF Flowing, Path
<1>10. q \in Seq(ToGpu) /\ r \in {"no", "held", "sent"} /\ r # "no" /\ (r = "sent" <=> now)
    BY <1>7
<1>11. /\ items' \in InputBooks /\ items'.epoch = items.epoch /\ items'.cur = NoItem
       /\ items'.cand = items.cur /\ items'.replay = FALSE
       /\ items'.reset = "waits" /\ items'.closed = items.closed
       /\ items'.high = items.high /\ items'.last = items.last
    <2>1. 0 \in Nat
        OBVIOUS
    <2> QED  BY <1>1, <1>3, <2>1, Values, NoItemFields, ZenonT(30) DEF InputBooks
<1> HIDE DEF q, r, m
<1>12. /\ client' \in GpuClient /\ client'.phase = client.phase /\ client'.queue = q
       /\ client'.reset = r /\ client'.epoch = client.epoch /\ client'.turn = client.turn
    BY <1>1, <1>3, <1>10, ZenonT(30) DEF GpuClient
<1>13. /\ media' \in TurnsHeard /\ media'.seen = media.seen /\ media'.final = media.final
       /\ media'.pending = FALSE
    BY <1>1, <1>3, ZenonT(30) DEF TurnsHeard
<1>14. up' \in Seq(ToGpu)
    BY <1>1, <1>8, Values
<1>15. InputTypeOK' /\ NothingIsStray'
    BY <1>1, <1>2, <1>11, <1>12, <1>13, <1>14 DEF InputInv, InputTypeOK, NothingIsStray
<1>16. Linked'
    BY <1>1, <1>3, <1>7, <1>10, <1>11, <1>12, <1>13 DEF Linked, Queued
<1>17. Accounted(items', client.turn, media.seen, media.final)
    BY <1>1, <1>6, <1>11 DEF Accounted
<1>18. Flowing'
    <2>1. gpu.on /\ client.phase # "ready" <=> (gpu.on /\ client.phase # "ready")'
        BY <1>1, <1>12
    <2>2. CASE now
        <3>1. UpFits(Append(up, m), items.epoch, gpu.turn, TRUE)
            BY <1>1, <1>8, <1>9, Values, UpAppend
        <3>2. up' # <<>> /\ up'[Len(up')] = m
            <4>1. up \in Seq(ToGpu)
                BY <1>1, Values
            <4>2. LET w == Append(up, m) IN w # <<>> /\ w[Len(w)] = m
                BY <1>8, <4>1
            <4>3. up' = Append(up, m)
                BY <1>1, <2>2
            <4> QED  BY <4>2, <4>3, Zenon
        <3> QED  BY <1>1, <1>5, <1>8, <1>10, <1>11, <1>12, <2>2, <3>1, <3>2 DEF Flowing, Path
    <2>3. CASE ~now
        BY <1>1, <1>4, <1>5, <1>10, <1>11, <1>12, <2>3 DEF Flowing, Path
    <2> QED  BY <2>2, <2>3
<1> QED  BY <1>1, <1>11, <1>12, <1>13, <1>15, <1>16, <1>17, <1>18, Values DEF InputInv, InOrderNow

\* The epoch after a clear begins with nothing on its way, and nothing heard of.
LEMMA StepClearDone ==
    ASSUME InputInv, ClearDone
    PROVE  InputInv'
<1> DEFINE s == [items EXCEPT !.reset = "no", !.cand = NoItem, !.replay = FALSE,
                              !.epoch = @ + 1, !.closed = {}, !.high = NoTurn]
           Later(keys) == {key \in keys : key[1] # items.epoch}
<1>1. over = "no" /\ gpu' = gpu /\ down' = down /\ told' = told /\ over' = over /\ done' = done
      /\ items.reset = "acked" /\ Becomes(s, client)
      /\ media' = [media EXCEPT !.seen = Later(@), !.final = Later(@), !.discarded = Later(@)]
    BY ZenonT(30) DEF ClearDone
<1>2. Linked /\ items \in InputBooks /\ client \in GpuClient /\ media \in TurnsHeard
      /\ items.cur = NoItem
    BY <1>1, Values DEF InputTypeOK
<1>3. Acked
    BY <1>1, <1>2, Values DEF Flowing, Answered, Linked
<1>4. /\ s \in InputBooks /\ s.epoch = items.epoch + 1 /\ s.cur = NoItem /\ s.cand = NoItem
      /\ s.reset = "no" /\ s.closed = {} /\ s.high = NoTurn /\ s.last = items.last
    <2>1. items.epoch + 1 \in Nat /\ {} \in SUBSET Nat
        BY <1>1, Values
    <2> QED  BY <1>2, <2>1, NoItemFields, ZenonT(30) DEF InputBooks
<1> HIDE DEF s
<1>5. client.reset = "no" /\ client.phase = "ready" /\ client.queue = <<>>
    BY <1>1, <1>2, Values DEF Linked
<1>6. /\ media' \in TurnsHeard /\ media'.seen = {} /\ media'.final = {}
    <2>1. /\ Later(media.seen) \in SUBSET (Nat \X Nat) /\ Later(media.final) \in SUBSET (Nat \X Nat)
          /\ Later(media.discarded) \in SUBSET (Nat \X Nat)
        BY <1>1, Values
    <2>2. Later(media.seen) = {} /\ Later(media.final) = {}
        BY <1>3 DEF Acked
    <2> HIDE DEF Later
    <2>3. /\ media' \in TurnsHeard /\ media'.seen = Later(media.seen)
          /\ media'.final = Later(media.final)
        BY <1>1, <1>2, <2>1, ZenonT(30) DEF TurnsHeard
    <2> QED  BY <2>2, <2>3
<1>7. Accounted(s, 0, {}, {})
    BY <1>4, NoItemFields DEF Accounted
<1>8. up = <<>> /\ down = <<>> /\ UpFits(up, s.epoch, 0, FALSE) /\ Queued(client.queue, s.epoch)
      /\ up \in Seq(ToGpu)
    BY <1>3, <1>5, <1>1, Values DEF Acked, UpFits, Queued
<1>9. s.cur.req = "no"
    BY <1>4, NoItemFields
<1>10. /\ items' \in InputBooks /\ items'.epoch = s.epoch /\ items'.reset = "no"
       /\ items'.last = s.last /\ Accounted(items', 0, {}, {})
       /\ client' \in GpuClient /\ client'.phase = client.phase /\ client'.reset = "no"
       /\ client'.epoch = client.epoch /\ client'.turn = client.turn
       /\ Queued(client'.queue, s.epoch)
       /\ client'.queue = client.queue
       /\ up' \in Seq(ToGpu) /\ UpFits(up', s.epoch, 0, FALSE)
    BY <1>1, <1>2, <1>4, <1>5, <1>7, <1>8, <1>9, BecomeFits, ZenonT(40)
<1>11. InputTypeOK' /\ NothingIsStray'
    BY <1>1, <1>6, <1>10 DEF InputInv, InputTypeOK, NothingIsStray
<1>12. client.turn = 0 /\ gpu.turn = 0 /\ gpu.epoch = s.epoch /\ client.epoch = s.epoch /\ gpu.on
    BY <1>2, <1>3, <1>4, <1>5 DEF Acked, Linked
<1>13. Linked'
    BY <1>1, <1>5, <1>10, <1>12 DEF Linked
<1>14. Flowing'
    <2>1. DownFits(<<>>, s.epoch, FALSE) /\ NoAck(<<>>) /\ Chained(<<>>, 0) /\ Reaches(<<>>, 0, 0)
        BY DEF DownFits, NoAck, Chained, Reaches
    <2> QED  BY <1>1, <1>5, <1>8, <1>10, <1>12, <2>1 DEF Flowing, Path
<1> QED  BY <1>1, <1>4, <1>6, <1>10, <1>11, <1>12, <1>13, <1>14, Values DEF InputInv, InOrderNow

-----------------------------------------------------------------------------
(* The steps of the session on the GPU                                     *)

\* A step of the GPU touches neither the items nor the client: what is left to see is
\* that the socket still fits.
LEMMA GpuFrame ==
    ASSUME InputInv, over = "no", gpu.on, UNCHANGED <<items, media, client, done, told>>,
           gpu' \in GpuInput, gpu'.on = TRUE, up' \in Seq(ToGpu), down' \in Seq(FromGpu),
           over' = over, Flowing' \/ Answered'
    PROVE  InputInv'
<1>1. InputTypeOK' /\ NothingIsStray'
    BY DEF InputInv, InputTypeOK, NothingIsStray
<1>2. Linked'
    BY Values DEF Linked
<1> QED  BY <1>1, <1>2, Values DEF InputInv, InOrderNow

\* The GPU is in the epoch of the items while something is on its way to it, and the
\* first of it is of that epoch.
LEMMA OnItsWay ==
    ASSUME InputInv, over = "no", gpu.on, up # <<>>
    PROVE  /\ Flowing /\ gpu.epoch = items.epoch /\ gpu \in GpuInput
           /\ Head(up) \in ToGpu /\ Tail(up) \in Seq(ToGpu)
           /\ Head(up).t # "bare" => Head(up).e = gpu.epoch
           /\ Head(up).t = "flush" => Head(up).k <= gpu.turn
           /\ Head(up).t = "reset" => Tail(up) = <<>> /\ client.reset = "sent"
           /\ Head(up).t # "reset" =>
                Path(Tail(up), down, items.epoch, client.turn, gpu.turn, client.reset = "sent",
                     gpu.on /\ client.phase # "ready")
<1>1. Flowing
    BY Values DEF Answered, Acked
<1>2. /\ UpFits(up, items.epoch, gpu.turn, client.reset = "sent")
      /\ client.reset = "sent" => up[Len(up)].t = "reset"
      /\ gpu.epoch = items.epoch
    BY <1>1 DEF Flowing, Path
<1> DEFINE sent == client.reset = "sent"
<1>3. /\ sent \in BOOLEAN /\ UpFits(up, items.epoch, gpu.turn, sent)
      /\ sent => up[Len(up)].t = "reset"
    BY <1>2
<1> HIDE DEF sent
<1>4. /\ UpFits(Tail(up), items.epoch, gpu.turn, sent)
      /\ Head(up).t # "bare" => Head(up).e = items.epoch
      /\ Head(up).t = "flush" => Head(up).k <= gpu.turn
      /\ Head(up).t = "reset" => Tail(up) = <<>> /\ sent
      /\ Head(up).t # "reset" /\ up[Len(up)].t = "reset" =>
           Tail(up) # <<>> /\ Tail(up)[Len(Tail(up))].t = "reset"
      /\ Head(up) \in ToGpu /\ Tail(up) \in Seq(ToGpu)
    BY <1>3, Values, UpTail, SMTT(30)
<1>5. ASSUME Head(up).t # "reset"
      PROVE  Path(Tail(up), down, items.epoch, client.turn, gpu.turn, client.reset = "sent",
                  gpu.on /\ client.phase # "ready")
    BY <1>1, <1>3, <1>4, <1>5 DEF Flowing, Path, sent
<1>6. gpu \in GpuInput
    BY Values DEF InputTypeOK
<1> QED  BY <1>1, <1>2, <1>4, <1>5, <1>6 DEF sent

\* A message of the turn the GPU is at.
LEMMA GpuSays ==
    ASSUME InputInv, over = "no", gpu.on, NEW u \in Seq(ToGpu), NEW d \in Seq(FromGpu),
           gpu.epoch = items.epoch,
           Path(u, d, items.epoch, client.turn, gpu.turn, client.reset = "sent",
                gpu.on /\ client.phase # "ready"),
           NEW t \in Turned
    PROVE  LET w == Append(d, Here(t))
               n == IF t = "turn_end" THEN gpu.turn + 1 ELSE gpu.turn
           IN /\ w \in Seq(FromGpu)
              /\ Path(u, w, items.epoch, client.turn, n, client.reset = "sent",
                      gpu.on /\ client.phase # "ready")
<1> DEFINE m == Here(t)
           w == Append(d, m)
           n == IF t = "turn_end" THEN gpu.turn + 1 ELSE gpu.turn
           early == gpu.on /\ client.phase # "ready"
           sent == client.reset = "sent"
<1>1. gpu.epoch \in Nat /\ gpu.turn \in Nat /\ client.turn \in Nat /\ items.epoch \in Nat
    BY Values
<1>2. t \in {"ready", "ack", "partial", "final", "turn_end"}
    BY DEF Turned
<1>3. m \in FromGpu /\ m.t = t /\ m.e = items.epoch /\ m.k = gpu.turn
    BY <1>1, <1>2, MessageTo DEF Here
<1> HIDE DEF m
<1>4. After(m) = n
    BY <1>3 DEF After
<1>5. early \in BOOLEAN /\ sent \in BOOLEAN /\ n \in Nat /\ gpu.turn <= n
    BY <1>1, Values
<1>6. /\ UpFits(u, items.epoch, gpu.turn, sent) /\ (sent => u # <<>> /\ u[Len(u)].t = "reset")
      /\ DownFits(d, items.epoch, early) /\ NoAck(d) /\ Chained(d, client.turn)
      /\ Reaches(d, client.turn, gpu.turn) /\ (early => d # <<>>)
    BY DEF Path
<1> HIDE DEF early, sent, n
<1>7. UpFits(u, items.epoch, n, sent)
    BY <1>1, <1>5, <1>6, UpLater
<1>8. /\ w \in Seq(FromGpu) /\ w # <<>>
      /\ DownFits(w, items.epoch, early) /\ NoAck(w) /\ Chained(w, client.turn)
      /\ Reaches(w, client.turn, After(m))
    BY <1>1, <1>3, <1>5, <1>6, DownAppend
<1> HIDE DEF w
<1>9. Path(u, w, items.epoch, client.turn, n, sent, early)
    BY <1>4, <1>6, <1>7, <1>8 DEF Path
<1> QED  BY <1>8, <1>9 DEF w, m, n, early, sent

LEMMA EndsTurnFits ==
    ASSUME InputInv, over = "no", gpu.on, UNCHANGED <<items, client>>, up' \in Seq(ToGpu),
           gpu.epoch = items.epoch, items.reset # "acked",
           Path(up', down, items.epoch, client.turn, gpu.turn, client.reset = "sent",
                gpu.on /\ client.phase # "ready"),
           EndsTurn
    PROVE  /\ gpu' \in GpuInput /\ gpu'.on = TRUE /\ down' \in Seq(FromGpu)
           /\ Flowing'
<1>1. gpu \in GpuInput /\ gpu.turn + 1 \in Nat /\ down \in Seq(FromGpu)
    BY Values DEF InputTypeOK
<1>2. /\ gpu' \in GpuInput /\ gpu'.on = gpu.on /\ gpu'.epoch = gpu.epoch
      /\ gpu'.turn = gpu.turn + 1
    BY <1>1, ZenonT(30) DEF EndsTurn, Ended, GpuInput
<1> DEFINE P(d, n) == Path(up', d, items.epoch, client.turn, n, client.reset = "sent",
                           gpu.on /\ client.phase # "ready")
<1>3. "turn_end" \in Turned /\ "final" \in Turned /\ "final" # "turn_end"
    BY DEF Turned
<1>4. CASE down' = Append(down, Here("turn_end"))
    <2>1. down' \in Seq(FromGpu) /\ P(down', gpu.turn + 1)
        BY <1>1, <1>3, <1>4, GpuSays
    <2> QED  BY <1>2, <2>1 DEF Flowing
<1>5. CASE down' = down \o <<Here("final"), Here("turn_end")>>
    <2> DEFINE w == Append(down, Here("final"))
    <2>1. w \in Seq(FromGpu) /\ P(w, gpu.turn)
        BY <1>1, <1>3, GpuSays
    <2>2. down' = Append(w, Here("turn_end"))
        BY <1>1, <1>5
    <2> HIDE DEF w
    <2>3. down' \in Seq(FromGpu) /\ P(down', gpu.turn + 1)
        BY <1>3, <2>1, <2>2, GpuSays
    <2> QED  BY <1>2, <2>3 DEF Flowing
<1> QED  BY <1>4, <1>5 DEF EndsTurn

LEMMA StepHearsAudio ==
    ASSUME InputInv, HearsAudio
    PROVE  InputInv'
<1>1. /\ over = "no" /\ gpu.on /\ up # <<>> /\ Head(up).t = "audio" /\ up' = Tail(up)
      /\ UNCHANGED <<items, media, client, done, told>>
    BY DEF HearsAudio, Hearing
<1>2. /\ Flowing /\ gpu.epoch = items.epoch /\ gpu \in GpuInput /\ up' \in Seq(ToGpu)
      /\ Head(up).e = gpu.epoch
      /\ Path(up', down, items.epoch, client.turn, gpu.turn, client.reset = "sent",
              gpu.on /\ client.phase # "ready")
    BY <1>1, OnItsWay
<1>3. /\ over' = over
      /\ \/ gpu' = gpu /\ down' = down
         \/ /\ gpu' = [gpu EXCEPT !.speech = TRUE]
            /\ down' \in {down, Append(down, Here("partial"))}
         \/ EndsTurn
    BY <1>2 DEF HearsAudio
<1>4. items.reset # "acked" /\ down \in Seq(FromGpu)
    BY <1>1, <1>2, Values DEF Flowing
<1>5. CASE gpu' = gpu /\ down' = down
    <2>1. Flowing'
        BY <1>1, <1>2, <1>4, <1>5 DEF Flowing
    <2> QED  BY <1>1, <1>2, <1>3, <1>4, <1>5, <2>1, GpuFrame
<1>6. CASE /\ gpu' = [gpu EXCEPT !.speech = TRUE]
           /\ down' \in {down, Append(down, Here("partial"))}
    <2>1. /\ gpu' \in GpuInput /\ gpu'.on = gpu.on /\ gpu'.epoch = gpu.epoch
          /\ gpu'.turn = gpu.turn
        BY <1>2, <1>6, ZenonT(30) DEF GpuInput
    <2>2. "partial" \in Turned /\ "partial" # "turn_end"
        BY DEF Turned
    <2>3. /\ down' \in Seq(FromGpu)
          /\ Path(up', down', items.epoch, client.turn, gpu.turn, client.reset = "sent",
                  gpu.on /\ client.phase # "ready")
        <3>1. CASE down' = down
            BY <1>2, <1>4, <3>1
        <3>2. CASE down' = Append(down, Here("partial"))
            BY <1>1, <1>2, <1>4, <2>2, <3>2, GpuSays, ZenonT(40)
        <3> QED  BY <1>6, <3>1, <3>2
    <2>4. Flowing'
        BY <1>1, <1>2, <1>4, <2>1, <2>3 DEF Flowing
    <2> QED  BY <1>1, <1>2, <1>3, <2>1, <2>3, <2>4, GpuFrame
<1>7. CASE EndsTurn
    <2>1. gpu' \in GpuInput /\ gpu'.on = TRUE /\ down' \in Seq(FromGpu) /\ Flowing'
        BY <1>1, <1>2, <1>4, <1>7, EndsTurnFits
    <2> QED  BY <1>1, <1>2, <1>3, <2>1, GpuFrame
<1> QED  BY <1>3, <1>5, <1>6, <1>7

\* A flush is of the turn the GPU is at or of one that is over.
LEMMA StepHearsFlush ==
    ASSUME InputInv, HearsFlush
    PROVE  InputInv'
<1>1. /\ over = "no" /\ gpu.on /\ up # <<>> /\ Head(up).t = "flush" /\ up' = Tail(up)
      /\ UNCHANGED <<items, media, client, done, told>>
    BY DEF HearsFlush, Hearing
<1>2. /\ Flowing /\ gpu.epoch = items.epoch /\ gpu \in GpuInput /\ up' \in Seq(ToGpu)
      /\ Head(up).e = gpu.epoch /\ Head(up).k <= gpu.turn /\ Head(up) \in ToGpu
      /\ Path(up', down, items.epoch, client.turn, gpu.turn, client.reset = "sent",
              gpu.on /\ client.phase # "ready")
    BY <1>1, OnItsWay
<1>3. Head(up).k \in Nat /\ gpu.turn \in Nat /\ gpu.epoch \in Nat
    BY <1>1, <1>2, Values DEF ToGpu
<1>4. /\ over' = over
      /\ (gpu' = gpu /\ down' = down) \/ EndsTurn
    BY <1>2, <1>3 DEF HearsFlush
<1>5. items.reset # "acked" /\ down \in Seq(FromGpu)
    BY <1>1, <1>2, Values DEF Flowing
<1>6. CASE gpu' = gpu /\ down' = down
    <2>1. Flowing'
        BY <1>1, <1>2, <1>5, <1>6 DEF Flowing
    <2> QED  BY <1>1, <1>2, <1>4, <1>5, <1>6, <2>1, GpuFrame
<1>7. CASE EndsTurn
    <2>1. gpu' \in GpuInput /\ gpu'.on = TRUE /\ down' \in Seq(FromGpu) /\ Flowing'
        BY <1>1, <1>2, <1>5, <1>7, EndsTurnFits
    <2> QED  BY <1>1, <1>2, <1>4, <2>1, GpuFrame
<1> QED  BY <1>4, <1>6, <1>7

LEMMA StepHearsBareFlush ==
    ASSUME InputInv, HearsBareFlush
    PROVE  InputInv'
<1>1. /\ over = "no" /\ gpu.on /\ up # <<>> /\ Head(up).t = "bare" /\ up' = Tail(up)
      /\ UNCHANGED <<items, media, client, done, told>> /\ over' = over /\ EndsTurn
    BY DEF HearsBareFlush, Hearing
<1>2. /\ Flowing /\ gpu.epoch = items.epoch /\ up' \in Seq(ToGpu)
      /\ Path(up', down, items.epoch, client.turn, gpu.turn, client.reset = "sent",
              gpu.on /\ client.phase # "ready")
    BY <1>1, OnItsWay
<1>3. items.reset # "acked"
    BY <1>2 DEF Flowing
<1>4. gpu' \in GpuInput /\ gpu'.on = TRUE /\ down' \in Seq(FromGpu) /\ Flowing'
    BY <1>1, <1>2, <1>3, EndsTurnFits
<1> QED  BY <1>1, <1>2, <1>4, GpuFrame

\* A reset follows everything else that was sent, and its answer everything that was
\* said before.
LEMMA StepHearsReset ==
    ASSUME InputInv, HearsReset
    PROVE  InputInv'
<1>1. /\ over = "no" /\ gpu.on /\ up # <<>> /\ Head(up).t = "reset" /\ up' = Tail(up)
      /\ UNCHANGED <<items, media, client, done, told>>
    BY DEF HearsReset, Hearing
<1>2. /\ Flowing /\ gpu.epoch = items.epoch /\ gpu \in GpuInput
      /\ up' = <<>> /\ up' \in Seq(ToGpu) /\ client.reset = "sent"
      /\ Head(up).e = gpu.epoch
    BY <1>1, OnItsWay
<1> DEFINE m == Message("ack", gpu.epoch + 1, 0)
<1>3. /\ over' = over /\ down' = Append(down, m)
      /\ gpu' = [gpu EXCEPT !.epoch = @ + 1, !.turn = 0, !.speech = FALSE]
    BY <1>2 DEF HearsReset
<1>4. gpu.epoch \in Nat /\ gpu.epoch + 1 \in Nat /\ 0 \in Nat /\ client.turn \in Nat
      /\ down \in Seq(FromGpu)
    BY <1>1, Values
<1>5. /\ gpu' \in GpuInput /\ gpu'.on = gpu.on /\ gpu'.epoch = gpu.epoch + 1 /\ gpu'.turn = 0
    BY <1>2, <1>3, <1>4, ZenonT(30) DEF GpuInput
<1>6. m \in FromGpu /\ m.t = "ack" /\ m.e = gpu.epoch + 1
    BY <1>4, MessageTo
<1>7. client.phase = "ready"
    BY <1>1, <1>2, Values DEF Linked
<1>8. DownFits(down, gpu.epoch, FALSE) /\ NoAck(down) /\ Chained(down, client.turn)
    BY <1>2, <1>7 DEF Flowing, Path
<1> HIDE DEF m
<1>9. LET w == Append(down, m)
      IN /\ w \in Seq(FromGpu) /\ w # <<>> /\ w[Len(w)].t = "ack"
         /\ DownFits(w, gpu.epoch, FALSE) /\ Chained(w, client.turn)
    BY <1>4, <1>6, <1>8, DownAck
<1>10. /\ down' \in Seq(FromGpu) /\ down' # <<>> /\ down'[Len(down')].t = "ack"
       /\ DownFits(down', gpu.epoch, FALSE) /\ Chained(down', client.turn)
    BY <1>3, <1>9, Zenon
<1>11. Answered'
    BY <1>1, <1>2, <1>5, <1>10 DEF Answered
<1> QED  BY <1>1, <1>2, <1>3, <1>5, <1>10, <1>11, GpuFrame

\* The instance takes the session, and says so before anything else.
LEMMA StepAccept ==
    ASSUME InputInv, Accept
    PROVE  InputInv'
<1> DEFINE m == Message("ready", 0, 0)
<1>1. /\ over = "no" /\ client.phase = "dialled" /\ ~gpu.on /\ over' = over /\ up' = up
      /\ UNCHANGED <<items, media, client, done, told>>
      /\ gpu' = [gpu EXCEPT !.on = TRUE] /\ down' = Append(down, m)
    BY DEF Accept
<1>2. gpu \in GpuInput
    BY <1>1, Values DEF InputTypeOK
<1>3. /\ gpu' \in GpuInput /\ gpu'.on = TRUE /\ gpu'.epoch = gpu.epoch /\ gpu'.turn = gpu.turn
    BY <1>1, <1>2, ZenonT(30) DEF GpuInput
<1>4. m \in FromGpu /\ m.t = "ready"
    BY MessageTo
<1>5. Linked
    BY <1>1, Values
<1>6. /\ gpu.epoch = 0 /\ gpu.turn = 0 /\ down = <<>> /\ items.epoch = 0 /\ client.turn = 0
      /\ items.reset # "acked" /\ client.reset # "sent"
    BY <1>1, <1>5 DEF Linked, Fresh
<1>7. Flowing
    BY <1>1, <1>6, Values DEF Answered, Acked
<1> HIDE DEF m
<1>8. down' = <<m>>
    BY <1>1, <1>6
<1>9. down' \in Seq(FromGpu)
    BY <1>4, <1>8
<1>10. DownFits(<<m>>, 0, TRUE) /\ NoAck(<<m>>) /\ Chained(<<m>>, 0) /\ Reaches(<<m>>, 0, 0)
    <2> DEFINE d == <<m>>
    <2>1. Len(d) = 1 /\ d[1] = m /\ d # <<>>
        OBVIOUS
    <2>2. m.t # "ack" /\ m.t \notin Turned /\ m.t # "turn_end"
        BY <1>4 DEF Turned
    <2> HIDE DEF d
    <2>3. \A i \in 1..Len(d) : i = 1 /\ d[i] = m
        BY <2>1
    <2>4. DownFits(d, 0, TRUE)
        BY <1>4, <2>2, <2>3 DEF DownFits
    <2>5. NoAck(d)
        BY <2>2, <2>3 DEF NoAck
    <2>6. Chained(d, 0)
        BY <2>1, <2>2, <2>3 DEF Chained
    <2>7. Reaches(d, 0, 0)
        BY <1>4, <2>1, <2>2, <2>3 DEF Reaches
    <2> QED  BY <2>4, <2>5, <2>6, <2>7 DEF d
<1>11. InputTypeOK' /\ NothingIsStray'
    BY <1>1, <1>3, <1>9 DEF InputInv, InputTypeOK, NothingIsStray
<1>12. Linked'
    BY <1>1, <1>3, <1>5, <1>6 DEF Linked
<1>13. Flowing'
    <2>1. UpFits(up, 0, 0, client.reset = "sent")
        BY <1>6, <1>7 DEF Flowing, Path
    <2>2. <<m>> # <<>>
        OBVIOUS
    <2>3. Path(up, <<m>>, 0, 0, 0, client.reset = "sent", TRUE)
        BY <1>6, <1>10, <2>1, <2>2 DEF Path
    <2>4. (gpu.on /\ client.phase # "ready")' = TRUE
        BY <1>1, <1>3
    <2>5. Path(up', down', items'.epoch, client'.turn, gpu'.turn, client'.reset = "sent", TRUE)
        BY <1>1, <1>3, <1>6, <1>8, <2>3
    <2> QED  BY <1>1, <1>3, <1>6, <2>4, <2>5 DEF Flowing
<1> QED  BY <1>1, <1>6, <1>11, <1>12, <1>13, Values DEF InputInv, InOrderNow

-----------------------------------------------------------------------------
(* The steps of the bridge                                                 *)

\* What arrives is of the turn the client of the GPU is at, or makes it ready, or
\* answers the reset; and what follows it still fits.
LEMMA OnItsWayBack ==
    ASSUME InputInv, over = "no", down # <<>>
    PROVE  LET m == Head(down)
               w == Tail(down)
               n == IF m.t \in Turned THEN After(m) ELSE client.turn
           IN /\ m \in FromGpu /\ w \in Seq(FromGpu) /\ items.reset # "acked" /\ gpu.on
              /\ Flowing \/ Answered
              /\ m.t = "ready" => Flowing /\ client.phase # "ready"
              /\ m.t = "ack" => Answered /\ w = <<>> /\ m.e = items.epoch + 1
              /\ m.t \in Turned => m.k = client.turn /\ m.e = items.epoch /\ client.phase = "ready"
              /\ m.t # "ack" /\ Flowing =>
                   Path(up, w, items.epoch, n, gpu.turn, client.reset = "sent", FALSE)
              /\ m.t # "ack" /\ Answered =>
                   w # <<>> /\ w[Len(w)].t = "ack" /\ DownFits(w, items.epoch, FALSE)
                   /\ Chained(w, n)
<1> DEFINE m == Head(down)
           w == Tail(down)
           n == IF m.t \in Turned THEN After(m) ELSE client.turn
           early == Flowing /\ client.phase # "ready"
<1>1. /\ down \in Seq(FromGpu) /\ client.turn \in Nat /\ items.epoch \in Nat /\ gpu.turn \in Nat
      /\ Linked
    BY Values
<1>2. Flowing \/ Answered
    BY Values DEF Acked
<1>3. gpu.on
    BY <1>1, Values DEF Linked
<1>4. items.reset # "acked"
    BY <1>1, <1>2, Values DEF Flowing, Answered, Linked
<1>5. early \in BOOLEAN
    OBVIOUS
<1>6. Answered => client.phase = "ready"
    BY <1>1 DEF Answered, Linked
<1>7. DownFits(down, items.epoch, early) /\ Chained(down, client.turn)
    <2>1. CASE Flowing
        <3>1. (gpu.on /\ client.phase # "ready") = early
            BY <1>3, <2>1
        <3> QED  BY <2>1, <3>1 DEF Flowing, Path
    <2>2. CASE Answered
        <3>1. early = FALSE
            BY <1>6, <2>2
        <3> QED  BY <2>2, <3>1 DEF Answered
    <2> QED  BY <1>2, <2>1, <2>2
<1> HIDE DEF early
<1>8. /\ w \in Seq(FromGpu) /\ m \in FromGpu
      /\ DownFits(w, items.epoch, FALSE) /\ (NoAck(down) => NoAck(w))
      /\ m.t = "ready" <=> early
      /\ m.t = "ack" => w = <<>> /\ m.e = items.epoch + 1
      /\ m.t \in Turned => m.k = client.turn /\ m.e = items.epoch
      /\ m.t # "ack" => Chained(w, n)
      /\ m.t # "ack" =>
            \A last \in Nat : Reaches(down, client.turn, last) => Reaches(w, n, last)
      /\ w # <<>> => w[Len(w)] = down[Len(down)]
    BY <1>1, <1>5, <1>7, DownTail
<1>9. ASSUME w = <<>>
      PROVE  down[Len(down)] = m
    <2>1. Len(Tail(down)) = Len(down) - 1 /\ Len(down) \in Nat /\ Head(down) = down[1]
        BY <1>1
    <2>2. Len(down) = 1
        BY <1>9, <2>1
    <2> QED  BY <2>1, <2>2
<1>10. ASSUME m.t = "ack"
       PROVE  Answered
    <2>1. ASSUME Flowing
          PROVE  FALSE
        <3>1. NoAck(down) /\ 1 \in 1..Len(down) /\ down[1] = m
            BY <1>1, <2>1 DEF Flowing, Path
        <3> HIDE DEF m
        <3> QED  BY <1>10, <3>1 DEF NoAck
    <2> QED  BY <1>2, <2>1
<1>11. m.t \in Turned => m.t # "ready" /\ m.t # "ack"
    BY DEF Turned
<1> HIDE DEF m, w, n
<1>12. ASSUME m.t # "ack", Flowing
       PROVE  Path(up, w, items.epoch, n, gpu.turn, client.reset = "sent", FALSE)
    BY <1>1, <1>8, <1>12 DEF Flowing, Path
<1>13. ASSUME m.t # "ack", Answered
       PROVE  w # <<>> /\ w[Len(w)].t = "ack" /\ DownFits(w, items.epoch, FALSE) /\ Chained(w, n)
    BY <1>8, <1>9, <1>13 DEF Answered
<1>14. m.t \in Turned => client.phase = "ready"
    BY <1>2, <1>6, <1>8, <1>11 DEF early
<1>15. m.t = "ready" => Flowing /\ client.phase # "ready"
    BY <1>8 DEF early
<1> QED  BY <1>2, <1>3, <1>4, <1>8, <1>10, <1>12, <1>13, <1>14, <1>15 DEF m, w, n

\* A message of the turns it brings in passes on to the items.
LEMMA StepTranscript ==
    ASSUME InputInv, Transcript
    PROVE  InputInv'
<1> DEFINE m == Head(down)
           key == <<m.e, m.k>>
<1>1. PICK t \in {"partial", "final"} :
        /\ Receives(t)
        /\ IF media.muted
           THEN /\ media' = IF t = "final" THEN [media EXCEPT !.discarded = @ \cup {key}] ELSE media
                /\ UNCHANGED <<items, over>>
           ELSE /\ media' = [media EXCEPT !.seen = @ \cup {key},
                                          !.final = IF t = "final" THEN @ \cup {key} ELSE @]
                /\ Hears(m, t = "final", key \notin media.seen)
        /\ UNCHANGED <<client, gpu, up, done, told>>
    BY DEF Transcript
<1>2. over = "no" /\ down # <<>> /\ m.t = t /\ down' = Tail(down)
    BY <1>1 DEF Receives
<1>3. /\ t \in Turned /\ t # "ack" /\ t # "turn_end"
    BY DEF Turned
<1>4. /\ m \in FromGpu /\ Tail(down) \in Seq(FromGpu) /\ items.reset # "acked" /\ gpu.on
      /\ Flowing \/ Answered
      /\ m.k = client.turn /\ m.e = items.epoch /\ client.phase = "ready"
      /\ Flowing =>
           Path(up, Tail(down), items.epoch, client.turn, gpu.turn, client.reset = "sent", FALSE)
      /\ Answered =>
           LET w == Tail(down)
           IN w # <<>> /\ w[Len(w)].t = "ack" /\ DownFits(w, items.epoch, FALSE)
              /\ Chained(w, client.turn)
    <2>1. After(m) = m.k
        BY <1>2, <1>3 DEF After
    <2> QED  BY <1>2, <1>3, <2>1, OnItsWayBack
<1>5. /\ key = <<items.epoch, client.turn>> /\ key \in Nat \X Nat
    BY <1>2, <1>4, Values
<1>6. /\ items \in InputBooks /\ media \in TurnsHeard /\ Linked
      /\ Accounted(items, client.turn, media.seen, media.final)
      /\ items.reset # "no" => items.cur = NoItem
      /\ items.last = told.id
    BY <1>2, <1>4, Values DEF InputTypeOK
<1> HIDE DEF key, m
<1>7. /\ over' = over /\ items' \in InputBooks /\ items'.epoch = items.epoch
      /\ items'.reset = items.reset /\ items'.last = items.last
      /\ media' \in TurnsHeard /\ media'.pending = media.pending
      /\ Accounted(items', client.turn, media'.seen, media'.final)
    <2>1. CASE media.muted
        <3>1. over' = over /\ items' = items
            BY <1>1, <2>1
        <3>2. media.discarded \cup {key} \in SUBSET (Nat \X Nat)
            BY <1>2, <1>5, Values
        <3>3. /\ media' \in TurnsHeard /\ media'.seen = media.seen /\ media'.final = media.final
              /\ media'.pending = media.pending
            <4>1. CASE t = "final"
                <5>1. media' = [media EXCEPT !.discarded = media.discarded \cup {key}]
                    BY <1>1, <2>1, <4>1
                <5> QED  BY <1>6, <3>2, <5>1, ZenonT(30) DEF TurnsHeard
            <4>2. CASE t # "final"
                BY <1>1, <1>6, <2>1, <4>2
            <4> QED  BY <4>1, <4>2
        <3> QED  BY <1>6, <3>1, <3>3
    <2>2. CASE ~media.muted
        <3> DEFINE fin == t = "final"
                   f == IF fin THEN media.final \cup {key} ELSE media.final
        <3>1. /\ media' = [media EXCEPT !.seen = media.seen \cup {key}, !.final = f]
              /\ Hears(m, fin, key \notin media.seen)
            BY <1>1, <2>2
        <3>2. fin \in BOOLEAN
            OBVIOUS
        <3>3. media.seen \cup {key} \in SUBSET (Nat \X Nat) /\ f \in SUBSET (Nat \X Nat)
            BY <1>2, <1>5, Values
        <3>4. Hears(m, fin, <<m.e, m.k>> \notin media.seen)
            BY <3>1 DEF key
        <3> HIDE DEF fin, f
        <3>5. /\ over' = over
              /\ items' \in InputBooks /\ items'.epoch = items.epoch
              /\ items'.reset = items.reset /\ items'.last = items.last
              /\ Accounted(items', client.turn, media.seen \cup {<<items.epoch, client.turn>>},
                           IF fin THEN media.final \cup {<<items.epoch, client.turn>>}
                                  ELSE media.final)
            <4>1. client.turn \in Nat
                BY <1>2, Values
            <4>2. /\ items \in InputBooks /\ items.reset # "acked"
                  /\ Accounted(items, client.turn, media.seen, media.final)
                  /\ m \in FromGpu /\ m.e = items.epoch /\ m.k = client.turn
                BY <1>4, <1>6
            <4> QED  BY <3>2, <3>4, <4>1, <4>2, HearsFits
        <3>6. Accounted(items', client.turn, media.seen \cup {key}, f)
            BY <1>5, <3>5 DEF f
        <3>7. /\ media' \in TurnsHeard /\ media'.seen = media.seen \cup {key} /\ media'.final = f
              /\ media'.pending = media.pending
            BY <1>6, <3>1, <3>3, ZenonT(30) DEF TurnsHeard
        <3> QED  BY <3>5, <3>6, <3>7
    <2> QED  BY <2>1, <2>2
<1>8. UNCHANGED <<client, gpu, up, done, told>>
    BY <1>1
<1>9. InputTypeOK' /\ NothingIsStray'
    BY <1>2, <1>4, <1>7, <1>8 DEF InputInv, InputTypeOK, NothingIsStray
<1>10. items'.reset # "no" => items'.cur = NoItem
    BY <1>7 DEF Accounted
<1>11. Linked'
    BY <1>4, <1>6, <1>7, <1>8 DEF Linked
<1>12. (Flowing \/ Answered)'
    <2>1. (gpu.on /\ client.phase # "ready")' = FALSE
        BY <1>4, <1>8
    <2>2. CASE Flowing
        BY <1>2, <1>4, <1>7, <1>8, <2>1, <2>2 DEF Flowing
    <2>3. CASE Answered
        BY <1>2, <1>4, <1>7, <1>8, <2>3 DEF Answered
    <2> QED  BY <1>4, <2>2, <2>3
<1> QED  BY <1>4, <1>6, <1>7, <1>8, <1>9, <1>10, <1>11, <1>12 DEF InputInv, InOrderNow

\* The end of a turn: what is on its way is of the next.
LEMMA StepTurnEnd ==
    ASSUME InputInv, TurnEnd
    PROVE  /\ InputInv'
           /\ told' # told => told'.prev = told.id /\ told'.heard
<1> DEFINE m == Head(down)
           key == <<m.e, m.k>>
           Without(keys) == keys \ {key}
           committed == key \in (media.seen \cap media.final) \ media.discarded
           c == TurnKnown(client, m)
           ct == client.turn
<1>1. /\ over = "no" /\ down # <<>> /\ m.t = "turn_end" /\ down' = Tail(down)
      /\ media' = [media EXCEPT !.seen = Without(@), !.final = Without(@),
                                !.discarded = Without(@), !.pending = FALSE]
      /\ Closes(m, committed, c)
      /\ gpu' = gpu /\ done' = done
    BY ZenonT(30) DEF TurnEnd, Receives
<1>2. /\ m \in FromGpu /\ Tail(down) \in Seq(FromGpu) /\ items.reset # "acked" /\ gpu.on
      /\ Flowing \/ Answered
      /\ m.k = ct /\ m.e = items.epoch /\ client.phase = "ready"
      /\ Flowing =>
           Path(up, Tail(down), items.epoch, ct + 1, gpu.turn, client.reset = "sent", FALSE)
      /\ Answered =>
           LET w == Tail(down)
           IN w # <<>> /\ w[Len(w)].t = "ack" /\ DownFits(w, items.epoch, FALSE)
              /\ Chained(w, ct + 1)
    <2>1. "turn_end" \in Turned /\ "turn_end" # "ack"
        BY DEF Turned
    <2>2. After(m) = m.k + 1
        BY <1>1 DEF After
    <2> QED  BY <1>1, <2>1, <2>2, OnItsWayBack
<1>3. key = <<items.epoch, ct>> /\ ct \in Nat /\ ct + 1 \in Nat
    BY <1>1, <1>2, Values
<1>4. /\ items \in InputBooks /\ media \in TurnsHeard /\ client \in GpuClient /\ told \in Item
      /\ Linked /\ Accounted(items, ct, media.seen, media.final) /\ items.last = told.id
      /\ gpu \in GpuInput
    BY <1>1, <1>2, Values DEF InputTypeOK
<1>5. committed \in BOOLEAN /\ (committed => key \in media.seen /\ key \in media.final)
    OBVIOUS
<1>6. Without(media.seen) = {} /\ Without(media.final) = {}
    BY <1>3, <1>4 DEF Accounted
<1>7. /\ Without(media.seen) \in SUBSET (Nat \X Nat) /\ Without(media.final) \in SUBSET (Nat \X Nat)
      /\ Without(media.discarded) \in SUBSET (Nat \X Nat)
    BY <1>1, Values
<1> HIDE DEF key, committed, m, Without
<1>8. /\ media' \in TurnsHeard /\ media'.seen = {} /\ media'.final = {} /\ media'.pending = FALSE
    <2>1. /\ media' \in TurnsHeard /\ media'.seen = Without(media.seen)
          /\ media'.final = Without(media.final) /\ media'.pending = FALSE
        BY <1>1, <1>4, <1>7, ZenonT(30) DEF TurnsHeard
    <2> QED  BY <1>6, <2>1
<1>9. /\ c \in GpuClient /\ c.phase = client.phase /\ c.queue = client.queue
      /\ c.reset = client.reset /\ c.epoch = client.epoch /\ c.turn = ct + 1
    <2>1. client.epoch = items.epoch
        BY <1>2, <1>4 DEF Linked
    <2>2. c = [client EXCEPT !.turn = ct + 1]
        BY <1>2, <2>1 DEF TurnKnown
    <2> HIDE DEF c
    <2> QED  BY <1>3, <1>4, <2>2, ZenonT(30) DEF GpuClient
<1> HIDE DEF c
<1>10. gpu.turn \in Nat /\ up \in Seq(ToGpu)
    BY <1>1, Values
<1>11. items.reset = "no" => c.reset = "no" /\ UpFits(up, items.epoch, gpu.turn, FALSE)
    <2> SUFFICES ASSUME items.reset = "no"
                 PROVE  c.reset = "no" /\ UpFits(up, items.epoch, gpu.turn, FALSE)
        OBVIOUS
    <2>1. client.reset = "no"
        BY <1>1, <1>4, Values DEF Linked
    <2>2. Flowing
        BY <1>2, <2>1 DEF Answered
    <2> QED  BY <1>9, <2>1, <2>2 DEF Flowing, Path
<1>12. Queued(c.queue, items.epoch) /\ c.queue = <<>>
    BY <1>2, <1>4, <1>9 DEF Linked
<1>13. committed => <<items.epoch, ct>> \in media.seen /\ <<items.epoch, ct>> \in media.final
    BY <1>3, <1>5
<1>14. committed \in BOOLEAN
    BY <1>5
<1>15. /\ over' \in {"no", "unheard"}
       /\ items' \in InputBooks /\ items'.epoch = items.epoch /\ items'.reset = items.reset
       /\ over' = "no" => Accounted(items', ct + 1, {}, {})
       /\ told' \in Item /\ items'.last = told'.id
       /\ told' # told => told'.prev = told.id /\ told'.heard
       /\ client' \in GpuClient /\ client'.phase = c.phase /\ client'.reset = c.reset
       /\ client'.epoch = c.epoch /\ client'.turn = c.turn
       /\ Queued(client'.queue, items.epoch)
       /\ c.phase = "ready" \/ items.reset # "no" => client'.queue = c.queue
       /\ up' \in Seq(ToGpu)
       /\ items.reset = "no" => UpFits(up', items.epoch, gpu.turn, FALSE)
       /\ items.reset # "no" => up' = up
    <2>1. /\ items \in InputBooks /\ items.reset # "acked" /\ ct \in Nat
          /\ Accounted(items, ct, media.seen, media.final)
          /\ over = "no" /\ told \in Item /\ items.last = told.id
          /\ c \in GpuClient /\ m \in FromGpu /\ m.e = items.epoch /\ m.k = ct
          /\ Closes(m, committed, c)
        BY <1>1, <1>2, <1>3, <1>4, <1>9
    <2>2. Queued(c.queue, items.epoch)
        BY <1>12
    <2> QED  BY <1>10, <1>11, <1>13, <1>14, <2>1, <2>2, ClosesFits
<1>16. InputTypeOK' /\ NothingIsStray'
    BY <1>1, <1>2, <1>4, <1>8, <1>15 DEF InputInv, InputTypeOK, NothingIsStray
<1>17. Linked'
    BY <1>1, <1>2, <1>4, <1>8, <1>9, <1>12, <1>15 DEF Linked
<1>18. (Flowing \/ Answered)'
    <2>1. (gpu.on /\ client.phase # "ready")' = FALSE
        BY <1>1, <1>2, <1>9, <1>15
    <2>2. CASE Flowing
        <3>1. Path(up, down', items.epoch, ct + 1, gpu.turn, client.reset = "sent", FALSE)
            BY <1>1, <1>2, <2>2
        <3>2. Path(up', down', items.epoch, ct + 1, gpu.turn, client.reset = "sent", FALSE)
            <4>1. CASE items.reset = "no"
                <5>1. client.reset = "no"
                    BY <1>1, <1>4, <4>1, Values DEF Linked
                <5> QED  BY <1>15, <3>1, <4>1, <5>1 DEF Path
            <4>2. CASE items.reset # "no"
                BY <1>15, <3>1, <4>2
            <4> QED  BY <4>1, <4>2
        <3> QED  BY <1>1, <1>2, <1>9, <1>15, <2>1, <2>2, <3>2 DEF Flowing
    <2>3. CASE Answered
        <3>1. items.reset # "no"
            BY <1>4, <2>3 DEF Answered, Linked
        <3>2. up' = <<>> /\ client'.reset = "sent" /\ client'.turn = ct + 1
            BY <1>9, <1>15, <2>3, <3>1 DEF Answered
        <3> QED  BY <1>1, <1>2, <1>15, <2>3, <3>2 DEF Answered
    <2> QED  BY <1>2, <2>2, <2>3
<1>19. over' = "no" => InOrderNow'
    <2> SUFFICES ASSUME over' = "no" PROVE InOrderNow'
        OBVIOUS
    <2>1. Accounted(items', client'.turn, media'.seen, media'.final)
        BY <1>8, <1>9, <1>15
    <2>2. items'.reset # "no" => items'.cur = NoItem
        BY <2>1 DEF Accounted
    <2> QED  BY <1>15, <1>17, <1>18, <2>1, <2>2 DEF InOrderNow
<1> QED  BY <1>15, <1>16, <1>19 DEF InputInv

LEMMA StepResetAck ==
    ASSUME InputInv, ResetAck
    PROVE  InputInv'
<1>1. /\ over = "no" /\ down # <<>> /\ Head(down).t = "ack" /\ down' = Tail(down)
      /\ client.reset = "sent"
      /\ client' = [client EXCEPT !.reset = "no", !.epoch = items.epoch + 1, !.turn = 0,
                                  !.queue = <<>>]
      /\ up' = up \o client.queue /\ items' = [items EXCEPT !.reset = "acked"]
      /\ UNCHANGED <<media, gpu, done, over, told>>
    BY DEF ResetAck, Receives
<1>2. Answered /\ down' = <<>> /\ items.reset # "acked" /\ gpu.on
    BY <1>1, OnItsWayBack
<1>3. /\ items \in InputBooks /\ client \in GpuClient /\ Linked /\ items.epoch + 1 \in Nat
      /\ Accounted(items, client.turn, media.seen, media.final) /\ items.last = told.id
    BY <1>1, <1>2, Values, SMTT(30) DEF InputTypeOK
<1>4. items.reset = "waits" /\ client.queue = <<>> /\ client.phase = "ready" /\ items.cur = NoItem
      /\ ~media.pending
    BY <1>1, <1>3, Values DEF Linked
<1>5. up' = <<>>
    BY <1>1, <1>2, <1>4 DEF Answered
<1>6. /\ client' \in GpuClient /\ client'.phase = "ready" /\ client'.queue = <<>>
      /\ client'.reset = "no" /\ client'.epoch = items.epoch + 1 /\ client'.turn = 0
    <2>1. <<>> \in Seq(ToGpu) /\ 0 \in Nat
        OBVIOUS
    <2> QED  BY <1>1, <1>3, <1>4, <2>1, ZenonT(30) DEF GpuClient
<1>7. /\ items' \in InputBooks /\ items'.epoch = items.epoch /\ items'.cur = items.cur
      /\ items'.reset = "acked" /\ items'.last = items.last
    BY <1>1, <1>3, ZenonT(30) DEF InputBooks
<1>8. up' \in Seq(ToGpu) /\ down' \in Seq(FromGpu)
    BY <1>2, <1>5
<1>9. InputTypeOK' /\ NothingIsStray'
    BY <1>1, <1>6, <1>7, <1>8 DEF InputInv, InputTypeOK, NothingIsStray
<1>10. Linked'
    BY <1>1, <1>2, <1>3, <1>4, <1>6, <1>7 DEF Linked, Queued
<1>11. \A key \in media.seen \cup media.final : key[1] = items.epoch
    BY <1>3 DEF Accounted
<1>12. Acked'
    BY <1>1, <1>2, <1>5, <1>6, <1>7, <1>11 DEF Answered, Acked
<1> QED  BY <1>1, <1>3, <1>4, <1>7, <1>9, <1>10, <1>12 DEF InputInv, InOrderNow

\* What waited for the session to be ready leaves: a reset, or the audio queued.
LEMMA StepReady ==
    ASSUME InputInv, Ready
    PROVE  InputInv'
<1> DEFINE m == Message("reset", items.epoch, 0)
<1>1. /\ over = "no" /\ down # <<>> /\ Head(down).t = "ready" /\ down' = Tail(down)
      /\ UNCHANGED <<items, media, gpu, done, over, told>>
      /\ \/ /\ client.reset = "held"
            /\ client' = [client EXCEPT !.phase = "ready", !.reset = "sent"]
            /\ up' = Append(up, m)
         \/ /\ client.reset = "no"
            /\ client' = [client EXCEPT !.phase = "ready", !.queue = <<>>]
            /\ up' = up \o client.queue
    BY DEF Ready, Receives, SendsReset
<1>2. /\ Flowing /\ client.phase # "ready" /\ items.reset # "acked" /\ gpu.on
      /\ Tail(down) \in Seq(FromGpu)
      /\ Path(up, Tail(down), items.epoch, client.turn, gpu.turn, client.reset = "sent", FALSE)
    <2>1. "ready" \notin Turned
        BY DEF Turned
    <2> QED  BY <1>1, <2>1, OnItsWayBack
<1>3. /\ client \in GpuClient /\ Linked
      /\ Accounted(items, client.turn, media.seen, media.final) /\ items.last = told.id
      /\ up \in Seq(ToGpu) /\ client.queue \in Seq(ToGpu) /\ items.epoch \in Nat
      /\ gpu.turn \in Nat
      /\ items.reset # "no" => items.cur = NoItem
    BY <1>1, <1>2, Values DEF InputTypeOK
<1>4. m \in ToGpu /\ m.t = "reset" /\ m.e = items.epoch
    BY <1>3, MessageTo
<1> HIDE DEF m
<1>5. UpFits(up, items.epoch, gpu.turn, FALSE)
    BY <1>1, <1>2 DEF Path
<1>6. /\ client' \in GpuClient /\ client'.phase = "ready" /\ client'.queue = <<>>
      /\ client'.epoch = client.epoch /\ client'.turn = client.turn
      /\ client.reset = "held" => client'.reset = "sent"
      /\ client.reset = "no" => client'.reset = "no"
    <2>1. CASE /\ client.reset = "held"
               /\ client' = [client EXCEPT !.phase = "ready", !.reset = "sent"]
        <3>1. client.queue = <<>>
            BY <1>3, <2>1 DEF Linked
        <3>2. /\ client' \in GpuClient /\ client'.phase = "ready" /\ client'.queue = client.queue
              /\ client'.epoch = client.epoch /\ client'.turn = client.turn
              /\ client'.reset = "sent"
            BY <1>3, <2>1, ZenonT(30) DEF GpuClient
        <3> QED  BY <2>1, <3>1, <3>2
    <2>2. CASE client.reset = "no" /\ client' = [client EXCEPT !.phase = "ready", !.queue = <<>>]
        <3>1. <<>> \in Seq(ToGpu)
            OBVIOUS
        <3>2. /\ client' \in GpuClient /\ client'.phase = "ready" /\ client'.queue = <<>>
              /\ client'.epoch = client.epoch /\ client'.turn = client.turn
              /\ client'.reset = client.reset
            BY <1>3, <2>2, <3>1, ZenonT(30) DEF GpuClient
        <3> QED  BY <2>2, <3>2
    <2> QED  BY <1>1, <2>1, <2>2
<1>7. /\ up' \in Seq(ToGpu)
      /\ UpFits(up', items.epoch, gpu.turn, client'.reset = "sent")
      /\ client'.reset = "sent" => up' # <<>> /\ up'[Len(up')].t = "reset"
    <2>1. CASE client.reset = "held" /\ up' = Append(up, m)
        <3> DEFINE w == Append(up, m)
        <3>1. w \in Seq(ToGpu) /\ w # <<>> /\ w[Len(w)] = m
            BY <1>3, <1>4
        <3>2. UpFits(w, items.epoch, gpu.turn, TRUE)
            BY <1>3, <1>4, <1>5, UpAppend
        <3> HIDE DEF w
        <3>3. up' = w
            BY <2>1 DEF w
        <3> QED  BY <1>4, <1>6, <2>1, <3>1, <3>2, <3>3
    <2>2. CASE client.reset = "no" /\ up' = up \o client.queue
        <3>1. \A i \in 1..Len(client.queue) :
                client.queue[i].t = "audio" /\ client.queue[i].e = items.epoch
            BY <1>3 DEF Linked, Queued
        <3>2. UpFits(up \o client.queue, items.epoch, gpu.turn, FALSE)
            BY <1>3, <1>5, <3>1, UpConcat
        <3>3. up \o client.queue \in Seq(ToGpu)
            BY <1>3
        <3> QED  BY <1>6, <2>2, <3>2, <3>3
    <2> QED  BY <1>1, <2>1, <2>2
<1>8. InputTypeOK' /\ NothingIsStray'
    BY <1>1, <1>2, <1>6, <1>7 DEF InputInv, InputTypeOK, NothingIsStray
<1>9. Linked'
    BY <1>1, <1>2, <1>3, <1>6 DEF Linked, Queued
<1>10. Flowing'
    <2>1. (gpu.on /\ client.phase # "ready")' = FALSE
        BY <1>6
    <2>2. Path(up', Tail(down), items.epoch, client.turn, gpu.turn, client'.reset = "sent", FALSE)
        BY <1>2, <1>7 DEF Path
    <2> QED  BY <1>1, <1>2, <1>6, <2>1, <2>2 DEF Flowing
<1> QED  BY <1>1, <1>2, <1>3, <1>6, <1>8, <1>9, <1>10 DEF InputInv, InOrderNow

-----------------------------------------------------------------------------
(* The theorems                                                            *)

LEMMA InvStep ==
    ASSUME InputInv, [InputNext]_inputVars
    PROVE  /\ InputInv'
           /\ told' # told => told'.prev = told.id /\ told'.heard
<1>1. CASE Answers
    <2>1. InputInv'
        BY <1>1, StepAccept, StepRefuse, StepRedial DEF Answers
    <2>2. told' = told
        BY <1>1 DEF Answers, Accept, Refuse, Redial
    <2> QED  BY <2>1, <2>2
<1>2. CASE Gpu
    <2>1. InputInv'
        BY <1>2, StepHearsAudio, StepHearsFlush, StepHearsBareFlush, StepHearsReset DEF Gpu
    <2>2. told' = told
        BY <1>2 DEF Gpu, HearsAudio, HearsFlush, HearsBareFlush, HearsReset
    <2> QED  BY <2>1, <2>2
<1>3. CASE TurnEnd
    BY <1>3, StepTurnEnd
<1>4. CASE Transcript \/ ResetAck \/ Ready \/ ClearDone
    <2>1. InputInv'
        BY <1>4, StepTranscript, StepResetAck, StepReady, StepClearDone
    <2>2. told' = told
        BY <1>4 DEF Transcript, ResetAck, Ready, ClearDone
    <2> QED  BY <2>1, <2>2
<1>5. CASE Candidate \/ Mute \/ WatchdogFlush
    <2>1. InputInv'
        BY <1>5, StepAppendAudio, StepCommit, StepClear, StepMute, StepWatchdogFlush DEF Candidate
    <2>2. told' = told
        BY <1>5 DEF Candidate, AppendAudio, Commit, Clear, Mute, WatchdogFlush
    <2> QED  BY <2>1, <2>2
<1>6. CASE UNCHANGED inputVars
    <2>1. /\ items' = items /\ media' = media /\ client' = client /\ gpu' = gpu /\ up' = up
          /\ down' = down /\ done' = done /\ over' = over /\ told' = told
        BY <1>6 DEF inputVars
    <2>2. InputTypeOK' /\ NothingIsStray'
        BY <2>1 DEF InputInv, InputTypeOK, NothingIsStray
    <2>3. ASSUME over = "no"
          PROVE  InOrderNow'
        <3>1. Linked'
            BY <2>1, <2>3, Values DEF Linked
        <3>2. (Flowing \/ Answered \/ Acked)'
            BY <2>1, <2>3, Values DEF Flowing, Answered, Acked
        <3> QED  BY <2>1, <2>3, <3>1, <3>2, Values DEF InOrderNow
    <2> QED  BY <2>1, <2>2, <2>3 DEF InputInv
<1> QED  BY <1>1, <1>2, <1>3, <1>4, <1>5, <1>6 DEF InputNext, Bridge

\* Every behaviour of the speech input keeps the invariant above.
THEOREM InputInvariant == InputSpec => []InputInv
<1>1. InputInit => InputInv
    BY InvInit
<1>2. InputInv /\ [InputNext]_inputVars => InputInv'
    BY InvStep
<1> QED  BY <1>1, <1>2, PTL DEF InputSpec

\* The three accounts of a clear, the items and the sockets keep their types.
THEOREM InputIsTyped == InputSpec => []InputTypeOK
<1>1. InputInv => InputTypeOK
    BY DEF InputInv
<1> QED  BY <1>1, InputInvariant, PTL

\* Nothing out of order is refused by the GPU, and no turn it reports is of another
\* epoch or heard without an item to hold it.
THEOREM SpeechIsNotStray == InputSpec => []NothingIsStray
<1>1. InputInv => NothingIsStray
    BY DEF InputInv
<1> QED  BY <1>1, InputInvariant, PTL

\* An item the client is told is committed follows the one told before, and was heard
\* to its end.
THEOREM TheConversationIsOrdered == InputSpec => ConversationIsOrdered
<1>1. InputInv /\ [InputNext]_inputVars =>
        [told' # told => told'.prev = told.id /\ told'.heard]_inputVars
    BY InvStep
<1> QED  BY <1>1, InputInvariant, PTL DEF InputSpec, ConversationIsOrdered
=============================================================================
