---------------------------- MODULE OrderedWriter ----------------------------
(****************************************************************************)
(* The serialized writer of one Realtime API connection                     *)
(* (bridge/src/openai-realtime/ordered-writer.ts).                          *)
(*                                                                          *)
(* Frames wait in a FIFO queue; one at a time is with the socket until its  *)
(* send callback.  Crossing the high-water mark pauses the producer through *)
(* onFlowChange, draining to the low-water mark resumes it, exceeding the   *)
(* hard limit, an error or a frame too old fails the writer for good.       *)
(*                                                                          *)
(* The writer's observers run inside its calls, and the producer's answer   *)
(* to "resume" is to enqueue what it held back: enqueue is re-entered.  The *)
(* synchronous code is therefore modelled in small steps, with the          *)
(* continuation of the running calls in `todo`; events of the event loop    *)
(* (socket callbacks, the timer, other callers) need todo = <<>>.           *)
(****************************************************************************)
EXTENDS Integers, Sequences

CONSTANTS
    Count,          \* number of frames given to the writer, in order
    Ends,           \* Ends[f]: the bytes of the first f frames together
    Low, High, Hard,\* limits.lowWaterBytes, highWaterBytes, hardLimitBytes
    MaxAge,         \* limits.maxQueueAgeMs, in ticks of the clock
    Faults          \* subset of {"throw", "error", "observer", "silent", "closed"}

Frames == 1..Count
None == 0           \* no frame
Bytes(f) == Ends[f] - Ends[f - 1]   \* frame.bytes

ASSUME WriterAssumption ==
    /\ Count \in Nat
    /\ Ends \in [0..Count -> Nat]
    /\ Ends[0] = 0
    /\ \A f, g \in 0..Count : f < g => Ends[f] < Ends[g]
    /\ Low \in Nat /\ High \in Nat /\ Hard \in Nat
    /\ Low < High /\ High < Hard
    /\ MaxAge \in Nat \ {0}
    /\ Faults \subseteq {"throw", "error", "observer", "silent", "closed"}

VARIABLES
    given,          \* number of enqueue() calls so far: frame f is the f-th
    queue,          \* queue
    queuedBytes,    \* queuedBytes
    inFlight,       \* inFlight, None for null
    paused,         \* paused
    failed,         \* failed
    timer,          \* stallTimer: ticks left, NoTimer when not armed
    age,            \* ticks since enqueuedAtMs, up to MaxAge
    handoffs,       \* frames whose onHandoff ran, in order
    failures,       \* number of onFailure calls for each frame
    wire,           \* frames with the socket whose send callback is due
    flushed,        \* the first of them has left the socket's buffer
    buffered,       \* socket.bufferedAmount
    todo            \* what the synchronous code has still to run

writerVars == <<given, queue, queuedBytes, inFlight, paused, failed, handoffs, failures>>
clockVars == <<timer, age>>
socketVars == <<wire, flushed, buffered>>
vars == <<writerVars, clockVars, socketVars, todo>>

NoTimer == -1
Steps == {"pump", "flow", "stall", "flow_observer", "handoff_observer"}
Observers == {"flow_observer", "handoff_observer"}

Idle == todo = <<>>
At(step) == todo # <<>> /\ Head(todo) = step
InQueue(f) == \E i \in DOMAIN queue : queue[i] = f
Pending(f) == f = inFlight \/ InQueue(f)
HandedOff(f) == \E i \in DOMAIN handoffs : handoffs[i] = f
Resident == queuedBytes + buffered

Init ==
    /\ given = 0 /\ queue = <<>> /\ queuedBytes = 0 /\ inFlight = None
    /\ paused = FALSE /\ failed = FALSE
    /\ timer = NoTimer /\ age = [f \in Frames |-> 0]
    /\ handoffs = <<>> /\ failures = [f \in Frames |-> 0]
    /\ wire = <<>> /\ flushed = FALSE /\ buffered = 0
    /\ todo = <<>>

----------------------------------------------------------------------------
(* Failing *)

\* notifyDeliveryFailure for every frame of a set.
Notify(told) == [f \in Frames |-> failures[f] + IF f \in told THEN 1 ELSE 0]

PendingFrames == {f \in Frames : Pending(f)}
QueuedFrames == {f \in Frames : InQueue(f)}

\* Mutant of Fail: the frames still queued are neither told nor dropped.
FailLeavesQueue(pending, own) ==
    /\ failures' = Notify((pending \cup own) \ QueuedFrames)
    /\ failed' = TRUE
    /\ timer' = NoTimer
    /\ inFlight' = None
    /\ UNCHANGED <<queue, queuedBytes, handoffs, age>>

\* fail(): tells the frames it finds pending, and `own`, which its caller told
\* just before; a second call does nothing.  onFailure of the writer can only
\* enqueue, which the failed writer rejects at once.
Fail(pending, own) ==
    /\ IF failed
       THEN /\ failures' = Notify(own)
            /\ UNCHANGED <<failed, timer, queue, queuedBytes, inFlight>>
       ELSE /\ failed' = TRUE
            /\ timer' = NoTimer
            /\ inFlight' = None
            /\ queue' = <<>>
            /\ queuedBytes' = 0
            /\ failures' = Notify(pending \cup own)
    /\ UNCHANGED <<handoffs, age>>

\* The adapter fails the writer when its socket closes (handleSocketClose).
SocketClosed ==
    /\ Idle
    /\ "closed" \in Faults
    /\ ~failed
    /\ Fail(PendingFrames, {})
    /\ UNCHANGED <<given, paused, socketVars, todo>>

----------------------------------------------------------------------------
(* enqueue(), from the event loop or from an observer *)

MayEnqueue ==
    /\ given < Count
    /\ Idle \/ (\E o \in Observers : At(o))

EnqueueRejected ==
    /\ MayEnqueue
    /\ failed
    /\ given' = given + 1
    /\ failures' = Notify({given + 1})
    /\ UNCHANGED <<queue, queuedBytes, inFlight, paused, failed, handoffs, clockVars, socketVars, todo>>

\* Mutant of Overruns: the bytes the socket still buffers are not counted.
OverrunsQueueOnly(f) == queuedBytes + Bytes(f) > Hard

Overruns(f) == Resident + Bytes(f) > Hard

EnqueueOverruns ==
    /\ MayEnqueue
    /\ ~failed
    /\ Overruns(given + 1)
    /\ given' = given + 1
    /\ Fail(PendingFrames \cup {given + 1}, {})
    /\ UNCHANGED <<paused, socketVars, todo>>

EnqueueAccepted ==
    /\ MayEnqueue
    /\ ~failed
    /\ ~Overruns(given + 1)
    /\ given' = given + 1
    /\ queue' = Append(queue, given + 1)
    /\ queuedBytes' = queuedBytes + Bytes(given + 1)
    /\ todo' = <<"pump", "flow", "stall">> \o todo
    /\ UNCHANGED <<inFlight, paused, failed, handoffs, failures, clockVars, socketVars>>

----------------------------------------------------------------------------
(* pump() *)

MayPump == ~failed /\ inFlight = None /\ queue # <<>>

PumpNothing ==
    /\ At("pump")
    /\ ~MayPump
    /\ todo' = Tail(todo)
    /\ UNCHANGED <<writerVars, clockVars, socketVars>>

PumpSends ==
    /\ At("pump")
    /\ MayPump
    /\ LET f == Head(queue) IN
        /\ queue' = Tail(queue)
        /\ queuedBytes' = queuedBytes - Bytes(f)
        /\ inFlight' = f
        /\ wire' = Append(wire, f)
        /\ buffered' = buffered + Bytes(f)
    /\ todo' = Tail(todo)
    /\ UNCHANGED <<given, paused, failed, handoffs, failures, clockVars, flushed>>

\* socket.send() throws: the frame is told, then the rest of the queue.
PumpThrows ==
    /\ At("pump")
    /\ MayPump
    /\ "throw" \in Faults
    /\ Fail(QueuedFrames \ {Head(queue)}, {Head(queue)})
    /\ todo' = Tail(todo)
    /\ UNCHANGED <<given, paused, socketVars>>

----------------------------------------------------------------------------
(* updateFlow() and its observer *)

Pauses == ~paused /\ Resident >= High

\* Mutant of Resumes: strictly below the low-water mark, which may be zero.
ResumesBelowLow == paused /\ Resident < Low

Resumes == paused /\ Resident <= Low

FlowChanges ==
    /\ At("flow")
    /\ Pauses \/ Resumes
    /\ paused' = Pauses
    /\ todo' = <<"flow_observer">> \o Tail(todo)
    /\ UNCHANGED <<given, queue, queuedBytes, inFlight, failed, handoffs, failures, clockVars, socketVars>>

FlowStays ==
    /\ At("flow")
    /\ ~Pauses /\ ~Resumes
    /\ todo' = Tail(todo)
    /\ UNCHANGED <<writerVars, clockVars, socketVars>>

FlowObserverReturns ==
    /\ At("flow_observer")
    /\ todo' = Tail(todo)
    /\ UNCHANGED <<writerVars, clockVars, socketVars>>

FlowObserverThrows ==
    /\ At("flow_observer")
    /\ "observer" \in Faults
    /\ Fail(PendingFrames, {})
    /\ todo' = Tail(todo)
    /\ UNCHANGED <<given, paused, socketVars>>

----------------------------------------------------------------------------
(* The send callback *)

SocketFlushes ==
    /\ Idle
    /\ wire # <<>> /\ ~flushed
    /\ flushed' = TRUE
    /\ buffered' = buffered - Bytes(Head(wire))
    /\ UNCHANGED <<writerVars, clockVars, wire, todo>>

\* The socket gives up the first frame it holds, flushed or not.
Releases ==
    /\ wire' = Tail(wire)
    /\ flushed' = FALSE
    /\ buffered' = IF flushed THEN buffered ELSE buffered - Bytes(Head(wire))

\* Of a frame the writer no longer waits for.
CallbackIgnored ==
    /\ Idle
    /\ wire # <<>>
    /\ failed \/ inFlight # Head(wire)
    /\ Releases
    /\ UNCHANGED <<writerVars, clockVars, todo>>

CallbackSucceeds ==
    /\ Idle
    /\ wire # <<>> /\ flushed
    /\ ~failed /\ inFlight = Head(wire)
    /\ Releases
    /\ inFlight' = None
    /\ handoffs' = Append(handoffs, Head(wire))
    /\ todo' = <<"handoff_observer", "pump", "flow", "stall">>
    /\ UNCHANGED <<given, queue, queuedBytes, paused, failed, failures, clockVars>>

CallbackFails ==
    /\ Idle
    /\ wire # <<>>
    /\ "error" \in Faults
    /\ ~failed /\ inFlight = Head(wire)
    /\ Releases
    /\ Fail(QueuedFrames, {Head(wire)})
    /\ UNCHANGED <<given, paused, todo>>

HandoffObserverReturns ==
    /\ At("handoff_observer")
    /\ todo' = Tail(todo)
    /\ UNCHANGED <<writerVars, clockVars, socketVars>>

\* The callback returns early: no pump, no flow update, no new stall check.
HandoffObserverThrows ==
    /\ At("handoff_observer")
    /\ "observer" \in Faults
    /\ Fail(PendingFrames, {})
    /\ todo' = <<>>
    /\ UNCHANGED <<given, paused, socketVars>>

----------------------------------------------------------------------------
(* scheduleStallCheck() and its timer *)

\* Mutant of Oldest: the frame that is with the socket is not watched.
OldestQueued == IF queue # <<>> THEN Head(queue) ELSE None

Oldest ==
    IF inFlight # None THEN inFlight
    ELSE IF queue # <<>> THEN Head(queue)
    ELSE None

Delay(f) == IF MaxAge - age[f] > 1 THEN MaxAge - age[f] ELSE 1

StallCheck ==
    /\ At("stall")
    /\ timer' = IF failed \/ Oldest = None THEN NoTimer ELSE Delay(Oldest)
    /\ todo' = Tail(todo)
    /\ UNCHANGED <<writerVars, age, socketVars>>

\* The timer's clock is not Date.now(): it may run one tick early.  It is armed
\* only while some frame is pending, so it always finds one.
TimerDue == Idle /\ timer \in {0, 1}

TimerFindsStall ==
    /\ TimerDue
    /\ Oldest # None
    /\ age[Oldest] >= MaxAge
    /\ Fail(PendingFrames, {})
    /\ UNCHANGED <<given, paused, socketVars, todo>>

TimerFindsYounger ==
    /\ TimerDue
    /\ Oldest # None
    /\ age[Oldest] < MaxAge
    /\ timer' = Delay(Oldest)
    /\ UNCHANGED <<writerVars, age, socketVars, todo>>

Tick ==
    /\ Idle
    /\ timer # NoTimer
    /\ age' = [f \in Frames |-> IF Pending(f) /\ age[f] < MaxAge THEN age[f] + 1 ELSE age[f]]
    /\ timer' = IF timer > 0 THEN timer - 1 ELSE 0
    /\ UNCHANGED <<writerVars, socketVars, todo>>

----------------------------------------------------------------------------

Enqueue == EnqueueRejected \/ EnqueueOverruns \/ EnqueueAccepted
Pump == PumpNothing \/ PumpSends \/ PumpThrows
Flow == FlowChanges \/ FlowStays
ObserverEnds == FlowObserverReturns \/ FlowObserverThrows \/ HandoffObserverReturns \/ HandoffObserverThrows
Callback == CallbackIgnored \/ CallbackSucceeds \/ CallbackFails
Timer == TimerFindsStall \/ TimerFindsYounger
Code == Pump \/ Flow \/ ObserverEnds \/ StallCheck

Next == Enqueue \/ Code \/ SocketFlushes \/ Callback \/ Timer \/ Tick \/ SocketClosed

Spec == Init /\ [][Next]_vars

\* Synchronous code runs to its end, time passes, a timer that is due fires.
\* Unless the socket may fall silent, it flushes and calls back.
Fairness ==
    /\ WF_vars(Code)
    /\ WF_vars(Tick)
    /\ WF_vars(Timer)
    /\ "silent" \notin Faults => WF_vars(SocketFlushes) /\ WF_vars(Callback)

FairSpec == Spec /\ Fairness

----------------------------------------------------------------------------
(* Properties *)

TypeOK ==
    /\ given \in 0..Count
    /\ queue \in Seq(Frames)
    /\ queuedBytes \in Nat
    /\ inFlight \in Frames \cup {None}
    /\ paused \in BOOLEAN /\ failed \in BOOLEAN
    /\ timer \in {NoTimer} \cup 0..MaxAge
    /\ age \in [Frames -> 0..MaxAge]
    /\ handoffs \in Seq(Frames)
    /\ failures \in [Frames -> Nat]
    /\ wire \in Seq(Frames)
    /\ flushed \in BOOLEAN
    /\ buffered \in Nat
    /\ todo \in Seq(Steps)

\* Every frame given is pending, or was told of its fate exactly once: never
\* both handed off and failed, never failed twice, never forgotten, whatever
\* fails while observers run (ordered-writer.ts, fail and the send callback).
ToldOnce ==
    \A f \in Frames :
        (IF Pending(f) THEN 1 ELSE 0) + (IF HandedOff(f) THEN 1 ELSE 0) + failures[f]
            = IF f <= given THEN 1 ELSE 0

\* Frames are handed off in the order of their enqueue() calls without a gap,
\* also when an observer of one frame enqueues another.
HandoffsInOrder == \A i \in DOMAIN handoffs : handoffs[i] = i

\* A working writer never holds more than the hard limit, the bytes with the
\* socket included.
ResidentBounded == ~failed => Resident <= Hard

\* Between events, a working writer that paused its producer waits for a send
\* callback that will look at the flow again, and one that did not pause it is
\* below the high-water mark.
FlowTracksResidency ==
    (Idle /\ ~failed) => /\ paused => inFlight # None
                         /\ ~paused => Resident < High

\* Every frame is handed off or failed in the end, also when the socket falls
\* silent: the stall timer sees to it.
EveryFrameSettled ==
    \A f \in Frames : [](f <= given => <>(~Pending(f)))

\* The abstract connection this writer implements.
Outcome ==
    [f \in Frames |->
        IF f > given THEN "new"
        ELSE IF Pending(f) THEN "pending"
        ELSE IF HandedOff(f) THEN "delivered"
        ELSE "failed"]

Delivery == INSTANCE OrderedDelivery WITH outcome <- Outcome, broken <- failed

\* The writer implements OrderedDelivery: every step gives, delivers or breaks
\* as the abstract connection may, or changes nothing of it.
ImplementsDelivery == Delivery!Spec
=============================================================================
