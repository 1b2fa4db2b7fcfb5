----------------------------- MODULE PlaybackProofs -----------------------------
(***************************************************************************)
(* Proofs about the audio of the interviewer: what becomes of the          *)
(* acknowledgements at the bridge (PlaybackSettlement), and the exchange   *)
(* of the engine, the media session and the player (VoiceLoop), for any    *)
(* turns, any legal configuration and any bound.                           *)
(*                                                                         *)
(* VoiceLoop in short.  LoopInv of VoiceInvariant says how the parts fit   *)
(* together.  The server is a record that the handlers pass on, so what    *)
(* they call has a lemma each about records: Fits before, Fits after.  The *)
(* player has one about its state for each frame and for a chunk that is   *)
(* made sound or dropped.  The last part puts the steps of LoopNext        *)
(* together from these.                                                    *)
(***************************************************************************)
EXTENDS PlaybackSettlement, VoiceInvariant, FiniteSetTheorems,
        SequenceTheorems, TLAPS

-------------------------------------------------------------------------------
(* PlaybackSettlement                                                        *)

\* The strengthening: a turn is tracked only before it is settled, its input
\* instant is noted while it awaits its acknowledgement, and its deadline is the
\* one its estimate calls for.
TrackedIsUnsettled ==
    \A t \in Turns : turns[t] # Untracked => settledOnce[t] = None

InputWhileAwaiting ==
    \A t \in Turns : inputAt[t] # Never =>
        /\ turns[t].phase = "awaiting_ack"
        /\ turns[t].endAt <= inputAt[t]

EndsBefore ==
    \A t \in Turns : turns[t].endAt <= now

DeadlineFollowsEstimate ==
    \A t \in Turns :
        LET r == turns[t]
        IN  r.phase = "awaiting_ack" /\ r.estimatedEnd <= r.endAt + MaxLead
                => r.deadline >= r.estimatedEnd + Grace

IInv ==
    /\ TypeOK
    /\ TrackedIsUnsettled
    /\ InputWhileAwaiting
    /\ EndsBefore
    /\ DeadlineFollowsEstimate
    /\ SettledOnceEach
    /\ NoEarlyTimeout
    /\ TakeoverAfterGrace

-------------------------------------------------------------------------------

\* A pending turn is tracked and unsettled.
LEMMA PendingIsFresh ==
    ASSUME TypeOK, TrackedIsUnsettled, NEW t \in Turns,
           turns[t].phase \in Pending
    PROVE  turns[t] # Untracked /\ turns[t] \in Tracked /\ settledOnce[t] = None
<1>1. turns[t] # Untracked
  BY DEF Pending, Untracked, None
<1> QED BY <1>1 DEF TypeOK, TrackedIsUnsettled

\* The deadline endTurn computes for an estimate within the lead leaves the
\* whole grace: MaxWait covers the lead and the grace.
LEMMA DeadlineCoversEstimate ==
    ASSUME TimeoutConfig, now \in Nat, NEW e \in Nat
    PROVE  /\ Deadline(e) \in Nat
           /\ e <= now + MaxLead => Deadline(e) >= e + Grace
BY DEF TimeoutConfig, Deadline, SmallerOf, LargerOf

\* finish keeps the invariant and settled outcomes, whichever pending turns are
\* settled and for whichever reason.
LEMMA FinishStep ==
    ASSUME TimeoutConfig, IInv, NEW ts \in SUBSET Turns,
           \A t \in ts : turns[t].phase \in Pending,
           NEW outcome \in Outcomes, NEW fallback \in Fallbacks \cup {None},
           fallback = "estimated_complete" => ts \subseteq Due,
           fallback = "user_takeover_abort" => ts \subseteq GraceOver,
           Finish(ts, outcome, fallback), now' = now
    PROVE  /\ IInv'
           /\ \A t \in Turns : PhaseOf(t) \in Outcomes => PhaseOf(t)' = PhaseOf(t)
<1>1. \A t \in ts : turns[t] # Untracked /\ turns[t] \in Tracked /\ settledOnce[t] = None
  BY PendingIsFresh DEF IInv
<1> DEFINE settlement(t) == [count |-> settlements[t].count + 1,
                             fallback |-> fallback,
                             at |-> now,
                             endAt |-> turns[t].endAt,
                             estimatedEnd |-> turns[t].estimatedEnd,
                             inputAt |-> inputAt[t]]
<1>2. /\ settledOnce' = [t \in Turns |-> IF t \in ts THEN outcome
                                         ELSE settledOnce[t]]
      /\ settlements' = [t \in Turns |-> IF t \in ts THEN settlement(t)
                                         ELSE settlements[t]]
      /\ turns' = [t \in Turns |-> IF t \in ts THEN Untracked ELSE turns[t]]
      /\ inputAt' = [t \in Turns |-> IF t \in ts THEN Never ELSE inputAt[t]]
  <2> DEFINE fresh == {t \in ts : settledOnce[t] = None}
  <2>1. fresh = ts
    BY <1>1
  <2>2. /\ settledOnce' = [t \in Turns |-> IF t \in fresh THEN outcome
                                           ELSE settledOnce[t]]
        /\ settlements' = [t \in Turns |-> IF t \in fresh THEN settlement(t)
                                           ELSE settlements[t]]
        /\ turns' = [t \in Turns |->
                        IF t \in fresh THEN Untracked
                        ELSE IF t \in ts THEN [turns[t] EXCEPT !.phase = outcome]
                        ELSE turns[t]]
        /\ inputAt' = [t \in Turns |-> IF t \in ts THEN Never ELSE inputAt[t]]
    BY DEF Finish
  <2> HIDE DEF fresh, settlement
  <2> QED BY <2>1, <2>2
<1>3. \A t \in ts : settlement(t) \in
         [count : Nat, fallback : Fallbacks \cup {None},
          at : Instants \cup {Never}, endAt : Instants \cup {Never},
          estimatedEnd : Estimates \cup {Never}, inputAt : Instants \cup {Never}]
  <2> SUFFICES ASSUME NEW t \in ts PROVE settlement(t) \in
         [count : Nat, fallback : Fallbacks \cup {None},
          at : Instants \cup {Never}, endAt : Instants \cup {Never},
          estimatedEnd : Estimates \cup {Never}, inputAt : Instants \cup {Never}]
    OBVIOUS
  <2>1. settlements[t].count \in Nat /\ now \in Instants
        /\ inputAt[t] \in Instants \cup {Never}
    BY DEF IInv, TypeOK
  <2>2. turns[t].endAt \in Instants \cup {Never}
        /\ turns[t].estimatedEnd \in Estimates \cup {Never}
    BY <1>1 DEF Tracked
  <2> QED BY <2>1, <2>2
<1> HIDE DEF settlement
<1>4. TypeOK'
  BY <1>2, <1>3 DEF IInv, TypeOK
<1>5. TrackedIsUnsettled'
  BY <1>2 DEF IInv, TypeOK, TrackedIsUnsettled
<1>6. InputWhileAwaiting'
  BY <1>2 DEF IInv, TypeOK, InputWhileAwaiting
<1>7. DeadlineFollowsEstimate'
  BY <1>2 DEF IInv, TypeOK, DeadlineFollowsEstimate, Untracked, None
<1>8. SettledOnceEach'
  <2> SUFFICES ASSUME NEW t \in Turns
               PROVE  settlements'[t].count = IF settledOnce'[t] = None THEN 0 ELSE 1
    BY DEF SettledOnceEach
  <2>1. CASE t \in ts
    <3>1. settlements[t].count = 0
      BY <1>1, <2>1 DEF IInv, SettledOnceEach
    <3>2. settlements'[t].count = 1
      BY <1>2, <2>1, <3>1 DEF settlement
    <3> QED BY <1>2, <2>1, <3>2 DEF Outcomes, None
  <2>2. CASE t \notin ts
    BY <1>2, <2>2 DEF IInv, SettledOnceEach
  <2> QED BY <2>1, <2>2
<1>9. NoEarlyTimeout'
  <2> SUFFICES ASSUME NEW t \in Turns,
                      settlements'[t].fallback = "estimated_complete",
                      settlements'[t].estimatedEnd <= settlements'[t].endAt + MaxLead
               PROVE  settlements'[t].at >= settlements'[t].estimatedEnd + Grace
    BY DEF NoEarlyTimeout
  <2>1. CASE t \in ts
    <3>1. settlements'[t] = settlement(t)
      BY <1>2, <2>1
    <3>2. /\ fallback = "estimated_complete"
          /\ turns[t].estimatedEnd <= turns[t].endAt + MaxLead
      BY <3>1 DEF settlement
    <3>3. turns[t].phase = "awaiting_ack" /\ now >= turns[t].deadline
      BY <2>1, <3>2 DEF Due
    <3>4. turns[t].deadline >= turns[t].estimatedEnd + Grace
      BY <3>2, <3>3 DEF IInv, DeadlineFollowsEstimate
    <3>5. turns[t].deadline \in Int /\ turns[t].estimatedEnd \in Int /\ now \in Int
      BY <1>1, <2>1 DEF TimeoutConfig, IInv, TypeOK, Tracked, Instants, Estimates, Never
    <3>6. now >= turns[t].estimatedEnd + Grace
      BY <3>3, <3>4, <3>5 DEF TimeoutConfig
    <3> QED BY <3>1, <3>6 DEF settlement
  <2>2. CASE t \notin ts
    BY <1>2, <2>2 DEF IInv, NoEarlyTimeout
  <2> QED BY <2>1, <2>2
<1>10. TakeoverAfterGrace'
  <2> SUFFICES ASSUME NEW t \in Turns,
                      settlements'[t].fallback = "user_takeover_abort"
               PROVE  /\ settlements'[t].inputAt # Never
                      /\ settlements'[t].inputAt >= settlements'[t].endAt
                      /\ settlements'[t].at >= settlements'[t].inputAt + InputGrace
    BY DEF TakeoverAfterGrace
  <2>1. CASE t \in ts
    <3>1. settlements'[t] = settlement(t)
      BY <1>2, <2>1
    <3>2. fallback = "user_takeover_abort"
      BY <3>1 DEF settlement
    <3>3. inputAt[t] # Never /\ now - inputAt[t] >= InputGrace
      BY <2>1, <3>2 DEF GraceOver
    <3>4. turns[t].endAt <= inputAt[t]
      BY <3>3 DEF IInv, InputWhileAwaiting
    <3>5. turns[t].endAt \in Int /\ inputAt[t] \in Int /\ now \in Int
      BY <1>1, <2>1 DEF TimeoutConfig, IInv, TypeOK, Tracked, Instants, Never
    <3>6. inputAt[t] >= turns[t].endAt /\ now >= inputAt[t] + InputGrace
      BY <3>3, <3>4, <3>5 DEF TimeoutConfig
    <3> QED BY <3>1, <3>3, <3>6 DEF settlement
  <2>2. CASE t \notin ts
    BY <1>2, <2>2 DEF IInv, TakeoverAfterGrace
  <2> QED BY <2>1, <2>2
<1>11. \A t \in Turns : PhaseOf(t) \in Outcomes => PhaseOf(t)' = PhaseOf(t)
  <2> SUFFICES ASSUME NEW t \in Turns, PhaseOf(t) \in Outcomes
               PROVE  PhaseOf(t)' = PhaseOf(t)
    OBVIOUS
  <2>1. t \notin ts
    BY <1>1 DEF PhaseOf, Tracked, Pending, Outcomes
  <2> QED BY <1>2, <2>1 DEF PhaseOf
<1>12. EndsBefore'
  <2>1. now \in Nat
    BY DEF TimeoutConfig, IInv, TypeOK, Instants
  <2> QED BY <1>2, <2>1 DEF IInv, EndsBefore, Untracked, Never
<1> QED BY <1>4, <1>5, <1>6, <1>7, <1>8, <1>9, <1>10, <1>11, <1>12 DEF IInv

-------------------------------------------------------------------------------
LEMMA InitInvariant == ASSUME TimeoutConfig PROVE Init => IInv
<1> SUFFICES ASSUME Init PROVE IInv
  OBVIOUS
<1>1. TypeOK
  BY DEF TimeoutConfig, Init, TypeOK, Unsettled, Instants
<1> QED BY <1>1 DEF Init, IInv, TrackedIsUnsettled, InputWhileAwaiting,
                    EndsBefore, DeadlineFollowsEstimate, SettledOnceEach,
                    NoEarlyTimeout, TakeoverAfterGrace, Untracked, Unsettled, None, Never

\* Every step keeps the invariant, and keeps the outcome of a settled turn.
LEMMA StepInvariant ==
    ASSUME TimeoutConfig, IInv, [Next]_vars
    PROVE  /\ IInv'
           /\ \A t \in Turns : PhaseOf(t) \in Outcomes => PhaseOf(t)' = PhaseOf(t)
<1> USE DEF IInv
<1>1. ASSUME NEW t \in Turns, BeginTurn(t)
      PROVE  /\ IInv'
             /\ \A u \in Turns : PhaseOf(u) \in Outcomes => PhaseOf(u)' = PhaseOf(u)
  <2>1. turns' = [turns EXCEPT ![t] = [Untracked EXCEPT !.phase = "streaming"]]
    BY <1>1 DEF BeginTurn, TypeOK
  <2>2. [Untracked EXCEPT !.phase = "streaming"] \in Tracked
    BY DEF Untracked, Tracked
  <2>3. TypeOK'
    BY <1>1, <2>1, <2>2 DEF BeginTurn, TypeOK
  <2>4. settledOnce[t] = None /\ UNCHANGED <<settledOnce, inputAt, settlements, now>>
    BY <1>1 DEF BeginTurn
  <2>5. TrackedIsUnsettled'
    BY <2>1, <2>4 DEF TypeOK, TrackedIsUnsettled
  <2>6. inputAt[t] = Never
    BY <1>1 DEF BeginTurn, InputWhileAwaiting, Untracked, None
  <2>7. InputWhileAwaiting'
    BY <2>1, <2>4, <2>6 DEF TypeOK, InputWhileAwaiting
  <2>8. DeadlineFollowsEstimate'
    <3>1. turns'[t].phase = "streaming"
      BY <2>1 DEF TypeOK, Untracked
    <3> QED BY <2>1, <3>1 DEF TypeOK, DeadlineFollowsEstimate
  <2>9. SettledOnceEach' /\ NoEarlyTimeout' /\ TakeoverAfterGrace'
    BY <2>4 DEF SettledOnceEach, NoEarlyTimeout, TakeoverAfterGrace
  <2>10. \A u \in Turns : PhaseOf(u) \in Outcomes => PhaseOf(u)' = PhaseOf(u)
    <3>1. turns[t] = Untracked
      BY <1>1 DEF BeginTurn
    <3>2. \A u \in Turns : u # t => turns'[u] = turns[u]
      BY <2>1 DEF TypeOK
    <3>3. PhaseOf(t) \notin Outcomes
      BY <2>4, <3>1 DEF PhaseOf, Outcomes, None
    <3> QED BY <2>4, <3>2, <3>3 DEF PhaseOf
  <2>11. EndsBefore'
    BY <2>1, <2>4 DEF TimeoutConfig, TypeOK, EndsBefore, Untracked, Never, Instants
  <2> QED BY <2>11, <2>3, <2>5, <2>7, <2>8, <2>9, <2>10
<1>2. ASSUME NEW t \in Turns, NEW e \in Estimates, EndTurn(t, e)
      PROVE  /\ IInv'
             /\ \A u \in Turns : PhaseOf(u) \in Outcomes => PhaseOf(u)' = PhaseOf(u)
  <2> DEFINE ended == [phase |-> "awaiting_ack", endAt |-> now,
                       estimatedEnd |-> e, deadline |-> Deadline(e)]
  <2>1. /\ turns' = [turns EXCEPT ![t] = ended]
        /\ UNCHANGED <<settledOnce, inputAt, settlements, now>>
        /\ turns[t].phase = "streaming"
    BY <1>2 DEF EndTurn
  <2>2. now \in Nat /\ e \in Nat
    BY DEF TimeoutConfig, TypeOK, Instants, Estimates
  <2>3. ended \in Tracked
    BY <2>2, DeadlineCoversEstimate DEF TypeOK, Tracked
  <2>4. TypeOK'
    BY <2>1, <2>3 DEF TypeOK
  <2>5. turns[t] # Untracked /\ settledOnce[t] = None
    BY <2>1, PendingIsFresh DEF Pending
  <2>6. TrackedIsUnsettled'
    BY <2>1, <2>5 DEF TypeOK, TrackedIsUnsettled
  <2>7. inputAt[t] = Never
    BY <2>1 DEF InputWhileAwaiting
  <2>8. InputWhileAwaiting'
    BY <2>1, <2>7 DEF TypeOK, InputWhileAwaiting
  <2>9. DeadlineFollowsEstimate'
    <3>1. ended.estimatedEnd <= ended.endAt + MaxLead
             => ended.deadline >= ended.estimatedEnd + Grace
      BY <2>2, DeadlineCoversEstimate
    <3> HIDE DEF ended
    <3> QED BY <2>1, <3>1 DEF TypeOK, DeadlineFollowsEstimate
  <2>10. SettledOnceEach' /\ NoEarlyTimeout' /\ TakeoverAfterGrace'
    BY <2>1 DEF SettledOnceEach, NoEarlyTimeout, TakeoverAfterGrace
  <2>11. \A u \in Turns : PhaseOf(u) \in Outcomes => PhaseOf(u)' = PhaseOf(u)
    BY <2>1, <2>5 DEF TypeOK, PhaseOf, Untracked, Outcomes
  <2>12. EndsBefore'
    BY <2>1, <2>2 DEF TypeOK, EndsBefore
  <2> QED BY <2>4, <2>6, <2>8, <2>9, <2>10, <2>11, <2>12
<1>3. ASSUME NEW t \in Turns, NEW kind \in {"complete", "aborted"}, OnAck(t, kind)
      PROVE  /\ IInv'
             /\ \A u \in Turns : PhaseOf(u) \in Outcomes => PhaseOf(u)' = PhaseOf(u)
  <2>1. Finish({t}, kind, None) /\ now' = now /\ turns[t].phase \in Pending
    BY <1>3 DEF OnAck
  <2>2. kind \in Outcomes
    BY DEF Outcomes
  <2> QED BY ONLY TimeoutConfig, IInv, <2>1, <2>2, FinishStep DEF None
<1>4. ASSUME NEW t \in Turns, OnUplinkBargeIn(t)
      PROVE  /\ IInv'
             /\ \A u \in Turns : PhaseOf(u) \in Outcomes => PhaseOf(u)' = PhaseOf(u)
  <2>1. Finish({t}, "aborted", None) /\ now' = now /\ turns[t].phase \in Pending
    BY <1>4 DEF OnUplinkBargeIn
  <2>2. "aborted" \in Outcomes
    BY DEF Outcomes
  <2> QED BY ONLY TimeoutConfig, IInv, <2>1, <2>2, FinishStep DEF None
<1>5. ASSUME NEW t \in Turns, NoteUserInputDuringAwait(t)
      PROVE  /\ IInv'
             /\ \A u \in Turns : PhaseOf(u) \in Outcomes => PhaseOf(u)' = PhaseOf(u)
  <2>1. /\ inputAt' = [inputAt EXCEPT ![t] = now]
        /\ UNCHANGED <<turns, settledOnce, settlements, now>>
        /\ turns[t].phase = "awaiting_ack"
    BY <1>5 DEF NoteUserInputDuringAwait
  <2>2. TypeOK'
    BY <2>1 DEF TypeOK
  <2>3. turns[t].endAt <= now
    BY <2>1 DEF EndsBefore
  <2>4. InputWhileAwaiting'
    BY <2>1, <2>3 DEF TypeOK, InputWhileAwaiting
  <2>5. /\ TrackedIsUnsettled' /\ DeadlineFollowsEstimate' /\ EndsBefore'
        /\ SettledOnceEach' /\ NoEarlyTimeout' /\ TakeoverAfterGrace'
    BY <2>1 DEF TrackedIsUnsettled, DeadlineFollowsEstimate, SettledOnceEach,
                NoEarlyTimeout, TakeoverAfterGrace, EndsBefore
  <2>6. \A u \in Turns : PhaseOf(u) \in Outcomes => PhaseOf(u)' = PhaseOf(u)
    BY <2>1 DEF PhaseOf
  <2> QED BY <2>2, <2>4, <2>5, <2>6
<1>6. CASE CheckTimeouts
  <2>1. Finish(Due, "timed_out", "estimated_complete") /\ now' = now
    BY <1>6 DEF CheckTimeouts
  <2>2. Due \subseteq Turns /\ \A t \in Due : turns[t].phase \in Pending
    BY DEF Due, Pending
  <2>3. "timed_out" \in Outcomes /\ "estimated_complete" \in Fallbacks
    BY DEF Outcomes, Fallbacks
  <2> QED BY ONLY TimeoutConfig, IInv, <2>1, <2>2, <2>3, FinishStep
<1>7. CASE CheckInputGrace
  <2>1. Finish(GraceOver, "timed_out", "user_takeover_abort") /\ now' = now
    BY <1>7 DEF CheckInputGrace
  <2>2. GraceOver \subseteq Turns /\ \A t \in GraceOver : turns[t].phase \in Pending
    BY DEF GraceOver, Pending
  <2>3. "timed_out" \in Outcomes /\ "user_takeover_abort" \in Fallbacks
    BY DEF Outcomes, Fallbacks
  <2> QED BY ONLY TimeoutConfig, IInv, <2>1, <2>2, <2>3, FinishStep
<1>8. CASE Advance
  <2>1. now' = now + 1 /\ now < MaxClock
        /\ UNCHANGED <<turns, settledOnce, inputAt, settlements>>
    BY <1>8 DEF Advance
  <2>2. now' \in Instants
    BY <2>1 DEF TimeoutConfig, TypeOK, Instants
  <2>3. TypeOK'
    BY <2>1, <2>2 DEF TypeOK
  <2>4. /\ TrackedIsUnsettled' /\ InputWhileAwaiting' /\ DeadlineFollowsEstimate'
        /\ SettledOnceEach' /\ NoEarlyTimeout' /\ TakeoverAfterGrace'
    BY <2>1 DEF TrackedIsUnsettled, InputWhileAwaiting, DeadlineFollowsEstimate,
                SettledOnceEach, NoEarlyTimeout, TakeoverAfterGrace
  <2>5. EndsBefore'
    BY <2>1 DEF TimeoutConfig, TypeOK, EndsBefore, Instants, Tracked, Untracked, Never
  <2>6. \A u \in Turns : PhaseOf(u) \in Outcomes => PhaseOf(u)' = PhaseOf(u)
    BY <2>1 DEF PhaseOf
  <2> QED BY <2>3, <2>4, <2>5, <2>6
<1>9. CASE UNCHANGED vars
  BY <1>9 DEF vars, TypeOK, TrackedIsUnsettled, InputWhileAwaiting, EndsBefore,
              DeadlineFollowsEstimate, SettledOnceEach, NoEarlyTimeout,
              TakeoverAfterGrace, PhaseOf, Due
<1> QED BY <1>1, <1>2, <1>3, <1>4, <1>5, <1>6, <1>7, <1>8, <1>9 DEF Next

LEMMA Invariance == ASSUME TimeoutConfig PROVE Spec => []IInv
BY InitInvariant, StepInvariant, PTL DEF Spec

\* The types, for any number of turns and any configuration that
\* loadAckTimeoutConfig accepts.
THEOREM TypeCorrect == ASSUME TimeoutConfig PROVE Spec => []TypeOK
<1>1. IInv => TypeOK
  BY DEF IInv
<1> QED BY Invariance, <1>1, PTL

\* onSettle hears of a turn at most once, whatever races.
THEOREM SettlesOnce == ASSUME TimeoutConfig PROVE Spec => []SettledOnceEach
<1>1. IInv => SettledOnceEach
  BY DEF IInv
<1> QED BY Invariance, <1>1, PTL

\* The outcome of a turn never changes: acknowledgements that come late or
\* twice are ignored (onAck's duplicate and stale).
THEOREM OutcomesAreFinal == ASSUME TimeoutConfig PROVE Spec => OutcomeIsFinal
<1>1. IInv /\ [Next]_vars =>
        [\A t \in Turns : PhaseOf(t) \in Outcomes => PhaseOf(t)' = PhaseOf(t)]_vars
  BY StepInvariant
<1> QED BY Invariance, <1>1, PTL DEF Spec, OutcomeIsFinal

\* No legal configuration takes a turn for played before its estimate plus
\* grace: the reason for loadAckTimeoutConfig's relation between the limits.
THEOREM LegalPlaybackIsKept == ASSUME TimeoutConfig PROVE Spec => []NoEarlyTimeout
<1>1. IInv => NoEarlyTimeout
  BY DEF IInv
<1> QED BY Invariance, <1>1, PTL

\* A user takes a turn over only after the client's whole input grace.
THEOREM TakeoverWaits == ASSUME TimeoutConfig PROVE Spec => []TakeoverAfterGrace
<1>1. IInv => TakeoverAfterGrace
  BY DEF IInv
<1> QED BY Invariance, <1>1, PTL

-------------------------------------------------------------------------------
(* VoiceLoop: chunks of a turn among the frames                              *)

\* A count of chunks is a number, and zero when there are none.
LEMMA CountType ==
    ASSUME NEW d \in Seq(Frames), NEW t
    PROVE  /\ IsFiniteSet(ChunksIn(d, t))
           /\ Count(d, t) \in Nat
           /\ Count(d, t) = 0 <=> \A i \in 1..Len(d) : ~Chunk(d[i], t)
<1>1. IsFiniteSet(1..Len(d)) /\ ChunksIn(d, t) \subseteq 1..Len(d)
  BY FS_Interval DEF ChunksIn
<1>2. IsFiniteSet(ChunksIn(d, t))
  BY <1>1, FS_Subset
<1>3. Count(d, t) \in Nat
  BY <1>2, FS_CardinalityType DEF Count
<1>4. Count(d, t) = 0 <=> ChunksIn(d, t) = {}
  BY <1>2, FS_EmptySet DEF Count
<1>5. ChunksIn(d, t) = {} <=> \A i \in 1..Len(d) : ~Chunk(d[i], t)
  BY DEF ChunksIn
<1> QED BY <1>2, <1>3, <1>4, <1>5

\* Appending frames adds their chunks, and those of no other turn.
LEMMA CountAppended ==
    ASSUME NEW d \in Seq(Frames), NEW r \in Seq(Frames), NEW f, NEW n \in Nat,
           Appended(d, r, f, n), NEW t
    PROVE  Count(r, t) = Count(d, t) + IF Chunk(f, t) THEN n ELSE 0
<1> DEFINE new == (Len(d) + 1)..Len(r)
<1>1. Len(d) \in Nat /\ Len(r) = Len(d) + n /\ 1..Len(r) = 1..Len(d) \cup new
  BY DEF Appended
<1>2. \A i \in 1..Len(d) : i \notin new
  OBVIOUS
<1>3. \A i \in 1..Len(d) : r[i] = d[i]
  BY DEF Appended
<1>4. \A i \in new : r[i] = f
  BY DEF Appended
<1>5. IsFiniteSet(new) /\ Cardinality(new) = n
  <2>1. Len(d) + 1 \in Int /\ Len(r) \in Int
    BY <1>1
  <2>2. IsFiniteSet(new)
        /\ Cardinality(new) = IF Len(d) + 1 > Len(r) THEN 0
                              ELSE Len(r) - (Len(d) + 1) + 1
    BY <2>1, FS_Interval
  <2> QED BY <2>2, <1>1
<1>6. Count(d, t) \in Nat /\ IsFiniteSet(ChunksIn(d, t))
  BY CountType
<1> HIDE DEF new
<1>7. CASE Chunk(f, t)
  <2>1. ChunksIn(r, t) = ChunksIn(d, t) \cup new
    BY <1>1, <1>3, <1>4, <1>7 DEF ChunksIn
  <2>2. ChunksIn(d, t) \cap new = {}
    BY <1>2 DEF ChunksIn
  <2>3. Cardinality(ChunksIn(r, t)) =
            Cardinality(ChunksIn(d, t)) + Cardinality(new)
            - Cardinality(ChunksIn(d, t) \cap new)
    BY <2>1, <1>5, <1>6, FS_Union
  <2>4. Cardinality(ChunksIn(d, t) \cap new) = 0
    BY <2>2, FS_EmptySet
  <2> QED BY <2>3, <2>4, <1>5, <1>6, <1>7 DEF Count
<1>8. CASE ~Chunk(f, t)
  <2>1. ChunksIn(r, t) = ChunksIn(d, t)
    BY <1>1, <1>3, <1>4, <1>8 DEF ChunksIn
  <2> QED BY <2>1, <1>6, <1>8 DEF Count
<1> QED BY <1>7, <1>8

\* Taking the first frame takes its chunk.
LEMMA CountTail ==
    ASSUME NEW d \in Seq(Frames), d # <<>>, NEW t
    PROVE  Count(d, t) = Count(Tail(d), t) + IF Chunk(Head(d), t) THEN 1 ELSE 0
<1> DEFINE q == Tail(d)
           up == [i \in ChunksIn(q, t) |-> i + 1]
           rest == ChunksIn(d, t) \ {1}
<1>1. /\ q \in Seq(Frames) /\ Len(q) = Len(d) - 1 /\ Len(d) \in Nat \ {0}
      /\ \A i \in 1..Len(q) : q[i] = d[i + 1]
      /\ Head(d) = d[1]
  OBVIOUS
<1>2. IsFiniteSet(ChunksIn(d, t)) /\ IsFiniteSet(ChunksIn(q, t))
      /\ Count(d, t) \in Nat /\ Count(q, t) \in Nat
  BY <1>1, CountType
<1> HIDE DEF q
<1>3. up \in Bijection(ChunksIn(q, t), rest)
  <2>1. \A i \in ChunksIn(q, t) : i \in Nat /\ i + 1 \in rest
    BY <1>1 DEF ChunksIn
  <2>2. \A j \in rest : j - 1 \in ChunksIn(q, t) /\ (j - 1) + 1 = j
    BY <1>1 DEF ChunksIn
  <2>3. \A i, j \in ChunksIn(q, t) : up[i] = up[j] => i = j
    BY <2>1
  <2>4. up \in [ChunksIn(q, t) -> rest]
    BY <2>1
  <2>5. \A j \in rest : \E i \in ChunksIn(q, t) : up[i] = j
    BY <2>2
  <2> HIDE DEF up, rest
  <2> QED BY <2>3, <2>4, <2>5 DEF Bijection, Injection, Surjection, IsInjective
<1>4. Cardinality(rest) = Count(q, t)
  <2>1. ExistsBijection(ChunksIn(q, t), rest)
    BY <1>3 DEF ExistsBijection
  <2> HIDE DEF up, rest
  <2> QED BY <2>1, <1>2, FS_Bijection DEF Count
<1>5. 1 \in ChunksIn(d, t) <=> Chunk(Head(d), t)
  BY <1>1 DEF ChunksIn
<1>6. Cardinality(rest) = IF 1 \in ChunksIn(d, t) THEN Count(d, t) - 1
                          ELSE Count(d, t)
  BY <1>2, FS_RemoveElement DEF Count
<1> QED BY <1>2, <1>4, <1>5, <1>6 DEF q

-------------------------------------------------------------------------------
(* Frames that are about no turn                                             *)

\* What appending does to the frames of one kind and turn.
LEMMA HasAppended ==
    ASSUME NEW d \in Seq(Frames), NEW r \in Seq(Frames), NEW f, NEW n \in Nat,
           Appended(d, r, f, n), NEW kind, NEW t
    PROVE  Has(r, kind, t) <=>
              Has(d, kind, t) \/ (n > 0 /\ f.kind = kind /\ f.turn = t)
<1>1. \A i \in 1..Len(r) : \/ i \in 1..Len(d) /\ r[i] = d[i]
                           \/ i \in (Len(d) + 1)..Len(r) /\ r[i] = f /\ n > 0
  BY DEF Appended
<1>2. \A i \in 1..Len(d) : i \in 1..Len(r) /\ r[i] = d[i]
  BY DEF Appended
<1>3. n > 0 => Len(r) \in 1..Len(r) /\ r[Len(r)] = f
  BY DEF Appended
<1> QED BY <1>1, <1>2, <1>3 DEF Has

\* A frame about no turn keeps the order of the frames, ...
LEMMA WireOther ==
    ASSUME NEW d \in Seq(Frames), NEW r \in Seq(Frames), NEW f, NEW ts,
           Appended(d, r, f, 1), f.kind \in OtherKinds, WireFits(ts, d)
    PROVE  WireFits(ts, r)
<1>1. \A i \in 1..Len(r) : \/ i \in 1..Len(d) /\ r[i] = d[i]
                           \/ i = Len(d) + 1 /\ r[i].kind \notin TurnKinds
  BY DEF Appended, OtherKinds, TurnKinds
<1> QED BY <1>1 DEF WireFits, TurnKinds

\* ... what they mean to the player, ...
LEMMA FollowsOther ==
    ASSUME NEW d \in Seq(Frames), NEW r \in Seq(Frames), NEW f, NEW ts, NEW flow,
           Appended(d, r, f, 1), f.kind \in OtherKinds, Follows(ts, flow, d)
    PROVE  Follows(ts, flow, r)
<1>1. \A i \in 1..Len(r) : \/ i \in 1..Len(d) /\ r[i] = d[i]
                           \/ i = Len(d) + 1 /\ r[i].kind \notin TurnKinds
  BY DEF Appended, OtherKinds, TurnKinds
<1>2. \A t : \A kind \in TurnKinds : Has(r, kind, t) <=> Has(d, kind, t)
  BY HasAppended DEF OtherKinds, TurnKinds
<1> QED BY <1>1, <1>2 DEF Follows, TurnKinds

\* ... and the counts.
LEMMA CountsOther ==
    ASSUME NEW d \in Seq(Frames), NEW r \in Seq(Frames), NEW f, NEW ts,
           NEW unsent,
           Appended(d, r, f, 1), f.kind \in OtherKinds, CountsFit(ts, d, unsent)
    PROVE  CountsFit(ts, r, unsent)
<1>1. \A i \in 1..Len(r) : \/ i \in 1..Len(d) /\ r[i] = d[i]
                           \/ i = Len(d) + 1 /\ r[i].kind \notin TurnKinds
  BY DEF Appended, OtherKinds, TurnKinds
<1>2. \A t : \A kind \in TurnKinds : Has(r, kind, t) <=> Has(d, kind, t)
  BY HasAppended DEF OtherKinds, TurnKinds
<1>3. \A i \in 1..Len(d) : i \in 1..Len(r) /\ r[i] = d[i]
  BY DEF Appended
<1>4. SUFFICES ASSUME NEW t \in 1..Len(ts), Good(ts, t)
               PROVE  CountFits(ts, r, unsent, t)
  BY DEF CountsFit
<1>5. CountFits(ts, d, unsent, t)
  BY <1>4 DEF CountsFit
<1>6. ~Chunk(f, t)
  BY DEF Chunk, OtherKinds
<1>7. Count(d, t) \in Nat
  BY CountType
<1>8. Count(r, t) = Count(d, t)
  BY <1>6, <1>7, CountAppended
<1>9. \A i, j \in 1..Len(r) :
          r[i].kind = "start" /\ r[i].turn = t /\ Chunk(r[j], t) => i < j
  BY <1>1, <1>5 DEF CountFits, Chunk, TurnKinds
<1>10. Has(r, "start", t) \/ OpenIn(t) =>
          \A i \in 1..Len(r) : r[i].kind = "audio" /\ r[i].turn > t =>
              \E j \in 1..(i - 1) : r[j].kind = "end" /\ r[j].turn = t
  <2> SUFFICES ASSUME Has(r, "start", t) \/ OpenIn(t),
                      NEW i \in 1..Len(r), r[i].kind = "audio", r[i].turn > t
               PROVE  \E j \in 1..(i - 1) : r[j].kind = "end" /\ r[j].turn = t
    OBVIOUS
  <2>1. i \in 1..Len(d) /\ d[i].kind = "audio" /\ d[i].turn > t
    BY <1>1 DEF TurnKinds
  <2>2. PICK j \in 1..(i - 1) : d[j].kind = "end" /\ d[j].turn = t
    BY <2>1, <1>2, <1>5 DEF CountFits, TurnKinds
  <2> QED BY <2>1, <2>2, <1>3
<1> QED BY <1>2, <1>5, <1>8, <1>9, <1>10 DEF CountFits, TurnKinds

\* A turn before the last is good whatever becomes of the last.
LEMMA GoodBefore ==
    ASSUME NEW ts \in Seq(TurnStates), NEW us \in Seq(TurnStates),
           LastDiffers(ts, us), NEW t \in 1..Len(ts)
    PROVE  /\ Clean(us, t) <=> Clean(ts, t)
           /\ t # Len(ts) => (Good(us, t) <=> Good(ts, t)) /\ us[t] = ts[t]
<1>1. \A e \in 1..(t - 1) : us[e] = ts[e]
  BY DEF LastDiffers
<1>2. Clean(us, t) <=> Clean(ts, t)
  BY <1>1 DEF Clean
<1> QED BY <1>2 DEF Good, LastDiffers

\* The player has not had the end of a turn that ended and that it plays, or
\* is about to play.
LEMMA EndIsComing ==
    ASSUME PlayerFits, NEW ts \in Seq(TurnStates), Len(ts) <= MaxTurns,
           NEW d, NEW flow, WireFits(ts, d), Follows(ts, flow, d),
           NEW t \in 1..Len(ts), ts[t].done = "full",
           Has(d, "start", t) \/ OpenIn(t)
    PROVE  Has(d, "end", t)
<1>1. t \in AiTurns
  BY PlayerBounds DEF AiTurns
<1>2. ts[t].begun
  BY <1>1 DEF WireFits, Follows, Has, OpenIn, Known, InLedger, Begun
<1>3. Reported(t) \/ ClosedIn(t) \/ Has(d, "end", t)
  BY <1>2 DEF Follows
<1>4. CASE Has(d, "start", t)
  <2>1. ~Known(t)
    BY <1>1, <1>4 DEF Follows, Has
  <2> QED BY <2>1, <1>3 DEF Known, ClosedIn, InLedger
<1>5. CASE OpenIn(t)
  BY <1>5, <1>3 DEF PlayerFits, OpenIn, ClosedIn
<1> QED BY <1>4, <1>5

-------------------------------------------------------------------------------
(* Audio                                                                     *)

\* Audio of the last turn announced keeps the order of the frames, ...
LEMMA WireAudio ==
    ASSUME NEW d \in Seq(Frames), NEW r \in Seq(Frames), NEW t, NEW ts,
           Appended(d, r, Frame("audio", t, Nil), Len(r) - Len(d)),
           t \in 1..Len(ts), ts[t].done = "no",
           \A u \in 1..Len(ts) : ts[u].begun => u <= t,
           WireFits(ts, d)
    PROVE  WireFits(ts, r)
<1>1. \A i \in 1..Len(r) :
        \/ i \in 1..Len(d) /\ r[i] = d[i]
        \/ i > Len(d) /\ r[i].kind = "audio" /\ r[i].turn = t
  BY DEF Appended, Frame
<1>2. \A i \in 1..Len(d) : d[i].kind = "start" => d[i].turn <= t
  BY DEF WireFits, TurnKinds
<1>3. \A i \in 1..Len(d) : d[i].kind = "end" => d[i].turn # t
  BY DEF WireFits, TurnKinds
<1>4. Len(d) \in Nat /\ Len(r) \in Nat
  OBVIOUS
<1>5. \A i \in 1..Len(r) :
          /\ r[i].kind \in TurnKinds => r[i].turn \in 1..Len(ts)
          /\ r[i].kind \in {"start", "end"} => ts[r[i].turn].begun
          /\ r[i].kind = "end" => ts[r[i].turn].done = "full"
  BY <1>1 DEF WireFits, TurnKinds
<1>6. \A i, j \in 1..Len(r) : i < j /\ r[i].kind = "start" =>
          /\ r[j].kind = "start" => r[i].turn < r[j].turn
          /\ r[j].kind \in {"audio", "end"} => r[i].turn <= r[j].turn
  BY <1>1, <1>2, <1>4, SMTT(20) DEF WireFits, TurnKinds
<1>7. \A i, j \in 1..Len(r) :
          i < j /\ r[i].kind = "end" /\ r[j].kind \in TurnKinds =>
              r[i].turn # r[j].turn
  BY <1>1, <1>3, <1>4 DEF WireFits, TurnKinds
<1> QED BY <1>5, <1>6, <1>7 DEF WireFits

\* ... finds the player ready for it, since the turn has the flow, ...
LEMMA FollowsAudio ==
    ASSUME NEW d \in Seq(Frames), NEW r \in Seq(Frames), NEW t, NEW ts,
           Appended(d, r, Frame("audio", t, Nil), Len(r) - Len(d)),
           t \in 1..Len(ts), Len(ts) <= MaxTurns, ts[t].done = "no",
           \A u \in 1..Len(ts) : ts[u].begun => u <= t,
           Follows(ts, t, d)
    PROVE  Follows(ts, t, r)
<1>1. \A i \in 1..Len(r) :
        \/ i \in 1..Len(d) /\ r[i] = d[i]
        \/ i > Len(d) /\ r[i].kind = "audio" /\ r[i].turn = t
  BY DEF Appended, Frame
<1>2. \A u : /\ Has(r, "start", u) <=> Has(d, "start", u)
             /\ Has(r, "end", u) <=> Has(d, "end", u)
             /\ Has(r, "audio", u) => Has(d, "audio", u) \/ u = t
  <2> DEFINE f == Frame("audio", t, Nil)
             n == Len(r) - Len(d)
  <2>1. f.kind = "audio" /\ f.turn = t /\ n \in Nat /\ Appended(d, r, f, n)
    BY DEF Frame, Appended
  <2> HIDE DEF f, n
  <2> QED BY <2>1, HasAppended
<1>4. \A u \in AiTurns : ClosedIn(u) => u # t
  BY DEF Follows
<1>5. \A u \in AiTurns : InLedger(u) => u <= t
  BY DEF Follows, Known, Begun
<1>6. Reported(t) => shut
  BY DEF Follows
<1> QED BY <1>1, <1>2, <1>4, <1>5, <1>6 DEF Follows

\* ... and is no longer unsent, when the turn owes its audio in whole.
LEMMA CountsAudio ==
    ASSUME PlayerFits, NEW d \in Seq(Frames), NEW r \in Seq(Frames), NEW t,
           NEW ts \in Seq(TurnStates), NEW unsent \in Nat,
           Appended(d, r, Frame("audio", t, Nil), Len(r) - Len(d)),
           Len(ts) <= MaxTurns, t \in 1..Len(ts), ts[t].done = "no",
           Good(ts, t) => t = Len(ts) /\ ts[t].begun,
           WireFits(ts, d), Follows(ts, t, d), CountsFit(ts, d, unsent)
    PROVE  CountsFit(ts, r, IF Good(ts, t) THEN unsent - (Len(r) - Len(d))
                            ELSE unsent)
<1> DEFINE f == Frame("audio", t, Nil)
           n == Len(r) - Len(d)
           after == IF Good(ts, t) THEN unsent - n ELSE unsent
<1>1. \A i \in 1..Len(r) :
        \/ i \in 1..Len(d) /\ r[i] = d[i]
        \/ i > Len(d) /\ r[i].kind = "audio" /\ r[i].turn = t
  BY DEF Appended, Frame
<1>2. \A u : /\ Has(r, "start", u) <=> Has(d, "start", u)
             /\ Has(r, "end", u) <=> Has(d, "end", u)
  <2>1. f.kind = "audio" /\ f.turn = t /\ n \in Nat /\ Appended(d, r, f, n)
    BY DEF Frame, Appended
  <2> HIDE DEF f, n
  <2> QED BY <2>1, HasAppended
<1>3. \A i \in 1..Len(d) : i \in 1..Len(r) /\ r[i] = d[i]
  BY DEF Appended
<1>4. n \in Nat /\ Len(d) \in Nat
  BY DEF Appended
<1>5. SUFFICES ASSUME NEW u \in 1..Len(ts), Good(ts, u)
               PROVE  CountFits(ts, r, after, u)
  BY DEF CountsFit
<1>6. CountFits(ts, d, unsent, u)
  BY <1>5 DEF CountsFit
<1>7. Count(d, u) \in Nat /\ ts[u].made \in Int
  <2>1. ts[u] \in TurnStates
    OBVIOUS
  <2> QED BY <2>1, CountType DEF TurnStates
<1>8. Count(r, u) = Count(d, u) + IF u = t THEN n ELSE 0
  BY <1>4, CountAppended DEF Chunk, Frame
<1>9. Sent(ts, after, u) = Sent(ts, unsent, u) + IF u = t THEN n ELSE 0
  BY <1>4, <1>5, <1>7 DEF Sent
<1>10. u = t => ts[u].begun
  BY <1>5
<1>11. Has(r, "start", u) => Count(r, u) = Sent(ts, after, u)
  BY <1>2, <1>6, <1>7, <1>8, <1>9 DEF CountFits
<1>12. \A g \in ledger : g.turn = u =>
          IF g.end = Open
          THEN written - g.first + Count(r, u) = Sent(ts, after, u)
          ELSE g.end - g.first = Sent(ts, after, u)
  <2> SUFFICES ASSUME NEW g \in ledger, g.turn = u
               PROVE  IF g.end = Open
                      THEN written - g.first + Count(r, u) = Sent(ts, after, u)
                      ELSE g.end - g.first = Sent(ts, after, u)
    OBVIOUS
  <2>1. g.first \in Nat /\ written \in Nat /\ Sent(ts, unsent, u) \in Int
    <3>1. g \in Segments /\ written \in Nat
      BY DEF PlayerFits, ClientTypeOK
    <3>2. g.first \in Nat
      BY <3>1 DEF Segments
    <3>3. Sent(ts, unsent, u) \in Int
      BY <1>7 DEF Sent
    <3> QED BY <3>1, <3>2, <3>3
  <2>2. CASE g.end = Open
    <3>1. written - g.first + Count(d, u) = Sent(ts, unsent, u)
      BY <2>2, <1>6 DEF CountFits
    <3> HIDE DEF n, after
    <3>2. written - g.first + Count(r, u) = Sent(ts, after, u)
      BY <3>1, <2>1, <1>4, <1>7, <1>8, <1>9, SMTT(30)
    <3> QED BY <3>2, <2>2
  <2>3. CASE g.end # Open
    <3>1. u \in AiTurns /\ ClosedIn(u)
      BY <2>3 DEF ClosedIn, PlayerFits, ClientTypeOK, Segments
    <3>2. u # t
      BY <3>1 DEF Follows
    <3>3. g.end - g.first = Sent(ts, unsent, u)
      BY <2>3, <1>6 DEF CountFits
    <3>4. Sent(ts, after, u) = Sent(ts, unsent, u)
      BY <3>2, <2>1, <1>9
    <3> HIDE DEF n, after
    <3> QED BY <2>3, <3>3, <3>4
  <2> QED BY <2>2, <2>3
<1>13. ~ts[u].begun => Sent(ts, after, u) = 0 /\ Count(r, u) = 0
  <2> HIDE DEF n, after
  <2> QED BY <1>6, <1>7, <1>8, <1>9, <1>10 DEF CountFits
<1>14. \A i, j \in 1..Len(r) :
          r[i].kind = "start" /\ r[i].turn = u /\ Chunk(r[j], u) => i < j
  <2>1. \A i \in 1..Len(r) : r[i].kind = "start" => i \in 1..Len(d) /\ r[i] = d[i]
    BY <1>1
  <2>2. \A i, j \in 1..Len(d) :
          d[i].kind = "start" /\ d[i].turn = u /\ Chunk(d[j], u) => i < j
    BY <1>6 DEF CountFits
  <2>3. SUFFICES ASSUME NEW i \in 1..Len(r), NEW j \in 1..Len(r),
                        r[i].kind = "start", r[i].turn = u, Chunk(r[j], u)
                 PROVE  i < j
    OBVIOUS
  <2>4. i \in 1..Len(d) /\ r[i] = d[i]
    BY <2>1, <2>3
  <2>5. CASE j \in 1..Len(d) /\ r[j] = d[j]
    BY <2>2, <2>3, <2>4, <2>5
  <2>6. CASE j > Len(d)
    BY <2>4, <2>6, <1>4
  <2> QED BY <2>5, <2>6, <1>1
<1>15. Has(r, "start", u) \/ OpenIn(u) =>
          \A i \in 1..Len(r) : r[i].kind = "audio" /\ r[i].turn > u =>
              \E j \in 1..(i - 1) : r[j].kind = "end" /\ r[j].turn = u
  <2> SUFFICES ASSUME Has(r, "start", u) \/ OpenIn(u),
                      NEW i \in 1..Len(r), r[i].kind = "audio", r[i].turn > u
               PROVE  \E j \in 1..(i - 1) : r[j].kind = "end" /\ r[j].turn = u
    OBVIOUS
  <2>1. Has(d, "start", u) \/ OpenIn(u)
    BY <1>2
  <2>2. CASE i \in 1..Len(d)
    <3>1. PICK j \in 1..(i - 1) : d[j].kind = "end" /\ d[j].turn = u
      BY <2>1, <2>2, <1>3, <1>6 DEF CountFits
    <3>2. j \in 1..Len(d)
      BY <2>2, <1>4
    <3> QED BY <3>1, <3>2, <1>3
  <2>3. CASE i \notin 1..Len(d)
    <3>1. i > Len(d) /\ r[i].turn = t
      BY <2>3, <1>1
    <3>2. u < t
      BY <3>1
    <3>3. ts[u].done = "full"
      BY <3>2, <1>5 DEF Good
    <3>4. Has(d, "end", u)
      BY <3>3, <2>1, EndIsComing
    <3>5. PICK j \in 1..Len(d) : d[j].kind = "end" /\ d[j].turn = u
      BY <3>4 DEF Has
    <3> QED BY <3>1, <3>5, <1>3, <1>4
  <2> QED BY <2>2, <2>3
<1> HIDE DEF n, after
<1> QED BY <1>6, <1>11, <1>12, <1>13, <1>14, <1>15 DEF CountFits

-------------------------------------------------------------------------------
(* A turn is announced                                                       *)

\* us is ts with the last turn announced.
Announces(ts, us) ==
    /\ LastDiffers(ts, us)
    /\ ~ts[Len(ts)].begun
    /\ ts[Len(ts)].done = "no"
    /\ us[Len(ts)] = [ts[Len(ts)] EXCEPT !.begun = TRUE]

\* An announcement changes nothing else of the turns.
LEMMA AnnouncedTurns ==
    ASSUME NEW ts \in Seq(TurnStates), NEW us \in Seq(TurnStates),
           Announces(ts, us)
    PROVE  /\ Len(ts) \in Nat \ {0} /\ Len(us) = Len(ts)
           /\ \A t \in 1..Len(ts) :
                 /\ us[t].failed = ts[t].failed /\ us[t].done = ts[t].done
                 /\ us[t].made = ts[t].made
                 /\ us[t].begun <=> ts[t].begun \/ t = Len(ts)
<1>1. Len(ts) \in Nat \ {0} /\ Len(us) = Len(ts)
  BY DEF Announces, LastDiffers
<1>2. SUFFICES ASSUME NEW t \in 1..Len(ts)
               PROVE  /\ us[t].failed = ts[t].failed /\ us[t].done = ts[t].done
                      /\ us[t].made = ts[t].made
                      /\ us[t].begun <=> ts[t].begun \/ t = Len(ts)
  BY <1>1
<1>3. CASE t = Len(ts)
  <2>1. ts[t] \in TurnStates /\ us[t] = [ts[t] EXCEPT !.begun = TRUE]
    BY <1>1, <1>3 DEF Announces
  <2> QED BY <2>1, <1>3 DEF TurnStates
<1>4. CASE t # Len(ts)
  BY <1>1, <1>4 DEF Announces, LastDiffers
<1> QED BY <1>3, <1>4

\* The start of the last turn is in order behind all other frames, ...
LEMMA WireAnnounce ==
    ASSUME NEW d \in Seq(Frames), NEW r \in Seq(Frames),
           NEW ts \in Seq(TurnStates), NEW us \in Seq(TurnStates),
           Announces(ts, us),
           Appended(d, r, Frame("start", Len(ts), Nil), 1),
           WireFits(ts, d)
    PROVE  WireFits(us, r)
<1>1. \A i \in 1..Len(r) :
        \/ i \in 1..Len(d) /\ r[i] = d[i]
        \/ i = Len(d) + 1 /\ r[i].kind = "start" /\ r[i].turn = Len(ts)
  BY DEF Appended, Frame
<1>2. /\ Len(ts) \in Nat \ {0} /\ Len(us) = Len(ts) /\ us[Len(ts)].begun
      /\ \A t \in 1..Len(ts) : ts[t].begun => us[t].begun
      /\ \A t \in 1..Len(ts) : us[t].done = ts[t].done
  BY AnnouncedTurns
<1>3. \A i \in 1..Len(d) :
          /\ d[i].kind \in {"start", "end"} => d[i].turn < Len(ts)
          /\ d[i].kind = "audio" => d[i].turn <= Len(ts)
  BY <1>2 DEF WireFits, TurnKinds, Announces
<1>4. Len(d) \in Nat
  OBVIOUS
<1>5. \A i \in 1..Len(r) :
          /\ r[i].kind \in TurnKinds => r[i].turn \in 1..Len(us)
          /\ r[i].kind \in {"start", "end"} => us[r[i].turn].begun
          /\ r[i].kind = "end" => us[r[i].turn].done = "full"
  <2> SUFFICES ASSUME NEW i \in 1..Len(r)
               PROVE  /\ r[i].kind \in TurnKinds => r[i].turn \in 1..Len(us)
                      /\ r[i].kind \in {"start", "end"} => us[r[i].turn].begun
                      /\ r[i].kind = "end" => us[r[i].turn].done = "full"
    OBVIOUS
  <2>1. CASE i \in 1..Len(d) /\ r[i] = d[i]
    <3>1. /\ d[i].kind \in TurnKinds => d[i].turn \in 1..Len(ts)
          /\ d[i].kind \in {"start", "end"} => ts[d[i].turn].begun
          /\ d[i].kind = "end" => ts[d[i].turn].done = "full"
      BY <2>1 DEF WireFits
    <3>2. d[i].kind \in {"start", "end"} => d[i].kind \in TurnKinds
      BY DEF TurnKinds
    <3> QED BY <2>1, <3>1, <3>2, <1>2
  <2>2. CASE ~(i \in 1..Len(d) /\ r[i] = d[i])
    BY <2>2, <1>1, <1>2
  <2> QED BY <2>1, <2>2
<1>6. \A i, j \in 1..Len(r) : i < j /\ r[i].kind = "start" =>
          /\ r[j].kind = "start" => r[i].turn < r[j].turn
          /\ r[j].kind \in {"audio", "end"} => r[i].turn <= r[j].turn
  <2> SUFFICES ASSUME NEW i \in 1..Len(r), NEW j \in 1..Len(r), i < j,
                      r[i].kind = "start"
               PROVE  /\ r[j].kind = "start" => r[i].turn < r[j].turn
                      /\ r[j].kind \in {"audio", "end"} => r[i].turn <= r[j].turn
    OBVIOUS
  <2>1. i \in 1..Len(d) /\ r[i] = d[i]
    BY <1>1, <1>4
  <2>2. CASE j \in 1..Len(d) /\ r[j] = d[j]
    BY <2>1, <2>2 DEF WireFits
  <2>3. CASE ~(j \in 1..Len(d) /\ r[j] = d[j])
    BY <2>1, <2>3, <1>1, <1>3
  <2> QED BY <2>2, <2>3
<1>7. \A i, j \in 1..Len(r) :
          i < j /\ r[i].kind = "end" /\ r[j].kind \in TurnKinds =>
              r[i].turn # r[j].turn
  BY <1>1, <1>3, <1>4 DEF WireFits, TurnKinds
<1> QED BY <1>5, <1>6, <1>7 DEF WireFits

\* ... the player does not know the turn yet, ...
LEMMA FollowsAnnounce ==
    ASSUME NEW d \in Seq(Frames), NEW r \in Seq(Frames),
           NEW ts \in Seq(TurnStates), NEW us \in Seq(TurnStates), NEW flow,
           Announces(ts, us), Len(ts) <= MaxTurns, flow \in 0..Len(ts),
           Appended(d, r, Frame("start", Len(ts), Nil), 1),
           Follows(ts, flow, d)
    PROVE  Follows(us, flow, r)
<1>1. \A i \in 1..Len(r) :
        \/ i \in 1..Len(d) /\ r[i] = d[i]
        \/ i = Len(d) + 1 /\ r[i].kind = "start" /\ r[i].turn = Len(ts)
  BY DEF Appended, Frame
<1>2. /\ Len(ts) \in Nat \ {0} /\ Len(us) = Len(ts) /\ us[Len(ts)].begun
      /\ \A t \in 1..Len(ts) : ts[t].begun => us[t].begun
      /\ \A t \in 1..Len(ts) : us[t].begun => ts[t].begun \/ t = Len(ts)
      /\ \A t \in 1..Len(ts) : us[t].done = ts[t].done
  <2>1. Len(ts) \in 1..Len(ts)
    BY AnnouncedTurns
  <2> QED BY <2>1, AnnouncedTurns
<1>3. \A u : /\ Has(r, "start", u) <=> Has(d, "start", u) \/ u = Len(ts)
             /\ Has(r, "end", u) <=> Has(d, "end", u)
             /\ Has(r, "audio", u) <=> Has(d, "audio", u)
  <2> DEFINE f == Frame("start", Len(ts), Nil)
  <2>1. f.kind = "start" /\ f.turn = Len(ts) /\ Appended(d, r, f, 1)
    BY DEF Frame
  <2> HIDE DEF f
  <2> QED BY <2>1, HasAppended
<1>4. ts[Len(ts)].done = "no" /\ ~ts[Len(ts)].begun
  BY DEF Announces
<1>5. \A t \in AiTurns : Known(t) => t < Len(ts)
  BY <1>2, <1>4 DEF Follows, Begun
<1>6. \A t \in AiTurns : Known(t) => Begun(us, t)
  BY <1>2 DEF Follows, Begun
<1>7. \A t \in AiTurns : ClosedIn(t) => t \in 1..Len(ts)
  <2>1. \A t \in AiTurns : ClosedIn(t) => Known(t)
    BY DEF ClosedIn, Known, InLedger
  <2>2. \A t \in AiTurns : t \in Nat /\ t >= 1
    BY DEF AiTurns
  <2> QED BY <2>1, <2>2, <1>2, <1>5
<1>8. Reported(flow) /\ (\A u \in 1..Len(us) : us[u].begun => u <= flow) => shut
  BY <1>2 DEF Follows
<1>9. \A i \in 1..Len(r) : r[i].kind = "audio" => i \in 1..Len(d) /\ r[i] = d[i]
  BY <1>1
<1>10. \A i \in 1..Len(r), t \in AiTurns :
          r[i].kind = "start" /\ Known(t) => t < r[i].turn
  BY <1>1, <1>5 DEF Follows
<1>11. \A i \in 1..Len(r), t \in AiTurns :
          r[i].kind = "audio" /\ InLedger(t) => t <= r[i].turn
  BY <1>9 DEF Follows
<1>12. \A i \in 1..Len(r) :
          r[i].kind = "audio" /\ Reported(r[i].turn) => shut
  BY <1>9 DEF Follows
<1>13. \A t \in AiTurns : ClosedIn(t) =>
          us[t].done = "full" /\ ~Has(r, "audio", t) /\ ~Has(r, "end", t)
  BY <1>2, <1>3, <1>7 DEF Follows
<1>14. \A t \in 1..Len(us) : us[t].begun => Known(t) \/ Has(r, "start", t)
  BY <1>2, <1>3 DEF Follows
<1>15. \A t \in 1..Len(us) : us[t].begun /\ us[t].done = "full" =>
          Reported(t) \/ ClosedIn(t) \/ Has(r, "end", t)
  BY <1>2, <1>3, <1>4 DEF Follows
<1> QED BY <1>6, <1>8, <1>10, <1>11, <1>12, <1>13, <1>14, <1>15 DEF Follows

\* ... and of a turn that was not announced nothing was sent.
LEMMA CountsAnnounce ==
    ASSUME PlayerFits, NEW d \in Seq(Frames), NEW r \in Seq(Frames),
           NEW ts \in Seq(TurnStates), NEW us \in Seq(TurnStates), NEW unsent,
           Announces(ts, us), Len(ts) <= MaxTurns,
           Appended(d, r, Frame("start", Len(ts), Nil), 1),
           WireFits(ts, d), \A t \in AiTurns : Known(t) => Begun(ts, t),
           CountsFit(ts, d, unsent)
    PROVE  CountsFit(us, r, unsent)
<1>1. \A i \in 1..Len(r) :
        \/ i \in 1..Len(d) /\ r[i] = d[i]
        \/ i = Len(d) + 1 /\ r[i].kind = "start" /\ r[i].turn = Len(ts)
  BY DEF Appended, Frame
<1>2. /\ Len(ts) \in Nat \ {0} /\ Len(us) = Len(ts) /\ us[Len(ts)].begun
      /\ \A t \in 1..Len(ts) : ts[t].begun => us[t].begun
      /\ \A t \in 1..Len(ts) : us[t].begun => ts[t].begun \/ t = Len(ts)
      /\ \A t \in 1..Len(ts) : us[t].done = ts[t].done /\ us[t].made = ts[t].made
                               /\ us[t].failed = ts[t].failed
  BY AnnouncedTurns
<1> DEFINE f == Frame("start", Len(ts), Nil)
<1>3. f.kind = "start" /\ f.turn = Len(ts) /\ Appended(d, r, f, 1)
  BY DEF Frame
<1> HIDE DEF f
<1>4. \A u : /\ Has(r, "start", u) <=> Has(d, "start", u) \/ u = Len(ts)
             /\ Has(r, "end", u) <=> Has(d, "end", u)
  BY <1>3, HasAppended
<1>5. \A t \in 1..Len(ts) :
         /\ Clean(us, t) <=> Clean(ts, t)
         /\ Good(us, t) <=> Good(ts, t)
         /\ Sent(us, unsent, t) = Sent(ts, unsent, t)
  <2> SUFFICES ASSUME NEW t \in 1..Len(ts)
               PROVE  /\ Clean(us, t) <=> Clean(ts, t)
                      /\ Good(us, t) <=> Good(ts, t)
                      /\ Sent(us, unsent, t) = Sent(ts, unsent, t)
    OBVIOUS
  <2>1. Clean(us, t) <=> Clean(ts, t)
    BY GoodBefore DEF Announces
  <2>2. Good(us, t) <=> Good(ts, t)
    BY <2>1, <1>2 DEF Good
  <2> QED BY <2>1, <2>2, <1>2 DEF Sent
<1>6. \A t : Count(r, t) = Count(d, t)
  <2> SUFFICES ASSUME NEW t PROVE Count(r, t) = Count(d, t)
    OBVIOUS
  <2>1. ~Chunk(f, t)
    BY <1>3 DEF Chunk
  <2> QED BY <2>1, <1>3, CountType, CountAppended
<1>7. \A i \in 1..Len(d) : i \in 1..Len(r) /\ r[i] = d[i]
  BY DEF Appended
<1>8. \A t \in AiTurns : reported[t] = "played" =>
          /\ t \in 1..Len(us) /\ us[t].done = "full"
          /\ Clean(us, t) => heard[t] = us[t].made
  <2> SUFFICES ASSUME NEW t \in AiTurns, reported[t] = "played"
               PROVE  /\ t \in 1..Len(us) /\ us[t].done = "full"
                      /\ Clean(us, t) => heard[t] = us[t].made
    OBVIOUS
  <2>1. /\ t \in 1..Len(ts) /\ ts[t].done = "full"
        /\ Clean(ts, t) => heard[t] = ts[t].made
    BY DEF CountsFit
  <2> QED BY <2>1, <1>2, <1>5
<1>9. \A t \in AiTurns : t > Len(us) =>
          heard[t] = 0 /\ \A i \in 1..Len(ring) : ring[i] # t
  BY <1>2 DEF CountsFit
<1>10. ASSUME NEW t \in 1..Len(us), Good(us, t)
       PROVE  CountFits(us, r, unsent, t)
  <2>1. t \in 1..Len(ts) /\ CountFits(ts, d, unsent, t)
    <3>1. t \in 1..Len(ts)
      BY <1>2
    <3>2. Good(ts, t)
      BY <3>1, <1>5, <1>10
    <3> QED BY <3>1, <3>2 DEF CountsFit
  <2>2. \A i \in 1..Len(r) : r[i].kind = "audio" => i \in 1..Len(d) /\ r[i] = d[i]
    BY <1>1
  <2>3. CASE t = Len(ts)
    <3>1. ~ts[t].begun
      BY <2>3 DEF Announces
    <3>2. Count(r, t) = 0 /\ Sent(us, unsent, t) = 0
      <4>1. Sent(ts, unsent, t) = 0 /\ Count(d, t) = 0
        BY <2>1, <3>1 DEF CountFits
      <4> QED BY <4>1, <2>1, <1>5, <1>6
    <3>3. \A i \in 1..Len(d) : ~Chunk(d[i], t)
      BY <3>2, <1>6, CountType
    <3>4. ~InLedger(t)
      <4>1. t \in AiTurns
        BY <2>1, PlayerBounds DEF AiTurns
      <4> QED BY <4>1, <3>1, <2>3 DEF Known, Begun
    <3>5. \A i \in 1..Len(d) : d[i].kind = "audio" => d[i].turn <= t
      BY <2>3, <1>2 DEF WireFits, TurnKinds
    <3>6. \A i \in 1..Len(r) : r[i].kind = "audio" => ~(r[i].turn > t)
      <4> SUFFICES ASSUME NEW i \in 1..Len(r), r[i].kind = "audio"
                   PROVE ~(r[i].turn > t)
        OBVIOUS
      <4>1. i \in 1..Len(d) /\ r[i] = d[i]
        BY <2>2
      <4>2. d[i].turn <= t /\ d[i] \in Frames
        BY <4>1, <3>5
      <4>3. d[i].turn \in Nat /\ t \in Nat
        BY <4>2, <2>1 DEF Frames
      <4> QED BY <4>1, <4>2, <4>3
    <3>7. \A j \in 1..Len(r) : ~Chunk(r[j], t)
      BY <3>3, <2>2 DEF Chunk
    <3> QED BY <3>2, <3>4, <3>6, <3>7, <1>2, <2>1, <2>3
            DEF CountFits, InLedger, OpenIn
  <2>4. CASE t # Len(ts)
    <3>1. Has(r, "start", t) <=> Has(d, "start", t)
      BY <1>4, <2>4
    <3>2. us[t].begun <=> ts[t].begun
      BY <1>2, <2>1, <2>4
    <3>3. \A i, j \in 1..Len(r) :
            r[i].kind = "start" /\ r[i].turn = t /\ Chunk(r[j], t) => i < j
      BY <1>1, <2>1, <2>2, <2>4 DEF CountFits, Chunk
    <3>4. Has(r, "start", t) \/ OpenIn(t) =>
            \A i \in 1..Len(r) : r[i].kind = "audio" /\ r[i].turn > t =>
              \E j \in 1..(i - 1) : r[j].kind = "end" /\ r[j].turn = t
      <4> SUFFICES ASSUME Has(r, "start", t) \/ OpenIn(t),
                          NEW i \in 1..Len(r), r[i].kind = "audio", r[i].turn > t
                   PROVE  \E j \in 1..(i - 1) : r[j].kind = "end" /\ r[j].turn = t
        OBVIOUS
      <4>1. i \in 1..Len(d) /\ r[i] = d[i]
        BY <2>2
      <4>2. PICK j \in 1..(i - 1) : d[j].kind = "end" /\ d[j].turn = t
        BY <4>1, <3>1, <2>1 DEF CountFits
      <4>3. j \in 1..Len(d)
        BY <4>1
      <4> QED BY <4>2, <4>3, <1>7
    <3>5. Count(r, t) = Count(d, t) /\ Sent(us, unsent, t) = Sent(ts, unsent, t)
      BY <1>5, <1>6, <2>1
    <3> QED BY <3>1, <3>2, <3>3, <3>4, <3>5, <2>1 DEF CountFits
  <2> QED BY <2>3, <2>4
<1> QED BY <1>8, <1>9, <1>10 DEF CountsFit

-------------------------------------------------------------------------------
(* The last turn ends                                                        *)

\* us is ts with the last turn over.
Ends(ts, us) ==
    /\ LastDiffers(ts, us)
    /\ ts[Len(ts)].done = "no"
    /\ us[Len(ts)].done \in {"full", "partial"}
    /\ us[Len(ts)] = [ts[Len(ts)] EXCEPT !.done = us[Len(ts)].done]

\* Its end goes to the client when it is complete and was announced.
EndFrame(ts, us, d, r) ==
    IF us[Len(ts)].done = "full" /\ ts[Len(ts)].begun
    THEN Appended(d, r, Frame("end", Len(ts), Nil), 1)
    ELSE r = d

\* The end changes nothing else of the turns.
LEMMA EndedTurns ==
    ASSUME NEW ts \in Seq(TurnStates), NEW us \in Seq(TurnStates), Ends(ts, us)
    PROVE  /\ Len(ts) \in Nat \ {0} /\ Len(us) = Len(ts)
           /\ Len(ts) \in 1..Len(ts)
           /\ ts[Len(ts)].done = "no" /\ us[Len(ts)].done \in {"full", "partial"}
           /\ \A t \in 1..Len(ts) :
                 /\ us[t].failed = ts[t].failed /\ us[t].begun = ts[t].begun
                 /\ us[t].made = ts[t].made
                 /\ t # Len(ts) => us[t].done = ts[t].done
                 /\ ts[t].done # "no" => us[t].done = ts[t].done
<1>1. Len(ts) \in Nat \ {0} /\ Len(us) = Len(ts) /\ Len(ts) \in 1..Len(ts)
  BY DEF Ends, LastDiffers
<1>2. SUFFICES ASSUME NEW t \in 1..Len(ts)
               PROVE  /\ us[t].failed = ts[t].failed /\ us[t].begun = ts[t].begun
                      /\ us[t].made = ts[t].made
                      /\ t # Len(ts) => us[t].done = ts[t].done
                      /\ ts[t].done # "no" => us[t].done = ts[t].done
  BY <1>1 DEF Ends
<1>3. CASE t = Len(ts)
  <2>1. ts[t] \in TurnStates /\ us[t] = [ts[t] EXCEPT !.done = us[t].done]
        /\ ts[t].done = "no"
    BY <1>1, <1>3 DEF Ends
  <2>2. us[t].failed = ts[t].failed /\ us[t].begun = ts[t].begun
        /\ us[t].made = ts[t].made
    BY <2>1, Zenon DEF TurnStates
  <2> QED BY <2>1, <2>2, <1>3
<1>4. CASE t # Len(ts)
  BY <1>1, <1>4 DEF Ends, LastDiffers
<1> QED BY <1>3, <1>4

\* The frames with the end of the last turn behind them.
LEMMA EndHas ==
    ASSUME NEW d \in Seq(Frames), NEW r \in Seq(Frames),
           NEW ts \in Seq(TurnStates), NEW us \in Seq(TurnStates),
           Ends(ts, us), EndFrame(ts, us, d, r)
    PROVE  /\ \A u : /\ Has(r, "start", u) <=> Has(d, "start", u)
                     /\ Has(r, "audio", u) <=> Has(d, "audio", u)
                     /\ Count(r, u) = Count(d, u)
                     /\ Has(d, "end", u) => Has(r, "end", u)
                     /\ Has(r, "end", u) => Has(d, "end", u) \/ u = Len(ts)
           /\ us[Len(ts)].done = "full" /\ ts[Len(ts)].begun =>
                 Has(r, "end", Len(ts))
           /\ \A i \in 1..Len(d) : i \in 1..Len(r) /\ r[i] = d[i]
           /\ \A i \in 1..Len(r) :
                 \/ i \in 1..Len(d) /\ r[i] = d[i]
                 \/ /\ i = Len(d) + 1 /\ r[i].kind = "end" /\ r[i].turn = Len(ts)
                    /\ us[Len(ts)].done = "full" /\ ts[Len(ts)].begun
<1>1. CASE us[Len(ts)].done = "full" /\ ts[Len(ts)].begun
  <2> DEFINE f == Frame("end", Len(ts), Nil)
  <2>1. f.kind = "end" /\ f.turn = Len(ts) /\ Appended(d, r, f, 1)
    BY <1>1 DEF Frame, EndFrame
  <2> HIDE DEF f
  <2>2. \A u : /\ Has(r, "start", u) <=> Has(d, "start", u)
               /\ Has(r, "audio", u) <=> Has(d, "audio", u)
               /\ Has(r, "end", u) <=> Has(d, "end", u) \/ u = Len(ts)
    BY <2>1, HasAppended
  <2>3. ASSUME NEW u PROVE Count(r, u) = Count(d, u)
    <3>1. ~Chunk(f, u) /\ Count(d, u) \in Nat
      BY <2>1, CountType DEF Chunk
    <3> QED BY <3>1, <2>1, CountAppended
  <2>4. \A i \in 1..Len(d) : i \in 1..Len(r) /\ r[i] = d[i]
    BY <2>1 DEF Appended
  <2>5. \A i \in 1..Len(r) :
           \/ i \in 1..Len(d) /\ r[i] = d[i]
           \/ i = Len(d) + 1 /\ r[i].kind = "end" /\ r[i].turn = Len(ts)
    BY <2>1 DEF Appended
  <2> QED BY <1>1, <2>2, <2>3, <2>4, <2>5
<1>2. CASE ~(us[Len(ts)].done = "full" /\ ts[Len(ts)].begun)
  BY <1>2 DEF EndFrame
<1> QED BY <1>1, <1>2

\* The end is in order behind all other frames, ...
LEMMA WireEnd ==
    ASSUME NEW d \in Seq(Frames), NEW r \in Seq(Frames),
           NEW ts \in Seq(TurnStates), NEW us \in Seq(TurnStates),
           Ends(ts, us), EndFrame(ts, us, d, r), WireFits(ts, d)
    PROVE  WireFits(us, r)
<1> DEFINE n == Len(ts)
<1>1. \A i \in 1..Len(r) :
        \/ i \in 1..Len(d) /\ r[i] = d[i]
        \/ /\ i = Len(d) + 1 /\ r[i].kind = "end" /\ r[i].turn = n
           /\ us[n].done = "full" /\ ts[n].begun
  BY EndHas
<1>2. /\ n \in Nat \ {0} /\ Len(us) = n /\ n \in 1..n /\ ts[n].done = "no"
      /\ \A t \in 1..n : /\ us[t].begun = ts[t].begun
                         /\ ts[t].done # "no" => us[t].done = ts[t].done
  BY EndedTurns
<1>3. \A i \in 1..Len(d) :
          /\ d[i].kind \in {"start", "audio"} => d[i].turn <= n
          /\ d[i].kind = "end" => d[i].turn # n
  BY <1>2 DEF WireFits, TurnKinds
<1>4. Len(d) \in Nat
  OBVIOUS
<1> HIDE DEF n
<1>5. \A i \in 1..Len(r) :
          /\ r[i].kind \in TurnKinds => r[i].turn \in 1..Len(us)
          /\ r[i].kind \in {"start", "end"} => us[r[i].turn].begun
          /\ r[i].kind = "end" => us[r[i].turn].done = "full"
  <2>1. \A i \in 1..Len(d) :
          /\ d[i].kind \in TurnKinds => d[i].turn \in 1..n
          /\ d[i].kind \in {"start", "end"} => ts[d[i].turn].begun
          /\ d[i].kind = "end" => ts[d[i].turn].done = "full"
    BY DEF WireFits, n
  <2>2. \A i \in 1..Len(d) :
          /\ d[i].kind \in TurnKinds => d[i].turn \in 1..Len(us)
          /\ d[i].kind \in {"start", "end"} => us[d[i].turn].begun
          /\ d[i].kind = "end" => us[d[i].turn].done = "full"
    <3> SUFFICES ASSUME NEW i \in 1..Len(d), d[i].kind \in TurnKinds
                 PROVE  /\ d[i].turn \in 1..Len(us)
                        /\ d[i].kind \in {"start", "end"} => us[d[i].turn].begun
                        /\ d[i].kind = "end" => us[d[i].turn].done = "full"
      BY DEF TurnKinds
    <3>1. d[i].turn \in 1..n
      BY <2>1
    <3> QED BY <3>1, <2>1, <1>2
  <2> SUFFICES ASSUME NEW i \in 1..Len(r)
               PROVE  /\ r[i].kind \in TurnKinds => r[i].turn \in 1..Len(us)
                      /\ r[i].kind \in {"start", "end"} => us[r[i].turn].begun
                      /\ r[i].kind = "end" => us[r[i].turn].done = "full"
    OBVIOUS
  <2>3. CASE i \in 1..Len(d) /\ r[i] = d[i]
    BY <2>2, <2>3
  <2>4. CASE ~(i \in 1..Len(d) /\ r[i] = d[i])
    BY <2>4, <1>1, <1>2 DEF TurnKinds
  <2> QED BY <2>3, <2>4
<1>6. \A i, j \in 1..Len(r) : i < j /\ r[i].kind = "start" =>
          /\ r[j].kind = "start" => r[i].turn < r[j].turn
          /\ r[j].kind \in {"audio", "end"} => r[i].turn <= r[j].turn
  BY <1>1, <1>3, <1>4 DEF WireFits, TurnKinds
<1>7. \A i, j \in 1..Len(r) :
          i < j /\ r[i].kind = "end" /\ r[j].kind \in TurnKinds =>
              r[i].turn # r[j].turn
  BY <1>1, <1>3, <1>4 DEF WireFits, TurnKinds
<1> QED BY <1>5, <1>6, <1>7 DEF WireFits

\* ... the player is told of it, and the flow may be over, ...
LEMMA FollowsEnd ==
    ASSUME NEW d \in Seq(Frames), NEW r \in Seq(Frames),
           NEW ts \in Seq(TurnStates), NEW us \in Seq(TurnStates),
           NEW flow \in Nat,
           Ends(ts, us), EndFrame(ts, us, d, r), Follows(ts, flow, d)
    PROVE  Follows(us, flow, r) /\ Follows(us, Nil, r)
<1> DEFINE n == Len(ts)
<1>1. \A i \in 1..Len(r) :
        \/ i \in 1..Len(d) /\ r[i] = d[i]
        \/ i = Len(d) + 1 /\ r[i].kind = "end"
  BY EndHas
<1>2. /\ n \in Nat \ {0} /\ Len(us) = n /\ n \in 1..n /\ ts[n].done = "no"
      /\ \A t \in 1..n : /\ us[t].begun = ts[t].begun
                         /\ ts[t].done # "no" => us[t].done = ts[t].done
                         /\ t # n => us[t].done = ts[t].done
  BY EndedTurns
<1>3. /\ \A u : /\ Has(r, "start", u) <=> Has(d, "start", u)
                /\ Has(r, "audio", u) <=> Has(d, "audio", u)
                /\ Has(d, "end", u) => Has(r, "end", u)
                /\ Has(r, "end", u) => Has(d, "end", u) \/ u = n
      /\ us[n].done = "full" /\ ts[n].begun => Has(r, "end", n)
  BY EndHas
<1>4. Len(ts) = n
  OBVIOUS
<1> HIDE DEF n
<1>5. \A t \in AiTurns : Known(t) => Begun(us, t)
  BY <1>2, <1>4 DEF Follows, Begun
<1>6. \A i \in 1..Len(r) : r[i].kind = "audio" \/ r[i].kind = "start"
                              => i \in 1..Len(d) /\ r[i] = d[i]
  BY <1>1
<1>7. \A i \in 1..Len(r) :
          d[i].kind = "audio" /\ Reported(d[i].turn) /\ i \in 1..Len(d) => shut
  BY DEF Follows
<1>8. \A i \in 1..Len(r) : r[i].kind = "audio" /\ Reported(r[i].turn) => shut
  BY <1>6, <1>7
<1>9. ~Reported(Nil)
  BY DEF Reported, AiTurns, Nil
<1>10. Reported(flow) /\ (\A u \in 1..Len(us) : us[u].begun => u <= flow) => shut
  BY <1>2, <1>4 DEF Follows
<1>11. \A i \in 1..Len(r), t \in AiTurns :
          r[i].kind = "start" /\ Known(t) => t < r[i].turn
  BY <1>6 DEF Follows
<1>12. \A i \in 1..Len(r), t \in AiTurns :
          r[i].kind = "audio" /\ InLedger(t) => t <= r[i].turn
  BY <1>6 DEF Follows
<1>13. \A t \in AiTurns : ClosedIn(t) =>
          us[t].done = "full" /\ ~Has(r, "audio", t) /\ ~Has(r, "end", t)
  <2> SUFFICES ASSUME NEW t \in AiTurns, ClosedIn(t)
               PROVE  us[t].done = "full" /\ ~Has(r, "audio", t)
                      /\ ~Has(r, "end", t)
    OBVIOUS
  <2>1. ts[t].done = "full" /\ ~Has(d, "audio", t) /\ ~Has(d, "end", t)
        /\ t \in 1..n
    BY <1>4 DEF Follows, ClosedIn, Known, InLedger, Begun
  <2> QED BY <2>1, <1>2, <1>3
<1>14. \A t \in 1..Len(us) : us[t].begun => Known(t) \/ Has(r, "start", t)
  BY <1>2, <1>3, <1>4 DEF Follows
<1>15. \A t \in 1..Len(us) : us[t].begun /\ us[t].done = "full" =>
          Reported(t) \/ ClosedIn(t) \/ Has(r, "end", t)
  BY <1>2, <1>3, <1>4 DEF Follows
<1> QED BY <1>5, <1>8, <1>9, <1>10, <1>11, <1>12, <1>13, <1>14, <1>15 DEF Follows

\* ... and of a turn that ends in full nothing is left unsent.
LEMMA CountsEnd ==
    ASSUME NEW d \in Seq(Frames), NEW r \in Seq(Frames),
           NEW ts \in Seq(TurnStates), NEW us \in Seq(TurnStates),
           NEW unsent, NEW left,
           Ends(ts, us), EndFrame(ts, us, d, r), CountsFit(ts, d, unsent),
           us[Len(ts)].done = "full" => left = unsent
    PROVE  CountsFit(us, r, left)
<1> DEFINE n == Len(ts)
<1>1. \A i \in 1..Len(r) :
        \/ i \in 1..Len(d) /\ r[i] = d[i]
        \/ i = Len(d) + 1 /\ r[i].kind = "end" /\ r[i].turn = n
  BY EndHas
<1>2. /\ n \in Nat \ {0} /\ Len(us) = n /\ n \in 1..n
      /\ ts[n].done = "no" /\ us[n].done \in {"full", "partial"}
      /\ \A t \in 1..n : /\ us[t].begun = ts[t].begun
                         /\ us[t].made = ts[t].made /\ us[t].failed = ts[t].failed
                         /\ ts[t].done # "no" => us[t].done = ts[t].done
  BY EndedTurns
<1>3. /\ \A u : /\ Has(r, "start", u) <=> Has(d, "start", u)
                /\ Count(r, u) = Count(d, u)
      /\ \A i \in 1..Len(d) : i \in 1..Len(r) /\ r[i] = d[i]
  BY EndHas
<1>4. /\ LastDiffers(ts, us) /\ Len(ts) = n
      /\ us[n].done = "full" => left = unsent
  BY DEF Ends
<1>5. \A t \in 1..n : Clean(us, t) <=> Clean(ts, t)
  BY <1>4, GoodBefore
<1> HIDE DEF n
<1>6. ASSUME NEW t \in 1..n, Good(us, t)
      PROVE  Good(ts, t) /\ Sent(us, left, t) = Sent(ts, unsent, t)
  <2>1. CASE t = n
    <3>1. us[n].done = "full" /\ ~us[n].failed /\ Clean(us, n)
      BY <2>1, <1>2, <1>6 DEF Good
    <3> QED BY <3>1, <2>1, <1>2, <1>4, <1>5 DEF Good, Sent
  <2>2. CASE t # n
    BY <2>2, <1>2, <1>4, <1>6, GoodBefore DEF Sent
  <2> QED BY <2>1, <2>2
<1>7. \A t \in AiTurns : reported[t] = "played" =>
          /\ t \in 1..Len(us) /\ us[t].done = "full"
          /\ Clean(us, t) => heard[t] = us[t].made
  <2> SUFFICES ASSUME NEW t \in AiTurns, reported[t] = "played"
               PROVE  /\ t \in 1..Len(us) /\ us[t].done = "full"
                      /\ Clean(us, t) => heard[t] = us[t].made
    OBVIOUS
  <2>1. /\ t \in 1..Len(ts) /\ ts[t].done = "full"
        /\ Clean(ts, t) => heard[t] = ts[t].made
    BY DEF CountsFit
  <2> QED BY <2>1, <1>2, <1>4, <1>5
<1>8. \A t \in AiTurns : t > Len(us) =>
          heard[t] = 0 /\ \A i \in 1..Len(ring) : ring[i] # t
  BY <1>2, <1>4 DEF CountsFit
<1>9. ASSUME NEW t \in 1..Len(us), Good(us, t)
      PROVE  CountFits(us, r, left, t)
  <2>1. t \in 1..n /\ CountFits(ts, d, unsent, t)
        /\ Sent(us, left, t) = Sent(ts, unsent, t)
    BY <1>2, <1>4, <1>6, <1>9 DEF CountsFit
  <2>2. \A i \in 1..Len(r) : r[i].kind = "audio" \/ r[i].kind = "start"
                              => i \in 1..Len(d) /\ r[i] = d[i]
    BY <1>1
  <2>3. \A i, j \in 1..Len(r) :
            r[i].kind = "start" /\ r[i].turn = t /\ Chunk(r[j], t) => i < j
    <3>1. \A i, j \in 1..Len(d) :
            d[i].kind = "start" /\ d[i].turn = t /\ Chunk(d[j], t) => i < j
      BY <2>1 DEF CountFits
    <3> QED BY <3>1, <2>2 DEF Chunk
  <2>4. Has(r, "start", t) \/ OpenIn(t) =>
          \A i \in 1..Len(r) : r[i].kind = "audio" /\ r[i].turn > t =>
              \E j \in 1..(i - 1) : r[j].kind = "end" /\ r[j].turn = t
    <3> SUFFICES ASSUME Has(r, "start", t) \/ OpenIn(t),
                        NEW i \in 1..Len(r), r[i].kind = "audio", r[i].turn > t
                 PROVE  \E j \in 1..(i - 1) : r[j].kind = "end" /\ r[j].turn = t
      OBVIOUS
    <3>1. i \in 1..Len(d) /\ r[i] = d[i]
      BY <2>2
    <3>2. PICK j \in 1..(i - 1) : d[j].kind = "end" /\ d[j].turn = t
      BY <3>1, <1>3, <2>1 DEF CountFits
    <3>3. j \in 1..Len(d)
      BY <3>1
    <3> QED BY <3>2, <3>3, <1>3
  <2>5. us[t].begun <=> ts[t].begun
    BY <2>1, <1>2
  <2> QED BY <2>1, <2>3, <2>4, <2>5, <1>3 DEF CountFits
<1> QED BY <1>7, <1>8, <1>9 DEF CountsFit

-------------------------------------------------------------------------------
(* The next turn                                                             *)

\* A new turn is appended, and the others stay.
LEMMA NewTurns ==
    ASSUME NEW ts \in Seq(TurnStates), NEW us, us = Append(ts, FreshTurn)
    PROVE  /\ us \in Seq(TurnStates)
           /\ Len(ts) \in Nat /\ Len(us) = Len(ts) + 1 /\ Len(us) \in 1..Len(us)
           /\ us[Len(us)] = FreshTurn
           /\ \A t \in 1..Len(ts) : t \in 1..Len(us) /\ us[t] = ts[t]
           /\ \A t \in 1..Len(us) : t \in 1..Len(ts) \/ t = Len(us)
<1>1. FreshTurn \in TurnStates
  BY DEF FreshTurn, TurnStates, Endings
<1> HIDE DEF FreshTurn
<1> QED BY <1>1

\* No frame is of the new turn, ...
LEMMA WireNew ==
    ASSUME NEW d \in Seq(Frames), NEW ts \in Seq(TurnStates), NEW us,
           us = Append(ts, FreshTurn), WireFits(ts, d)
    PROVE  WireFits(us, d)
<1>1. /\ Len(ts) \in Nat /\ Len(us) = Len(ts) + 1
      /\ \A t \in 1..Len(ts) : t \in 1..Len(us) /\ us[t] = ts[t]
  BY NewTurns
<1>2. \A i \in 1..Len(d) :
          /\ d[i].kind \in TurnKinds => d[i].turn \in 1..Len(us)
          /\ d[i].kind \in {"start", "end"} => us[d[i].turn].begun
          /\ d[i].kind = "end" => us[d[i].turn].done = "full"
  <2> SUFFICES ASSUME NEW i \in 1..Len(d), d[i].kind \in TurnKinds
               PROVE  /\ d[i].turn \in 1..Len(us)
                      /\ d[i].kind \in {"start", "end"} => us[d[i].turn].begun
                      /\ d[i].kind = "end" => us[d[i].turn].done = "full"
    BY DEF TurnKinds
  <2>1. /\ d[i].turn \in 1..Len(ts)
        /\ d[i].kind \in {"start", "end"} => ts[d[i].turn].begun
        /\ d[i].kind = "end" => ts[d[i].turn].done = "full"
    BY DEF WireFits
  <2> QED BY <2>1, <1>1
<1> QED BY <1>2 DEF WireFits

\* ... the player does not know it, though it may have the flow, ...
LEMMA FollowsNew ==
    ASSUME NEW d \in Seq(Frames), NEW ts \in Seq(TurnStates), NEW us,
           NEW flow \in 0..Len(ts), us = Append(ts, FreshTurn),
           Follows(ts, flow, d)
    PROVE  Follows(us, flow, d) /\ Follows(us, Len(us), d)
<1>1. /\ Len(ts) \in Nat /\ Len(us) = Len(ts) + 1
      /\ ~us[Len(us)].begun
      /\ \A t \in 1..Len(ts) : t \in 1..Len(us) /\ us[t] = ts[t]
      /\ \A t \in 1..Len(us) : t \in 1..Len(ts) \/ t = Len(us)
  BY NewTurns DEF FreshTurn
<1>2. \A t \in AiTurns : Known(t) => Begun(us, t) /\ t \in 1..Len(ts)
  BY <1>1 DEF Follows, Begun
<1>3. ~Reported(Len(us))
  <2>1. Len(us) \notin 1..Len(ts)
    BY <1>1
  <2> QED BY <2>1, <1>2 DEF Known, Reported
<1>4. Reported(flow) /\ (\A u \in 1..Len(us) : us[u].begun => u <= flow) => shut
  BY <1>1 DEF Follows
<1>5. \A t \in AiTurns : ClosedIn(t) =>
          us[t].done = "full" /\ ~Has(d, "audio", t)
  <2> SUFFICES ASSUME NEW t \in AiTurns, ClosedIn(t)
               PROVE  us[t].done = "full" /\ ~Has(d, "audio", t)
    OBVIOUS
  <2>1. t \in 1..Len(ts) /\ us[t] = ts[t]
    BY <1>1, <1>2 DEF ClosedIn, Known, InLedger
  <2> QED BY <2>1 DEF Follows
<1>6. \A t \in 1..Len(us) : us[t].begun => Known(t) \/ Has(d, "start", t)
  BY <1>1 DEF Follows
<1>7. \A t \in 1..Len(us) : us[t].begun /\ us[t].done = "full" =>
          Reported(t) \/ ClosedIn(t) \/ Has(d, "end", t)
  BY <1>1 DEF Follows
<1>8. Follows(us, flow, d)
  BY <1>2, <1>4, <1>5, <1>6, <1>7 DEF Follows
<1>9. Follows(us, Len(us), d)
  BY <1>3, <1>8 DEF Follows
<1> QED BY <1>8, <1>9

\* ... and nothing of it was made, sent or heard.
LEMMA CountsNew ==
    ASSUME NEW d \in Seq(Frames), NEW ts \in Seq(TurnStates), NEW us,
           us = Append(ts, FreshTurn), Len(us) <= MaxTurns,
           WireFits(ts, d), \A t \in AiTurns : Known(t) => Begun(ts, t),
           CountsFit(ts, d, 0)
    PROVE  CountsFit(us, d, 0)
<1>1. /\ us \in Seq(TurnStates)
      /\ Len(ts) \in Nat /\ Len(us) = Len(ts) + 1
      /\ us[Len(us)] = FreshTurn
      /\ \A t \in 1..Len(ts) : t \in 1..Len(us) /\ us[t] = ts[t]
      /\ \A t \in 1..Len(us) : t \in 1..Len(ts) \/ t = Len(us)
  BY NewTurns
<1>2. \A t \in 1..Len(ts) : Clean(us, t) <=> Clean(ts, t)
  BY <1>1 DEF Clean
<1>3. \A t \in AiTurns : reported[t] = "played" =>
          /\ t \in 1..Len(us) /\ us[t].done = "full"
          /\ Clean(us, t) => heard[t] = us[t].made
  <2> SUFFICES ASSUME NEW t \in AiTurns, reported[t] = "played"
               PROVE  /\ t \in 1..Len(us) /\ us[t].done = "full"
                      /\ Clean(us, t) => heard[t] = us[t].made
    OBVIOUS
  <2>1. /\ t \in 1..Len(ts) /\ ts[t].done = "full"
        /\ Clean(ts, t) => heard[t] = ts[t].made
    BY DEF CountsFit
  <2> QED BY <2>1, <1>1, <1>2
<1>4. \A t \in AiTurns : t > Len(us) =>
          heard[t] = 0 /\ \A i \in 1..Len(ring) : ring[i] # t
  BY <1>1 DEF CountsFit, AiTurns
<1>5. ASSUME NEW t \in 1..Len(us), Good(us, t)
      PROVE  CountFits(us, d, 0, t)
  <2>1. CASE t \in 1..Len(ts)
    <3>1. t # Len(us) /\ us[t] = ts[t]
      BY <2>1, <1>1
    <3>2. Good(ts, t)
      BY <2>1, <3>1, <1>2, <1>5 DEF Good
    <3>3. CountFits(ts, d, 0, t)
      BY <2>1, <3>2 DEF CountsFit
    <3>4. ts[t].made \in Int
      <4>1. ts[t] \in TurnStates
        BY <2>1
      <4> QED BY <4>1 DEF TurnStates
    <3>5. Sent(us, 0, t) = Sent(ts, 0, t)
      BY <3>1, <3>4 DEF Sent
    <3> QED BY <3>1, <3>3, <3>5 DEF CountFits
  <2>2. CASE t = Len(us)
    <3>1. \A i \in 1..Len(d) : d[i].kind \in TurnKinds =>
             d[i].turn # t /\ ~(d[i].turn > t)
      BY <2>2, <1>1 DEF WireFits
    <3>2. ~Has(d, "start", t) /\ \A i \in 1..Len(d) : ~Chunk(d[i], t)
      BY <3>1 DEF Has, Chunk, TurnKinds
    <3>3. Count(d, t) = 0
      BY <3>2, CountType
    <3>4. t \in AiTurns /\ t > Len(ts)
      BY <2>2, <1>1, PlayerBounds DEF AiTurns
    <3>5. heard[t] = 0 /\ \A i \in 1..Len(ring) : ring[i] # t
      BY <3>4 DEF CountsFit
    <3>6. ~InLedger(t)
      BY <3>4, <1>1 DEF Known, Begun
    <3>7. Sent(us, 0, t) = 0
      BY <2>2, <1>1 DEF Sent, FreshTurn
    <3>8. \A i \in 1..Len(d) : d[i].kind = "audio" => ~(d[i].turn > t)
      BY <3>1 DEF TurnKinds
    <3> QED BY <3>2, <3>3, <3>5, <3>6, <3>7, <3>8
            DEF CountFits, InLedger, OpenIn
  <2> QED BY <2>1, <2>2, <1>1
<1> QED BY <1>3, <1>4, <1>5 DEF CountsFit

-------------------------------------------------------------------------------
(* Changes of a turn that the client does not see                            *)

Marks(ts, us) ==
    /\ Len(us) = Len(ts)
    /\ \A t \in 1..Len(ts) : us[t].begun = ts[t].begun /\ us[t].done = ts[t].done

\* They keep the frames, the jobs and the flow as they are.
LEMMA MarkedFits ==
    ASSUME NEW d \in Seq(Frames), NEW ts \in Seq(TurnStates),
           NEW us \in Seq(TurnStates), Marks(ts, us)
    PROVE  /\ WireFits(ts, d) => WireFits(us, d)
           /\ \A flow : Follows(ts, flow, d) => Follows(us, flow, d)
           /\ \A jobs, kept : JobsFit(ts, jobs, kept) => JobsFit(us, jobs, kept)
           /\ \A flow, retired, pending :
                 FlowFits(ts, flow, retired, pending) =>
                     FlowFits(us, flow, retired, pending)
<1>1. /\ Len(ts) \in Nat /\ Len(us) = Len(ts)
      /\ \A t \in 1..Len(ts) : us[t].begun = ts[t].begun /\ us[t].done = ts[t].done
  BY DEF Marks
<1>2. WireFits(ts, d) => WireFits(us, d)
  <2> SUFFICES ASSUME WireFits(ts, d) PROVE WireFits(us, d)
    OBVIOUS
  <2>1. \A i \in 1..Len(d) :
          /\ d[i].kind \in TurnKinds => d[i].turn \in 1..Len(us)
          /\ d[i].kind \in {"start", "end"} => us[d[i].turn].begun
          /\ d[i].kind = "end" => us[d[i].turn].done = "full"
    BY <1>1 DEF WireFits, TurnKinds
  <2> QED BY <2>1 DEF WireFits
<1>3. ASSUME NEW flow, Follows(ts, flow, d)
      PROVE  Follows(us, flow, d)
  <2>1. \A t \in AiTurns : Known(t) => Begun(us, t) /\ t \in 1..Len(ts)
    BY <1>1, <1>3 DEF Follows, Begun
  <2>2. \A t \in AiTurns : ClosedIn(t) =>
          us[t].done = "full" /\ ~Has(d, "audio", t)
    BY <1>1, <1>3, <2>1 DEF Follows, ClosedIn, Known, InLedger
  <2>3. Reported(flow) /\ (\A u \in 1..Len(us) : us[u].begun => u <= flow) => shut
    BY <1>1, <1>3 DEF Follows
  <2>4. \A t \in 1..Len(us) : us[t].begun => Known(t) \/ Has(d, "start", t)
    BY <1>1, <1>3 DEF Follows
  <2>5. \A t \in 1..Len(us) : us[t].begun /\ us[t].done = "full" =>
          Reported(t) \/ ClosedIn(t) \/ Has(d, "end", t)
    BY <1>1, <1>3 DEF Follows
  <2> QED BY <1>3, <2>1, <2>2, <2>3, <2>4, <2>5 DEF Follows
<1>4. ASSUME NEW jobs, NEW kept, JobsFit(ts, jobs, kept)
      PROVE  JobsFit(us, jobs, kept)
  BY <1>1, <1>4 DEF JobsFit
<1>5. ASSUME NEW flow, NEW retired, NEW pending,
             FlowFits(ts, flow, retired, pending)
      PROVE  FlowFits(us, flow, retired, pending)
  <2>1. Len(ts) > 0 => Len(ts) \in 1..Len(ts)
    BY <1>1
  <2>2. Len(ts) > 0 => (Clean(us, Len(us)) <=> Clean(ts, Len(ts)))
    <3>1. \A e \in 1..(Len(ts) - 1) : us[e].done = ts[e].done
      BY <1>1
    <3>2. Len(us) = Len(ts)
      BY <1>1
    <3> QED BY <3>1, <3>2 DEF Clean
  <2>3. flow # Nil => flow \in 1..Len(ts)
    BY <1>1, <1>5 DEF FlowFits, Nil
  <2> QED BY <1>1, <1>5, <2>1, <2>2, <2>3 DEF FlowFits
<1> QED BY <1>2, <1>3, <1>4, <1>5

\* What the last turn has said and what is not sent of it may change together;
\* a turn that failed owes nothing.
LEMMA CountsMarked ==
    ASSUME NEW d, NEW ts \in Seq(TurnStates), NEW us \in Seq(TurnStates),
           NEW unsent, NEW left,
           Marks(ts, us), LastDiffers(ts, us), ts[Len(ts)].done = "no",
           \/ us[Len(ts)].failed
           \/ /\ us[Len(ts)].failed = ts[Len(ts)].failed
              /\ us[Len(ts)].made - left = ts[Len(ts)].made - unsent,
           CountsFit(ts, d, unsent)
    PROVE  CountsFit(us, d, left)
<1> DEFINE n == Len(ts)
<1>1. /\ n \in Nat \ {0} /\ Len(us) = n /\ n \in 1..n /\ Len(ts) = n
      /\ \A t \in 1..n : us[t].begun = ts[t].begun /\ us[t].done = ts[t].done
      /\ \A t \in 1..n : t # n => us[t] = ts[t]
      /\ ts[n].done = "no"
      /\ LastDiffers(ts, us)
  BY DEF Marks, LastDiffers
<1>2. \A t \in 1..n : Clean(us, t) <=> Clean(ts, t)
  BY <1>1, GoodBefore
<1>3. us[n].failed \/ (us[n].failed = ts[n].failed
                       /\ us[n].made - left = ts[n].made - unsent)
  OBVIOUS
<1> HIDE DEF n
<1>4. \A t \in AiTurns : reported[t] = "played" =>
          /\ t \in 1..Len(us) /\ us[t].done = "full"
          /\ Clean(us, t) => heard[t] = us[t].made
  <2> SUFFICES ASSUME NEW t \in AiTurns, reported[t] = "played"
               PROVE  /\ t \in 1..Len(us) /\ us[t].done = "full"
                      /\ Clean(us, t) => heard[t] = us[t].made
    OBVIOUS
  <2>1. /\ t \in 1..Len(ts) /\ ts[t].done = "full"
        /\ Clean(ts, t) => heard[t] = ts[t].made
    BY DEF CountsFit
  <2>2. t # n
    BY <2>1, <1>1
  <2> QED BY <2>1, <2>2, <1>1, <1>2
<1>5. \A t \in AiTurns : t > Len(us) =>
          heard[t] = 0 /\ \A i \in 1..Len(ring) : ring[i] # t
  BY <1>1 DEF CountsFit
<1>6. ASSUME NEW t \in 1..Len(us), Good(us, t)
      PROVE  CountFits(us, d, left, t)
  <2>1. t \in 1..n
    BY <1>1
  <2>2. Good(ts, t) /\ Sent(us, left, t) = Sent(ts, unsent, t)
    <3>1. CASE t = n
      BY <3>1, <1>1, <1>2, <1>3, <1>6 DEF Good, Sent
    <3>2. CASE t # n
      BY <3>2, <2>1, <1>1, <1>2, <1>6 DEF Good, Sent
    <3> QED BY <3>1, <3>2
  <2>3. CountFits(ts, d, unsent, t) /\ us[t].begun = ts[t].begun
    BY <2>1, <2>2, <1>1 DEF CountsFit
  <2> QED BY <2>2, <2>3 DEF CountFits
<1> QED BY <1>4, <1>5, <1>6 DEF CountsFit

-------------------------------------------------------------------------------
(* The flow of output                                                        *)

\* Audio keeps the flow, whatever becomes of it in emitResponseOutput.
LEMMA FlowAudio ==
    ASSUME NEW s \in Servers, NEW r \in Servers, NEW ts \in Seq(TurnStates),
           NEW t \in 1..Len(ts), NEW n,
           FlowFits(ts, s.m.flow, s.m.retired, s.m.pending),
           Emitted(s, r, "audio", t, n)
    PROVE  FlowFits(ts, r.m.flow, r.m.retired, r.m.pending)
<1> DEFINE clean == Len(ts) > 0 /\ Clean(ts, Len(ts))
<1>1. CASE SameFlow(s, r)
  BY <1>1 DEF SameFlow
<1>2. CASE t \notin s.m.retired /\ ~SameFlow(s, r)
  <2>1. clean => ts[t].done = "no" /\ t = Len(ts) /\ s.m.flow = t
    <3>1. ASSUME clean
          PROVE  ts[t].done = "no" /\ t = Len(ts) /\ s.m.flow = t
      <4>1. ts[t].done = "no"
        BY <3>1, <1>2 DEF FlowFits
      <4>2. t = Len(ts)
        BY <3>1, <4>1 DEF Clean
      <4> QED BY <3>1, <4>1, <4>2 DEF FlowFits
    <3> QED BY <3>1
  <2>2. ~clean
    BY <2>1, <1>2 DEF Emitted, SameFlow, Nil
  <2>3. /\ r.m.retired \subseteq 1..Len(ts)
        /\ r.m.flow \in 0..Len(ts)
        /\ r.m.flow # Nil => ts[r.m.flow].done = "no" /\ r.m.flow \notin r.m.retired
    BY <1>2 DEF Emitted, FlowFits, SameFlow, Nil
  <2>4. \A i \in 1..Len(r.m.pending) : r.m.pending[i].turn \in 1..Len(ts)
    <3>0. \A i \in 1..Len(s.m.pending) : s.m.pending[i].turn \in 1..Len(ts)
      BY DEF FlowFits
    <3>1. \/ Len(r.m.pending) = 0
          \/ \A i \in 1..Len(r.m.pending) :
               \/ i \in 1..Len(s.m.pending) /\ r.m.pending[i] = s.m.pending[i]
               \/ r.m.pending[i].turn = t
      BY <1>2 DEF Emitted
    <3>2. t \in 1..Len(ts)
      OBVIOUS
    <3>3. SUFFICES ASSUME NEW i \in 1..Len(r.m.pending), Len(r.m.pending) # 0
                   PROVE  r.m.pending[i].turn \in 1..Len(ts)
      OBVIOUS
    <3>4. \/ i \in 1..Len(s.m.pending) /\ r.m.pending[i] = s.m.pending[i]
          \/ r.m.pending[i].turn = t
      BY <3>1, <3>3
    <3> QED BY <3>0, <3>2, <3>4
  <2> QED BY <2>2, <2>3, <2>4 DEF FlowFits
<1> QED BY <1>1, <1>2 DEF Emitted

\* A new turn takes the flow when no other response has it.
LEMMA FlowNew ==
    ASSUME NEW s \in Servers, NEW r \in Servers, NEW ts \in Seq(TurnStates),
           NEW us, us = Append(ts, FreshTurn),
           FlowFits(ts, s.m.flow, s.m.retired, s.m.pending),
           Emitted(s, r, "started", Len(us), 1)
    PROVE  FlowFits(us, r.m.flow, r.m.retired, r.m.pending)
           /\ r.m.flow \in {s.m.flow, Len(us)} /\ r.d = s.d
<1>1. /\ Len(ts) \in Nat /\ Len(us) = Len(ts) + 1 /\ Len(us) \in 1..Len(us)
      /\ us[Len(us)].done = "no"
      /\ \A t \in 1..Len(ts) : t \in 1..Len(us) /\ us[t] = ts[t]
      /\ \A t \in 1..Len(us) : t \in 1..Len(ts) \/ t = Len(us)
      /\ Len(us) \notin 1..Len(ts) /\ Len(us) # Nil
  BY NewTurns DEF FreshTurn, Nil
<1> DEFINE c == Len(us)
<1>2. c = Len(us) OBVIOUS
<1> HIDE DEF c
<1>3. c \notin s.m.retired /\ s.m.flow # c
  BY <1>1, <1>2 DEF FlowFits
<1>4. \/ /\ s.m.flow # Nil /\ r.m.flow = s.m.flow /\ r.m.retired = s.m.retired
         /\ \A i \in 1..Len(r.m.pending) :
             \/ i \in 1..Len(s.m.pending) /\ r.m.pending[i] = s.m.pending[i]
             \/ r.m.pending[i].turn = c
      \/ /\ s.m.flow = Nil /\ r.m.flow = c /\ r.m.retired = s.m.retired
         /\ r.m.pending = s.m.pending
  BY <1>2, <1>3 DEF Emitted
<1>5. /\ r.m.retired \subseteq 1..Len(us)
      /\ r.m.flow \in 0..Len(us)
      /\ r.m.flow # Nil => us[r.m.flow].done = "no" /\ r.m.flow \notin r.m.retired
  BY <1>1, <1>2, <1>3, <1>4 DEF FlowFits, Nil
<1>6. \A i \in 1..Len(r.m.pending) : r.m.pending[i].turn \in 1..Len(us)
  BY <1>1, <1>2, <1>4 DEF FlowFits
<1>7. ASSUME Clean(us, Len(us))
      PROVE  /\ Len(r.m.pending) = 0
             /\ r.m.flow = c
             /\ \A t \in 1..Len(us) : t \in r.m.retired <=> us[t].done # "no"
  <2>1. \A t \in 1..Len(ts) : ts[t].done # "no"
    BY <1>1, <1>7 DEF Clean
  <2>2. /\ Len(s.m.pending) = 0 /\ s.m.flow = Nil
        /\ \A t \in 1..Len(ts) : t \in s.m.retired
    <3>1. CASE Len(ts) = 0
      <4>1. Len(s.m.pending) \in Nat
        <5>1. s \in Servers
          OBVIOUS
        <5>2. s.m \in Medias
          BY <5>1 DEF Servers
        <5>3. \E S : s.m.pending \in Seq(S)
          BY <5>2 DEF Medias
        <5> QED BY <5>3
      <4>2. Len(s.m.pending) = 0
        BY <4>1, <3>1 DEF FlowFits
      <4> QED BY <3>1, <4>2 DEF FlowFits, Nil
    <3>2. CASE Len(ts) > 0
      <4>1. Clean(ts, Len(ts)) /\ Len(ts) \in 1..Len(ts)
        BY <3>2, <2>1, <1>1 DEF Clean
      <4> QED BY <3>2, <4>1, <2>1 DEF FlowFits
    <3> QED BY <3>1, <3>2, <1>1
  <2> QED BY <2>1, <2>2, <1>1, <1>2, <1>3, <1>4
<1>8. r.d = s.d
  BY <1>2, <1>3 DEF Emitted
<1>9. FlowFits(us, r.m.flow, r.m.retired, r.m.pending)
  BY <1>1, <1>2, <1>5, <1>6, <1>7 DEF FlowFits
<1> QED BY <1>2, <1>4, <1>8, <1>9

\* The terminal of the last turn gives the flow up.
LEMMA FlowEnd ==
    ASSUME NEW s \in Servers, NEW r \in Servers, NEW ts \in Seq(TurnStates),
           NEW us \in Seq(TurnStates), Ends(ts, us),
           FlowFits(ts, s.m.flow, s.m.retired, s.m.pending),
           Emitted(s, r, "terminal", Len(ts), 1)
    PROVE  FlowFits(us, r.m.flow, r.m.retired, r.m.pending)
           /\ r.m.flow \in {s.m.flow, Nil} /\ r.d = s.d
<1> DEFINE n == Len(ts)
<1>1. /\ n \in Nat \ {0} /\ Len(us) = n /\ n \in 1..n /\ Len(ts) = n /\ n # Nil
      /\ ts[n].done = "no" /\ us[n].done # "no"
      /\ \A t \in 1..n : t # n => us[t].done = ts[t].done
  BY EndedTurns DEF Nil
<1>2. Clean(us, n) <=> Clean(ts, n)
  <2>1. \A e \in 1..(n - 1) : us[e].done = ts[e].done
    <3>1. \A e \in 1..(n - 1) : e \in 1..n /\ e # n
      BY <1>1
    <3> QED BY <3>1, <1>1
  <2> QED BY <2>1 DEF Clean
<1>3. Emitted(s, r, "terminal", n, 1)
  BY Zenon
<1> HIDE DEF n
<1>4. \/ /\ n \in s.m.retired /\ SameFlow(s, r)
      \/ /\ n \notin s.m.retired /\ s.m.flow \in {Nil, n}
         /\ r.m.flow = Nil /\ r.m.retired = s.m.retired \cup {n}
         /\ \/ r.m.pending = <<>>
            \/ r.m.pending = s.m.pending
      \/ /\ n \notin s.m.retired /\ s.m.flow \notin {Nil, n}
         /\ r.m.flow = s.m.flow /\ r.m.retired = s.m.retired
         /\ \A i \in 1..Len(r.m.pending) :
             \/ i \in 1..Len(s.m.pending) /\ r.m.pending[i] = s.m.pending[i]
             \/ r.m.pending[i].turn = n
  BY <1>3 DEF Emitted
<1>5. /\ r.m.retired \subseteq 1..Len(us)
      /\ r.m.flow \in 0..Len(us)
      /\ r.m.flow # Nil => us[r.m.flow].done = "no" /\ r.m.flow \notin r.m.retired
  BY <1>1, <1>4 DEF FlowFits, SameFlow, Nil
<1>6. \A i \in 1..Len(r.m.pending) : r.m.pending[i].turn \in 1..Len(us)
  BY <1>1, <1>4 DEF FlowFits, SameFlow
<1>7. ASSUME Clean(us, n)
      PROVE  /\ Len(r.m.pending) = 0
             /\ r.m.flow = Nil
             /\ \A t \in 1..n : t \in r.m.retired <=> us[t].done # "no"
  <2>1. /\ Len(s.m.pending) = 0 /\ s.m.flow = n
        /\ \A t \in 1..n : t \in s.m.retired <=> ts[t].done # "no"
    BY <1>1, <1>2, <1>7 DEF FlowFits
  <2> QED BY <2>1, <1>1, <1>4
<1>8. r.d = s.d /\ r.m.flow \in {s.m.flow, Nil}
  BY <1>3, <1>4 DEF Emitted, SameFlow
<1> QED BY <1>1, <1>5, <1>6, <1>7, <1>8 DEF FlowFits

-------------------------------------------------------------------------------
(* Steps of the server, by what they change of what Fits is about            *)

\* The types of the parts.
LEMMA ServerParts ==
    ASSUME NEW s \in Servers
    PROVE  /\ s.e.turns \in Seq(TurnStates) /\ s.d \in Seq(Frames)
           /\ s.e.kept \in Nat /\ s.e.active \in Nat /\ s.e.paused \in Nat
           /\ s.e.deferred \in Endings /\ s.e.jobs \in Seq(JobStates)
           /\ s.m.flow \in Nat /\ s.m.audioTurn \in Nat
           /\ Len(s.e.turns) \in Nat
BY DEF Servers, Engines, Medias

\* Nothing that matters, or a frame that is about no turn.
LEMMA OtherStep ==
    ASSUME NEW s, NEW r \in Servers, NEW k \in Nat, Fits(s, k),
           SameEngine(s, r), SameFlow(s, r), NEW f,
           r.d = s.d \/ (f.kind \in OtherKinds /\ Appended(s.d, r.d, f, 1))
    PROVE  Fits(r, k)
<1>1. s \in Servers /\ s.d \in Seq(Frames) /\ r.d \in Seq(Frames)
  BY ServerParts DEF Fits
<1>2. CASE r.d = s.d
  BY <1>2 DEF Fits, SameEngine, SameFlow
<1>3. CASE f.kind \in OtherKinds /\ Appended(s.d, r.d, f, 1)
  <2>1. WireFits(s.e.turns, r.d)
    BY <1>1, <1>3, WireOther DEF Fits
  <2>2. Follows(s.e.turns, s.m.flow, r.d)
    BY <1>1, <1>3, FollowsOther DEF Fits
  <2>3. CountsFit(s.e.turns, r.d, s.e.kept + k)
    BY <1>1, <1>3, CountsOther DEF Fits
  <2> QED BY <2>1, <2>2, <2>3 DEF Fits, SameEngine, SameFlow
<1> QED BY <1>2, <1>3

\* A turn that is not good owes nothing.
LEMMA NothingOwed ==
    ASSUME NEW ts \in Seq(TurnStates), NEW d, NEW unsent, NEW left,
           ~Good(ts, Len(ts)), CountsFit(ts, d, unsent)
    PROVE  CountsFit(ts, d, left)
<1>1. ASSUME NEW t \in 1..Len(ts), Good(ts, t)
      PROVE  CountFits(ts, d, left, t)
  <2>1. t # Len(ts) /\ CountFits(ts, d, unsent, t)
    BY <1>1 DEF CountsFit
  <2>2. Sent(ts, left, t) = Sent(ts, unsent, t)
    BY <2>1 DEF Sent
  <2> QED BY <2>1, <2>2 DEF CountFits
<1> QED BY <1>1 DEF CountsFit

\* The last turn, when all of its audio is sent in whole.
Owes(ts, t) == Good(ts, t) /\ ts[t].done = "no"

\* Output of kind audio, of a turn that owes nothing or of the last one with
\* all it has not sent.
LEMMA AudioStep ==
    ASSUME PlayerFits, NEW s, NEW r \in Servers, NEW t, NEW k \in Nat, NEW n \in Nat,
           Fits(s, k), t \in 1..Len(s.e.turns),
           SameEngine(s, r), Emitted(s, r, "audio", t, n),
           \A u \in 1..Len(s.e.turns) : s.e.turns[u].begun => u <= t,
           Owes(s.e.turns, t) => s.e.turns[t].begun /\ k = n
    PROVE  Fits(r, IF Owes(s.e.turns, t) THEN 0 ELSE k)
<1> DEFINE ts == s.e.turns
           left == IF Owes(ts, t) THEN 0 ELSE k
           d == s.d
           e == r.d
<1>0. SUFFICES Fits(r, left)
  OBVIOUS
<1>1. /\ s \in Servers /\ s.d \in Seq(Frames) /\ r.d \in Seq(Frames)
      /\ ts \in Seq(TurnStates) /\ s.e.kept \in Nat
      /\ r.e.turns = ts /\ r.e.kept = s.e.kept
      /\ Len(ts) <= MaxTurns /\ d = s.d /\ e = r.d
      /\ d \in Seq(Frames) /\ e \in Seq(Frames)
  BY ServerParts DEF Fits, SameEngine, TurnsFit
<1>2. /\ t \in 1..Len(ts)
      /\ \A u \in 1..Len(ts) : ts[u].begun => u <= t
      /\ Owes(ts, t) => t = Len(ts) /\ ts[t].begun /\ k = n
      /\ left \in Nat
      /\ left = IF Owes(ts, t) THEN 0 ELSE k
      /\ Owes(ts, t) <=> Good(ts, t) /\ ts[t].done = "no"
  BY DEF Owes, Good
<1>3. /\ WireFits(ts, s.d) /\ Follows(ts, s.m.flow, s.d)
      /\ CountsFit(ts, s.d, s.e.kept + k)
      /\ FlowFits(ts, s.m.flow, s.m.retired, s.m.pending)
  BY DEF Fits
<1>9. /\ TurnsFit(ts, r.e.active)
      /\ PauseFits(ts, r.e.active, r.e.paused, r.e.kept, r.e.deferred)
      /\ JobsFit(ts, r.e.jobs, r.e.kept)
      /\ r.e.interrupted => r.e.paused = Nil
  BY DEF Fits, SameEngine
<1> HIDE DEF ts, left, d, e
<1>4. FlowFits(ts, r.m.flow, r.m.retired, r.m.pending)
  BY <1>1, <1>2, <1>3, FlowAudio
<1>5. CASE Appended(d, e, Frame("audio", t, Nil), n) /\ s.m.flow = t
           /\ r.m.flow = t
  <2>1. ts[t].done = "no" /\ Follows(ts, t, d) /\ WireFits(ts, d)
    BY <1>1, <1>2, <1>3, <1>5 DEF FlowFits, Nil
  <2>2. Len(e) - Len(d) = n
        /\ Appended(d, e, Frame("audio", t, Nil), Len(e) - Len(d))
    <3>1. Len(e) = Len(d) + n /\ Len(d) \in Nat
      BY <1>1, <1>5 DEF Appended
    <3>2. Len(e) - Len(d) = n
      BY <3>1
    <3> QED BY <3>2, <1>5
  <2>3. WireFits(ts, e)
    BY <1>1, <1>2, <2>1, <2>2, WireAudio
  <2>4. Follows(ts, t, e)
    <3>1. /\ d \in Seq(Frames) /\ e \in Seq(Frames)
          /\ Appended(d, e, Frame("audio", t, Nil), Len(e) - Len(d))
          /\ t \in 1..Len(ts) /\ Len(ts) <= MaxTurns /\ ts[t].done = "no"
          /\ Follows(ts, t, d)
      BY <1>1, <1>2, <2>1, <2>2
    <3>2. \A u \in 1..Len(ts) : ts[u].begun => u <= t
      BY <1>2
    <3> QED BY <3>1, <3>2, FollowsAudio
  <2>5. CountsFit(ts, e, s.e.kept + left)
    <3> DEFINE u == s.e.kept + k
    <3>1. u \in Nat /\ CountsFit(ts, d, u)
      BY <1>1, <1>3
    <3>2. Good(ts, t) => t = Len(ts) /\ ts[t].begun
      BY <1>2, <2>1
    <3>3. s.e.kept + left = IF Good(ts, t) THEN u - n ELSE u
      BY <1>1, <1>2, <2>1
    <3> HIDE DEF u
    <3>4. CountsFit(ts, e, IF Good(ts, t) THEN u - (Len(e) - Len(d)) ELSE u)
      BY <1>1, <1>2, <2>1, <2>2, <3>1, <3>2, CountsAudio
    <3> QED BY <3>3, <3>4, <2>2
  <2>6. WireFits(r.e.turns, r.d) /\ Follows(r.e.turns, r.m.flow, r.d)
        /\ CountsFit(r.e.turns, r.d, r.e.kept + left)
    BY <2>3, <2>4, <2>5, <1>1, <1>5
  <2> QED BY <1>1, <1>4, <1>9, <2>6 DEF Fits
<1>6. CASE /\ e = d /\ r.m.flow = s.m.flow
           /\ t \in s.m.retired \/ s.m.flow # t
  <2>1. ~Owes(ts, t)
    <3>1. ASSUME Owes(ts, t) PROVE FALSE
      <4>1. t = Len(ts) /\ ts[t].done = "no" /\ Clean(ts, t)
        BY <3>1, <1>2 DEF Good
      <4>2. s.m.flow = t /\ t \notin s.m.retired
        BY <4>1, <1>2, <1>3 DEF FlowFits, Nil
      <4> QED BY <4>2, <1>6
    <3> QED BY <3>1
  <2>2. left = k
    BY <2>1, <1>2
  <2>3. WireFits(r.e.turns, r.d) /\ Follows(r.e.turns, r.m.flow, r.d)
        /\ CountsFit(r.e.turns, r.d, r.e.kept + left)
    BY <2>2, <1>1, <1>3, <1>6
  <2> QED BY <1>1, <1>4, <1>9, <2>3 DEF Fits
<1>7. \/ Appended(d, e, Frame("audio", t, Nil), n) /\ s.m.flow = t
         /\ r.m.flow = t
      \/ /\ e = d /\ r.m.flow = s.m.flow
         /\ t \in s.m.retired \/ s.m.flow # t
  BY <1>1 DEF Emitted, SameFlow, Nil
<1> QED BY <1>5, <1>6, <1>7

\* The last turn is announced.
LEMMA AnnounceStep ==
    ASSUME PlayerFits, NEW s, NEW r \in Servers, NEW k \in Nat, Fits(s, k),
           s.e.active # Nil, ~s.e.turns[s.e.active].begun,
           \A i \in 1..Len(s.e.jobs) : s.e.jobs[i].turn = s.e.active,
           r.e.turns = [s.e.turns EXCEPT ![s.e.active].begun = TRUE],
           r.e.active = s.e.active, r.e.paused = s.e.paused,
           r.e.kept = s.e.kept, r.e.deferred = s.e.deferred,
           r.e.jobs = s.e.jobs, r.e.interrupted = s.e.interrupted,
           SameFlow(s, r),
           Appended(s.d, r.d, Frame("start", s.e.active, Nil), 1)
    PROVE  Fits(r, k)
<1> DEFINE ts == s.e.turns
           us == r.e.turns
           n == s.e.active
<1>1. /\ s \in Servers /\ s.d \in Seq(Frames) /\ r.d \in Seq(Frames)
      /\ ts \in Seq(TurnStates) /\ us \in Seq(TurnStates)
      /\ s.e.kept \in Nat /\ Len(ts) \in Nat
  BY ServerParts DEF Fits
<1>2. /\ TurnsFit(ts, n) /\ WireFits(ts, s.d) /\ Follows(ts, s.m.flow, s.d)
      /\ CountsFit(ts, s.d, s.e.kept + k)
      /\ FlowFits(ts, s.m.flow, s.m.retired, s.m.pending)
      /\ JobsFit(ts, s.e.jobs, s.e.kept)
      /\ PauseFits(ts, n, s.e.paused, s.e.kept, s.e.deferred)
  BY DEF Fits
<1>3. /\ n # Nil /\ ~ts[n].begun /\ us = [ts EXCEPT ![n].begun = TRUE]
      /\ Appended(s.d, r.d, Frame("start", n, Nil), 1)
      /\ \A i \in 1..Len(s.e.jobs) : s.e.jobs[i].turn = n
  OBVIOUS
<1>4. r.e.turns = us /\ r.e.active = n /\ SameFlow(s, r)
      /\ r.e.paused = s.e.paused /\ r.e.kept = s.e.kept
      /\ r.e.deferred = s.e.deferred /\ r.e.jobs = s.e.jobs
  OBVIOUS
<1> HIDE DEF ts, us, n
<1>5. n = Len(ts) /\ Len(ts) > 0 /\ ts[n].done = "no" /\ Len(ts) <= MaxTurns
  BY <1>1, <1>2, <1>3 DEF TurnsFit, Nil
<1>6. Announces(ts, us)
  <2>1. Len(us) = Len(ts) /\ n \in 1..Len(ts)
    BY <1>1, <1>3, <1>5
  <2>2. \A t \in 1..(Len(ts) - 1) : us[t] = ts[t]
    BY <1>1, <1>3, <1>5
  <2>3. us[n] = [ts[n] EXCEPT !.begun = TRUE]
    BY <1>1, <1>3, <2>1
  <2> QED BY <2>1, <2>2, <2>3, <1>3, <1>5 DEF Announces, LastDiffers
<1>7. /\ Len(us) = Len(ts)
      /\ \A t \in 1..Len(ts) :
            /\ us[t].failed = ts[t].failed /\ us[t].done = ts[t].done
            /\ us[t].begun <=> ts[t].begun \/ t = n
  BY <1>1, <1>5, <1>6, AnnouncedTurns
<1>8. TurnsFit(us, n)
  <2>1. \A t \in 1..Len(us) : us[t].done = "full" => ~us[t].failed
    BY <1>1, <1>2, <1>7 DEF TurnsFit
  <2>2. us[Len(us)].done = ts[Len(ts)].done
    BY <1>5, <1>7, <1>1
  <2> QED BY <2>1, <2>2, <1>1, <1>2, <1>5, <1>7 DEF TurnsFit
<1>9. PauseFits(us, n, s.e.paused, s.e.kept, s.e.deferred)
  BY <1>2, <1>1, <1>5, <1>7 DEF PauseFits, Nil
<1>10. JobsFit(us, s.e.jobs, s.e.kept)
  <2>1. \A u \in 1..Len(us), i \in 1..Len(s.e.jobs) :
           us[u].begun => u <= s.e.jobs[i].turn
    <3>1. \A i \in 1..Len(s.e.jobs) : s.e.jobs[i].turn = Len(ts)
      BY <1>3, <1>5
    <3>2. Len(us) = Len(ts) /\ Len(ts) \in Nat
      BY <1>1, <1>7
    <3> QED BY <3>1, <3>2
  <2>2. JobsFit(ts, s.e.jobs, s.e.kept)
    BY <1>2
  <2> QED BY <2>1, <2>2, <1>7 DEF JobsFit
<1>11. FlowFits(us, s.m.flow, s.m.retired, s.m.pending)
  <2> DEFINE flow == s.m.flow
             retired == s.m.retired
             pending == s.m.pending
  <2>1. n \in 1..Len(ts)
    BY <1>1, <1>5
  <2>2. Clean(us, n) <=> Clean(ts, n)
    BY <2>1, <1>6, <1>1, GoodBefore DEF Announces
  <2>3. FlowFits(ts, flow, retired, pending)
    BY <1>2
  <2> HIDE DEF flow, retired, pending
  <2>4. flow # Nil => us[flow].done = "no" /\ flow \notin retired
    BY <2>3, <1>1, <1>7 DEF FlowFits, Nil
  <2>5. FlowFits(us, flow, retired, pending)
    BY <2>1, <2>2, <2>3, <2>4, <1>1, <1>5, <1>7 DEF FlowFits
  <2> QED BY <2>5 DEF flow, retired, pending
<1>12. WireFits(us, r.d)
  BY <1>1, <1>2, <1>3, <1>5, <1>6, WireAnnounce
<1>13. Follows(us, s.m.flow, r.d)
  <2> DEFINE flow == s.m.flow
             d == s.d
             e == r.d
  <2>1. /\ flow \in 0..Len(ts) /\ Follows(ts, flow, d)
        /\ d \in Seq(Frames) /\ e \in Seq(Frames)
        /\ Appended(d, e, Frame("start", Len(ts), Nil), 1)
    BY <1>1, <1>2, <1>3, <1>5 DEF FlowFits
  <2> HIDE DEF flow, d, e
  <2>2. Follows(us, flow, e)
    BY <2>1, <1>1, <1>5, <1>6, FollowsAnnounce
  <2> QED BY <2>2 DEF flow, e
<1>14. CountsFit(us, r.d, s.e.kept + k)
  <2>1. \A t \in AiTurns : Known(t) => Begun(ts, t)
    BY <1>2 DEF Follows
  <2> QED BY <2>1, <1>1, <1>2, <1>3, <1>5, <1>6, CountsAnnounce
<1> QED BY <1>4, <1>8, <1>9, <1>10, <1>11, <1>12, <1>13, <1>14
        DEF Fits, SameFlow

\* The last turn ends: x is the server before, s the same with the turn no
\* longer active, perhaps.
LEMMA EndStep ==
    ASSUME NEW x, NEW r \in Servers, NEW q \in Servers, NEW k \in Nat, Fits(x, k),
           NEW n, n = x.e.active, n # Nil, x.e.paused = Nil,
           Ends(x.e.turns, r.e.turns),
           r.e.turns[n].done = "full" => k = 0 /\ ~x.e.turns[n].failed,
           r.e.active = Nil, r.e.paused = x.e.paused, r.e.kept = x.e.kept,
           r.e.deferred = x.e.deferred, r.e.jobs = x.e.jobs,
           EndFrame(x.e.turns, r.e.turns, x.d, r.d),
           SameFlow(x, q), q.d = r.d,
           Emitted(q, r, "terminal", n, 1)
    PROVE  Fits(r, 0)
<1> DEFINE ts == x.e.turns
           us == r.e.turns
<1>1. /\ x \in Servers /\ x.d \in Seq(Frames) /\ r.d \in Seq(Frames)
      /\ ts \in Seq(TurnStates) /\ us \in Seq(TurnStates)
      /\ Len(ts) \in Nat /\ x.m.flow \in Nat
  BY ServerParts DEF Fits
<1>2. /\ TurnsFit(ts, n) /\ WireFits(ts, x.d) /\ Follows(ts, x.m.flow, x.d)
      /\ CountsFit(ts, x.d, x.e.kept + k)
      /\ FlowFits(ts, q.m.flow, q.m.retired, q.m.pending)
      /\ JobsFit(ts, x.e.jobs, x.e.kept)
      /\ PauseFits(ts, n, x.e.paused, x.e.kept, x.e.deferred)
  BY DEF Fits, SameFlow
<1>3. /\ Ends(ts, us) /\ EndFrame(ts, us, x.d, r.d)
      /\ us[n].done = "full" => k = 0 /\ ~ts[n].failed
      /\ x.m.flow = q.m.flow
  BY DEF SameFlow
<1>4. r.e.turns = us /\ x.e.paused = Nil /\ r.e.active = Nil
  OBVIOUS
<1> HIDE DEF ts, us
<1>5. n = Len(ts)
  BY <1>2 DEF TurnsFit
<1>6. /\ Len(us) = n /\ n \in 1..n /\ n \in Nat \ {0}
      /\ us[n].done \in {"full", "partial"}
      /\ \A t \in 1..n : /\ us[t].failed = ts[t].failed
                         /\ us[t].begun = ts[t].begun
                         /\ t # n => us[t].done = ts[t].done
  BY <1>1, <1>3, <1>5, EndedTurns
<1>7. TurnsFit(us, Nil)
  <2>1. \A t \in 1..n : us[t].done = "full" => ~us[t].failed
    BY <1>2, <1>3, <1>5, <1>6 DEF TurnsFit
  <2> QED BY <2>1, <1>2, <1>5, <1>6 DEF TurnsFit, Nil
<1>8. x.e.kept = 0 /\ x.e.deferred = "no"
  BY <1>2, <1>4 DEF PauseFits
<1>9. PauseFits(us, Nil, Nil, x.e.kept, x.e.deferred)
  BY <1>8 DEF PauseFits
<1>10. JobsFit(us, x.e.jobs, x.e.kept)
  BY <1>1, <1>2, <1>5, <1>6 DEF JobsFit
<1>11. /\ FlowFits(us, r.m.flow, r.m.retired, r.m.pending)
       /\ r.m.flow \in {q.m.flow, Nil}
  BY <1>1, <1>2, <1>3, <1>5, FlowEnd
<1>12. WireFits(us, r.d)
  BY <1>1, <1>2, <1>3, WireEnd
<1>13. Follows(us, r.m.flow, r.d)
  BY <1>1, <1>2, <1>3, <1>11, FollowsEnd
<1>14. CountsFit(us, r.d, x.e.kept + 0)
  <2>1. us[Len(ts)].done = "full" => x.e.kept + 0 = x.e.kept + k
    BY <1>3, <1>5
  <2> QED BY <2>1, <1>1, <1>2, <1>3, CountsEnd
<1> QED BY <1>4, <1>7, <1>9, <1>10, <1>11, <1>12, <1>13, <1>14 DEF Fits

\* A turn begins.
LEMMA NewStep ==
    ASSUME NEW x, NEW q \in Servers, NEW r \in Servers, Fits(x, 0),
           Len(x.e.turns) < MaxTurns, x.e.paused = Nil,
           r.e.turns = Append(x.e.turns, FreshTurn),
           r.e.active = Len(x.e.turns) + 1, r.e.paused = x.e.paused,
           r.e.kept = x.e.kept, r.e.deferred = x.e.deferred,
           r.e.jobs = x.e.jobs, SameFlow(x, q), q.d = x.d,
           Emitted(q, r, "started", Len(x.e.turns) + 1, 1)
    PROVE  Fits(r, 0)
<1> DEFINE ts == x.e.turns
           us == r.e.turns
<1>1. /\ x \in Servers /\ x.d \in Seq(Frames)
      /\ ts \in Seq(TurnStates) /\ us = Append(ts, FreshTurn)
      /\ Len(ts) \in Nat /\ Len(ts) + 1 <= MaxTurns
  BY ServerParts, PlayerBounds DEF Fits
<1>2. /\ TurnsFit(ts, x.e.active) /\ WireFits(ts, x.d)
      /\ Follows(ts, x.m.flow, x.d)
      /\ CountsFit(ts, x.d, x.e.kept + 0)
      /\ FlowFits(ts, q.m.flow, q.m.retired, q.m.pending)
      /\ JobsFit(ts, x.e.jobs, x.e.kept)
      /\ PauseFits(ts, x.e.active, Nil, x.e.kept, x.e.deferred)
      /\ x.m.flow = q.m.flow
  BY DEF Fits, SameFlow
<1>3. /\ r.e.turns = us /\ r.e.active = Len(us)
      /\ Emitted(q, r, "started", Len(us), 1)
  BY <1>1
<1> HIDE DEF ts, us
<1>4. /\ us \in Seq(TurnStates) /\ Len(us) = Len(ts) + 1
      /\ us[Len(us)] = FreshTurn
      /\ \A t \in 1..Len(ts) : t \in 1..Len(us) /\ us[t] = ts[t]
      /\ \A t \in 1..Len(us) : t \in 1..Len(ts) \/ t = Len(us)
  BY <1>1, NewTurns
<1>5. x.e.kept = 0 /\ x.e.deferred = "no"
  BY <1>2 DEF PauseFits
<1>6. TurnsFit(us, Len(us))
  <2>1. us[Len(us)].done = "no"
    BY <1>4 DEF FreshTurn
  <2>2. \A t \in 1..Len(us) : us[t].done = "full" => ~us[t].failed
    BY <2>1, <1>2, <1>4 DEF TurnsFit
  <2> QED BY <2>1, <2>2, <1>1, <1>4 DEF TurnsFit
<1>7. PauseFits(us, Len(us), Nil, x.e.kept, x.e.deferred)
  BY <1>5 DEF PauseFits
<1>8. JobsFit(us, x.e.jobs, x.e.kept)
  <2>1. ~us[Len(us)].begun
    BY <1>4 DEF FreshTurn
  <2> DEFINE jobs == x.e.jobs
             kept == x.e.kept
  <2>2. JobsFit(ts, jobs, kept) /\ kept = 0
    BY <1>2, <1>5
  <2> HIDE DEF jobs, kept
  <2>3. \A i \in 1..Len(jobs) : jobs[i].turn \in 1..Len(us)
    BY <2>2, <1>4 DEF JobsFit
  <2>4. \A t \in 1..Len(us), i \in 1..Len(jobs) :
          us[t].begun => t <= jobs[i].turn
    BY <2>1, <2>2, <1>4 DEF JobsFit
  <2>5. JobsFit(us, jobs, kept)
    BY <2>2, <2>3, <2>4 DEF JobsFit
  <2> QED BY <2>5 DEF jobs, kept
<1>9. /\ FlowFits(us, r.m.flow, r.m.retired, r.m.pending)
      /\ r.m.flow \in {q.m.flow, Len(us)} /\ r.d = q.d
  BY <1>1, <1>2, <1>3, FlowNew
<1>10. WireFits(us, x.d)
  BY <1>1, <1>2, WireNew
<1>11. Follows(us, r.m.flow, x.d)
  <2>1. q.m.flow \in 0..Len(ts)
    BY <1>2 DEF FlowFits
  <2>2. Follows(us, q.m.flow, x.d) /\ Follows(us, Len(us), x.d)
    BY <2>1, <1>1, <1>2, FollowsNew
  <2> QED BY <2>2, <1>9
<1>12. CountsFit(us, x.d, 0)
  <2>1. \A t \in AiTurns : Known(t) => Begun(ts, t)
    BY <1>2 DEF Follows
  <2>2. CountsFit(ts, x.d, 0) /\ Len(us) <= MaxTurns
    BY <1>1, <1>2, <1>4, <1>5
  <2> QED BY <2>1, <2>2, <1>1, <1>2, CountsNew
<1>13. x.e.kept + 0 = 0
  BY <1>5
<1> QED BY <1>3, <1>5, <1>6, <1>7, <1>8, <1>9, <1>10, <1>11, <1>12, <1>13 DEF Fits

-------------------------------------------------------------------------------
(* Steps that send nothing                                                   *)

\* What the client does not see of the last turn, its pause and the jobs
\* change; no frame is sent.
LEMMA EngineStep ==
    ASSUME NEW s, NEW r \in Servers, NEW k \in Nat, NEW j \in Nat, Fits(s, k),
           s.e.active # Nil, r.e.active = s.e.active,
           Marks(s.e.turns, r.e.turns), LastDiffers(s.e.turns, r.e.turns),
           \/ r.e.turns[s.e.active].failed
           \/ /\ r.e.turns[s.e.active].failed = s.e.turns[s.e.active].failed
              /\ r.e.turns[s.e.active].made - (r.e.kept + j)
                    = s.e.turns[s.e.active].made - (s.e.kept + k),
           PauseFits(r.e.turns, r.e.active, r.e.paused, r.e.kept, r.e.deferred),
           r.e.interrupted => r.e.paused = Nil,
           JobsFit(s.e.turns, r.e.jobs, r.e.kept),
           SameFlow(s, r), r.d = s.d
    PROVE  Fits(r, j)
<1> DEFINE ts == s.e.turns
           us == r.e.turns
           n == s.e.active
           d == s.d
<1>1. /\ ts \in Seq(TurnStates) /\ us \in Seq(TurnStates) /\ d \in Seq(Frames)
      /\ Len(ts) \in Nat /\ n # Nil
      /\ TurnsFit(ts, n) /\ WireFits(ts, d) /\ Follows(ts, s.m.flow, d)
      /\ CountsFit(ts, d, s.e.kept + k)
      /\ FlowFits(ts, s.m.flow, s.m.retired, s.m.pending)
      /\ Marks(ts, us) /\ LastDiffers(ts, us)
  BY ServerParts DEF Fits
<1>2. \/ us[n].failed
      \/ /\ us[n].failed = ts[n].failed
         /\ us[n].made - (r.e.kept + j) = ts[n].made - (s.e.kept + k)
  OBVIOUS
<1>3. /\ JobsFit(ts, r.e.jobs, r.e.kept)
      /\ r.e.turns = us /\ r.e.active = n /\ r.d = d
      /\ r.m.flow = s.m.flow /\ r.m.retired = s.m.retired
      /\ r.m.pending = s.m.pending
  BY DEF SameFlow
<1>4. /\ PauseFits(us, n, r.e.paused, r.e.kept, r.e.deferred)
      /\ r.e.interrupted => r.e.paused = Nil
  OBVIOUS
<1> HIDE DEF ts, us, n, d
<1>5. n = Len(ts) /\ ts[n].done = "no" /\ Len(ts) <= MaxTurns /\ Len(us) = Len(ts)
      /\ n \in 1..Len(ts)
  <2>1. n = Len(ts) /\ Len(ts) # 0 /\ ts[n].done = "no" /\ Len(ts) <= MaxTurns
    BY <1>1 DEF TurnsFit, Nil
  <2>2. Len(us) = Len(ts)
    BY <1>1 DEF Marks
  <2>3. n \in 1..Len(ts)
    BY <1>1, <2>1
  <2> QED BY <2>1, <2>2, <2>3
<1>6. TurnsFit(us, n)
  <2>1. \A t \in 1..Len(us) : us[t].done = "full" => ~us[t].failed
    <3>1. \A t \in 1..Len(ts) : us[t].done = ts[t].done
      BY <1>1 DEF Marks
    <3>2. \A t \in 1..Len(ts) : t # n => us[t] = ts[t]
      BY <1>1, <1>5 DEF LastDiffers
    <3>3. \A t \in 1..Len(ts) : ts[t].done = "full" => ~ts[t].failed
      BY <1>1 DEF TurnsFit
    <3> QED BY <3>1, <3>2, <3>3, <1>5
  <2>2. us[Len(us)].done = "no"
    BY <1>1, <1>5 DEF Marks
  <2> QED BY <2>1, <2>2, <1>1, <1>5 DEF TurnsFit
<1>7. /\ WireFits(us, d) /\ Follows(us, s.m.flow, d)
      /\ JobsFit(us, r.e.jobs, r.e.kept)
      /\ FlowFits(us, s.m.flow, s.m.retired, s.m.pending)
  BY <1>1, <1>3, MarkedFits
<1>8. CountsFit(us, d, r.e.kept + j)
  <2> DEFINE u == s.e.kept + k
             v == r.e.kept + j
  <2>1. CountsFit(ts, d, u)
    BY <1>1
  <2>2. \/ us[Len(ts)].failed
        \/ /\ us[Len(ts)].failed = ts[Len(ts)].failed
           /\ us[Len(ts)].made - v = ts[Len(ts)].made - u
    BY <1>2, <1>5
  <2>3. ts[Len(ts)].done = "no"
    BY <1>5
  <2> HIDE DEF u, v
  <2>4. CountsFit(us, d, v)
    BY <2>1, <2>2, <2>3, <1>1, CountsMarked
  <2> QED BY <2>4 DEF v
<1> QED BY <1>3, <1>4, <1>6, <1>7, <1>8 DEF Fits

\* What cannot be seen at all.
LEMMA SameMarks ==
    ASSUME NEW ts \in Seq(TurnStates), Len(ts) > 0
    PROVE  Marks(ts, ts) /\ LastDiffers(ts, ts)
BY DEF Marks, LastDiffers

\* The active turn is the last, and not over.
LEMMA ActiveTurn ==
    ASSUME NEW s, NEW k, Fits(s, k), s.e.active # Nil
    PROVE  /\ s.e.active = Len(s.e.turns) /\ Len(s.e.turns) > 0
           /\ s.e.active \in 1..Len(s.e.turns)
           /\ s.e.turns[s.e.active] \in TurnStates
           /\ s.e.turns[s.e.active].done = "no"
<1>1. s.e.turns \in Seq(TurnStates) /\ Len(s.e.turns) \in Nat
  BY ServerParts DEF Fits
<1>2. TurnsFit(s.e.turns, s.e.active)
  BY DEF Fits
<1>3. s.e.active = Len(s.e.turns) /\ Len(s.e.turns) > 0
  BY <1>1, <1>2 DEF TurnsFit, Nil
<1>4. s.e.active \in 1..Len(s.e.turns) /\ s.e.turns[s.e.active].done = "no"
  BY <1>1, <1>2, <1>3 DEF TurnsFit
<1> QED BY <1>1, <1>3, <1>4

\* Where nothing is active nothing is paused, and nothing kept.
LEMMA NothingPaused ==
    ASSUME NEW s, NEW k, Fits(s, k)
    PROVE  /\ s.e.paused = Nil => s.e.kept = 0 /\ s.e.deferred = "no"
           /\ s.e.paused # Nil => s.e.paused = s.e.active
           /\ s.e.deferred = "full" => ~s.e.turns[s.e.paused].failed
BY DEF Fits, PauseFits

\* The jobs before the last turn are over when the first is of it.
LEMMA LastJobs ==
    ASSUME NEW s, NEW k, Fits(s, k), s.e.jobs # <<>>,
           s.e.jobs[1].turn = Len(s.e.turns)
    PROVE  \A i \in 1..Len(s.e.jobs) : s.e.jobs[i].turn = Len(s.e.turns)
<1> DEFINE jobs == s.e.jobs
           ts == s.e.turns
<1>1. JobsFit(ts, jobs, s.e.kept) /\ jobs \in Seq(JobStates) /\ Len(ts) \in Nat
      /\ jobs # <<>> /\ jobs[1].turn = Len(ts)
  BY ServerParts DEF Fits
<1> HIDE DEF jobs, ts
<1>2. 1 \in 1..Len(jobs)
  BY <1>1
<1>3. \A i \in 1..Len(jobs) : jobs[i].turn = Len(ts)
  BY <1>1, <1>2 DEF JobsFit
<1> QED BY <1>3 DEF jobs, ts

-------------------------------------------------------------------------------
(* The output of a response                                                  *)

\* emitResponseOutput touches the flow and the frames, in one of the six ways
\* of Emitted.
LEMMA EmitFields ==
    ASSUME NEW s \in Servers, NEW kind \in {"started", "audio", "terminal"},
           NEW t \in Nat, NEW n \in Nat
    PROVE  LET r == Emit(s, kind, t, n)
           IN  /\ r \in Servers
               /\ r.e = s.e /\ Keeps(s, r)
               /\ r.m.speaking = s.m.speaking /\ r.m.audioTurn = s.m.audioTurn
               /\ Emitted(s, r, kind, t, n)
<1> DEFINE frames == [i \in 1..n |-> Frame("audio", t, Nil)]
           outputs == [i \in 1..n |-> [kind |-> kind, turn |-> t]]
<1>0. Nil \in Nat /\ <<>> \in Seq(Outputs) /\ s.d \in Seq(Frames)
      /\ s.m.pending \in Seq(Outputs) /\ Len(s.m.pending) \in Nat
      /\ Len(s.d) \in Nat
  BY DEF Nil, Servers, Medias
<1>1. frames \in Seq(Frames) /\ Len(frames) = n
      /\ \A i \in 1..n : frames[i] = Frame("audio", t, Nil)
  BY DEF Frame, Frames, TurnKinds, OtherKinds, Nil
<1>2. outputs \in Seq(Outputs) /\ Len(outputs) = n
      /\ \A i \in 1..n : outputs[i].turn = t
  BY DEF Outputs
<1> HIDE DEF frames, outputs
<1>3. s.d \o frames \in Seq(Frames)
      /\ Appended(s.d, s.d \o frames, Frame("audio", t, Nil), n)
  <2> DEFINE d == s.d
             q == d \o frames
             f == Frame("audio", t, Nil)
  <2>1. d \in Seq(Frames) /\ Len(d) \in Nat /\ \A i \in 1..n : frames[i] = f
    BY <1>0, <1>1
  <2> HIDE DEF d, f
  <2>2. q \in Seq(Frames) /\ Len(q) = Len(d) + n
    BY <2>1, <1>1
  <2>3. \A i \in 1..Len(d) : q[i] = d[i]
    BY <2>1, <1>1
  <2>4. \A i \in (Len(d) + 1)..Len(q) : q[i] = f
    BY <2>1, <2>2, <1>1
  <2> HIDE DEF q
  <2>5. q \in Seq(Frames) /\ Appended(d, q, f, n)
    BY <2>2, <2>3, <2>4 DEF Appended
  <2> QED BY <2>5 DEF d, q, f
<1>4. Extends(s.d, s.d \o frames) /\ Extends(s.d, s.d)
  BY <1>0, <1>3 DEF Appended, Extends, Frame
<1>5. s.m.pending \o outputs \in Seq(Outputs)
      /\ \A i \in 1..Len(s.m.pending \o outputs) :
             \/ /\ i \in 1..Len(s.m.pending)
                /\ (s.m.pending \o outputs)[i] = s.m.pending[i]
             \/ (s.m.pending \o outputs)[i].turn = t
  BY <1>0, <1>2
<1>6. s.m.retired \cup {t} \in SUBSET Nat
  BY DEF Servers, Medias
<1>7. CASE t \in s.m.retired
  BY <1>7, <1>4 DEF Emit, Keeps, Emitted, SameFlow
<1>8. CASE t \notin s.m.retired /\ s.m.flow = Nil /\ kind # "started"
  <2> DEFINE r == [s EXCEPT !.m.pending = <<>>, !.m.flow = Nil,
                            !.m.retired = s.m.retired \cup {t}]
  <2>1. Emit(s, kind, t, n) = r
    BY <1>8, Zenon DEF Emit, FailPending
  <2>2. r \in Servers
    BY <1>6, <1>0, Zenon DEF Servers, Medias
  <2>3. r.e = s.e /\ r.o = s.o /\ r.d = s.d /\ r.m.speaking = s.m.speaking
        /\ r.m.audioTurn = s.m.audioTurn /\ r.m.pending = <<>>
        /\ r.m.flow = Nil /\ r.m.retired = s.m.retired \cup {t}
    BY Zenon DEF Servers, Medias
  <2>4. r.m.pausing = s.m.pausing /\ r.m.pauses = s.m.pauses
        /\ r.m.paused = s.m.paused /\ r.m.asked = s.m.asked
        /\ r.m.checking = s.m.checking
    BY Zenon DEF Servers, Medias
  <2> HIDE DEF r
  <2>5. Keeps(s, r)
    BY <2>3, <2>4, <1>4 DEF PauseOf, Keeps
  <2>6. Emitted(s, r, kind, t, n)
    BY <2>3, <1>8 DEF Emitted
  <2> QED BY <2>1, <2>2, <2>3, <2>5, <2>6
<1>9. CASE t \notin s.m.retired /\ ~(s.m.flow = Nil /\ kind # "started")
           /\ s.m.flow \notin {Nil, t}
  <2> DEFINE q == s.m.pending \o outputs
             r == [s EXCEPT !.m.pending = q]
  <2>1. Emit(s, kind, t, n) = r
    BY <1>9, Zenon DEF Emit, outputs
  <2>0. q \in Seq(Outputs)
        /\ \A i \in 1..Len(q) : \/ i \in 1..Len(s.m.pending) /\ q[i] = s.m.pending[i]
                                \/ q[i].turn = t
    BY <1>5
  <2> HIDE DEF q
  <2>2. r \in Servers
    BY <2>0, Zenon DEF Servers, Medias
  <2>3. r.e = s.e /\ r.o = s.o /\ r.d = s.d /\ r.m.speaking = s.m.speaking
        /\ r.m.audioTurn = s.m.audioTurn /\ r.m.pending = q
        /\ r.m.flow = s.m.flow /\ r.m.retired = s.m.retired
    BY Zenon DEF Servers, Medias
  <2>4. r.m.pausing = s.m.pausing /\ r.m.pauses = s.m.pauses
        /\ r.m.paused = s.m.paused /\ r.m.asked = s.m.asked
        /\ r.m.checking = s.m.checking
    BY Zenon DEF Servers, Medias
  <2> HIDE DEF r
  <2>5. Keeps(s, r)
    BY <2>3, <2>4, <1>4 DEF PauseOf, Keeps
  <2>6. Emitted(s, r, kind, t, n)
    BY <2>0, <2>3, <1>9 DEF Emitted
  <2> QED BY <2>1, <2>2, <2>3, <2>5, <2>6
<1>10. CASE t \notin s.m.retired /\ ~(s.m.flow = Nil /\ kind # "started")
           /\ s.m.flow \in {Nil, t}
  <2> DEFINE x == [s EXCEPT !.m.flow = t]
  <2>1. x \in Servers
    BY Zenon DEF Servers, Medias
  <2>2. x.e = s.e /\ x.o = s.o /\ x.d = s.d
        /\ x.m.speaking = s.m.speaking /\ x.m.audioTurn = s.m.audioTurn
        /\ x.m.retired = s.m.retired /\ x.m.pending = s.m.pending
        /\ x.m.flow = t
    BY Zenon DEF Servers, Medias
  <2>3. x.m.pausing = s.m.pausing /\ x.m.pauses = s.m.pauses
        /\ x.m.paused = s.m.paused /\ x.m.asked = s.m.asked
        /\ x.m.checking = s.m.checking
    BY Zenon DEF Servers, Medias
  <2>4. Emit(s, kind, t, n) = Deliver(x, kind, t, n)
    BY <1>10 DEF Emit
  <2> HIDE DEF x
  <2>5. Keeps(s, x)
    BY <2>2, <2>3, <1>4 DEF PauseOf, Keeps
  <2>6. CASE kind = "audio"
    <3> DEFINE q == s.d \o frames
               r == [x EXCEPT !.d = q]
    <3>1. Deliver(x, kind, t, n) = r
      BY <2>6, <2>2 DEF Deliver, frames
    <3>2. q \in Seq(Frames) /\ Extends(s.d, q)
          /\ Appended(s.d, q, Frame("audio", t, Nil), n)
      BY <1>3, <1>4
    <3> HIDE DEF q
    <3>3. r \in Servers /\ r.e = x.e /\ r.o = x.o /\ r.m = x.m /\ r.d = q
      BY <3>2, <2>1 DEF Servers
    <3> HIDE DEF r
    <3>4. Keeps(s, r)
      BY <3>2, <3>3, <2>2, <2>5 DEF Keeps
    <3>5. s.m.flow = t
      BY <1>10, <2>6
    <3>6. Emitted(s, r, kind, t, n)
      BY <3>2, <3>3, <3>5, <2>2, <2>6, <1>10 DEF Emitted, SameFlow
    <3> QED BY <3>1, <3>3, <3>4, <3>6, <2>2, <2>4
  <2>7. CASE kind = "terminal"
    <3> DEFINE r == [x EXCEPT !.m.flow = Nil, !.m.retired = s.m.retired \cup {t}]
    <3>1. Deliver(x, kind, t, n) = r
      BY <2>7, <2>2, Zenon DEF Deliver
    <3>2. r \in Servers
      BY <2>1, <1>6, <1>0, Zenon DEF Servers, Medias
    <3>3. r.e = x.e /\ r.o = x.o /\ r.d = x.d /\ r.m.speaking = x.m.speaking
          /\ r.m.audioTurn = x.m.audioTurn /\ r.m.pending = x.m.pending
          /\ r.m.flow = Nil /\ r.m.retired = s.m.retired \cup {t}
      BY <2>1, Zenon DEF Servers, Medias
    <3>4. r.m.pausing = x.m.pausing /\ r.m.pauses = x.m.pauses
          /\ r.m.paused = x.m.paused /\ r.m.asked = x.m.asked
          /\ r.m.checking = x.m.checking
      BY <2>1, Zenon DEF Servers, Medias
    <3> HIDE DEF r
    <3>5. Keeps(s, r)
      BY <3>3, <3>4, <2>2, <2>3, <1>4 DEF Keeps, PauseOf
    <3>6. s.m.flow = t
      BY <1>10, <2>7
    <3>7. Emitted(s, r, kind, t, n)
      BY <3>3, <3>6, <2>2, <2>7, <1>10 DEF Emitted
    <3> QED BY <3>1, <3>2, <3>3, <3>5, <3>7, <2>2, <2>4
  <2>8. CASE kind = "started"
    <3>1. Deliver(x, kind, t, n) = x
      BY <2>8 DEF Deliver
    <3>2. Emitted(s, x, kind, t, n)
      BY <2>2, <2>8, <1>10 DEF Emitted
    <3> QED BY <3>1, <3>2, <2>1, <2>2, <2>4, <2>5
  <2> QED BY <2>6, <2>7, <2>8
<1> QED BY <1>7, <1>8, <1>9, <1>10

-------------------------------------------------------------------------------
(* Audio is sent                                                             *)

\* What two steps keep, ...
LEMMA KeepsTwice ==
    ASSUME NEW s \in Servers, NEW q \in Servers, NEW r \in Servers,
           Keeps(s, q), Keeps(q, r)
    PROVE  Keeps(s, r)
<1> DEFINE a == s.d
           b == q.d
           c == r.d
<1>1. /\ Len(a) \in Nat /\ Len(b) \in Nat /\ Len(c) \in Nat
      /\ Extends(a, b) /\ Extends(b, c)
  BY ServerParts DEF Keeps
<1> HIDE DEF a, b, c
<1>2. Extends(a, c)
  BY <1>1 DEF Extends
<1> QED BY <1>2 DEF Keeps, a, c

\* ... and what standing still keeps.
LEMMA KeepsSelf ==
    ASSUME NEW s \in Servers PROVE Keeps(s, s)
BY ServerParts DEF Keeps, Extends

\* One frame that is no pause.
LEMMA ExtendsOnce ==
    ASSUME NEW d \in Seq(Frames), NEW f \in Frames
    PROVE  /\ Append(d, f) \in Seq(Frames)
           /\ Appended(d, Append(d, f), f, 1)
           /\ f.kind # "pause" => Extends(d, Append(d, f))
BY DEF Appended, Extends

\* Audio of the engine.
LEMMA AudioOutStep ==
    ASSUME PlayerFits, NEW s, NEW t, NEW k \in Nat, NEW n \in Nat,
           Fits(s, k), t \in 1..Len(s.e.turns),
           \A u \in 1..Len(s.e.turns) : s.e.turns[u].begun => u <= t,
           Owes(s.e.turns, t) => s.e.turns[t].begun /\ k = n
    PROVE  LET r == AudioOut(s, t, n)
           IN  /\ Fits(r, IF Owes(s.e.turns, t) THEN 0 ELSE k)
               /\ r.e = s.e /\ Keeps(s, r)
<1> DEFINE x == [s EXCEPT !.m.speaking = @ \/ n > 0]
           r == Emit(x, "audio", t, n)
<1>1. AudioOut(s, t, n) = r
  BY DEF AudioOut
<1>2. s \in Servers /\ t \in Nat /\ s.m.speaking \in BOOLEAN
  <2>1. s \in Servers
    BY DEF Fits
  <2>2. t \in Nat
    BY <2>1, ServerParts
  <2> QED BY <2>1, <2>2 DEF Servers, Medias
<1>3. (s.m.speaking \/ n > 0) \in BOOLEAN
  OBVIOUS
<1>4. x \in Servers
  BY <1>2, <1>3, Zenon DEF Servers, Medias
<1>5. x.e = s.e /\ x.o = s.o /\ x.d = s.d /\ x.m.flow = s.m.flow
      /\ x.m.retired = s.m.retired /\ x.m.pending = s.m.pending
      /\ x.m.pausing = s.m.pausing /\ x.m.pauses = s.m.pauses
      /\ x.m.paused = s.m.paused /\ x.m.asked = s.m.asked
      /\ x.m.checking = s.m.checking
  BY <1>2, Zenon DEF Servers, Medias
<1> HIDE DEF x
<1>6. Keeps(s, x)
  BY <1>2, <1>5, KeepsSelf DEF Keeps, PauseOf
<1>7. r \in Servers /\ r.e = x.e /\ Keeps(x, r) /\ Emitted(x, r, "audio", t, n)
  BY <1>2, <1>4, EmitFields, ZenonT(40)
<1> HIDE DEF r
<1>8. Emitted(s, r, "audio", t, n)
  BY <1>5, <1>7 DEF Emitted, SameFlow
<1>9. Keeps(s, r)
  BY <1>2, <1>4, <1>6, <1>7, KeepsTwice
<1>10. SameEngine(s, r)
  BY <1>5, <1>7 DEF SameEngine
<1>11. Fits(r, IF Owes(s.e.turns, t) THEN 0 ELSE k)
  BY <1>7, <1>8, <1>10, AudioStep
<1> QED BY <1>1, <1>5, <1>7, <1>9, <1>11

\* The engine goes on, but for what is kept and announced.
GoesOn(s, r) ==
    /\ r.e.active = s.e.active /\ r.e.paused = s.e.paused
    /\ r.e.kept = s.e.kept /\ r.e.deferred = s.e.deferred
    /\ r.e.jobs = s.e.jobs /\ r.e.text = s.e.text
    /\ r.e.interrupted = s.e.interrupted
    /\ Len(r.e.turns) = Len(s.e.turns)
    /\ s.e.active # Nil =>
          /\ r.e.turns[s.e.active].failed = s.e.turns[s.e.active].failed
          /\ r.e.turns[s.e.active].returned = s.e.turns[s.e.active].returned

\* The active turn is announced just before its first chunk.
LEMMA AnnouncedStep ==
    ASSUME PlayerFits, NEW s, NEW k \in Nat, NEW t, Fits(s, k),
           t = s.e.active, t # Nil,
           \A i \in 1..Len(s.e.jobs) : s.e.jobs[i].turn = t
    PROVE  LET r == Announced(s, t)
           IN  Fits(r, k) /\ Keeps(s, r) /\ GoesOn(s, r) /\ r.e.turns[t].begun
<1>1. /\ s \in Servers /\ t = Len(s.e.turns) /\ t \in 1..Len(s.e.turns)
      /\ s.e.turns[t] \in TurnStates /\ s.e.turns[t].done = "no"
      /\ s.d \in Seq(Frames) /\ s.e.turns \in Seq(TurnStates) /\ t \in Nat
  BY ActiveTurn, ServerParts DEF Fits
<1>2. CASE s.e.turns[t].begun
  BY <1>1, <1>2, KeepsSelf DEF Announced, GoesOn
<1>3. CASE ~s.e.turns[t].begun
  <2> DEFINE f == Frame("start", t, Nil)
             d == Append(s.d, f)
             us == [s.e.turns EXCEPT ![t].begun = TRUE]
             r == [s EXCEPT !.e.turns = us, !.m.audioTurn = t, !.d = d]
  <2>1. f \in Frames /\ f.kind # "pause"
    BY <1>1 DEF f, Frame, Frames, TurnKinds, Nil
  <2>2. d \in Seq(Frames) /\ Appended(s.d, d, f, 1) /\ Extends(s.d, d)
    <3> HIDE DEF f
    <3> QED BY <1>1, <2>1, ExtendsOnce
  <2>3. /\ us \in Seq(TurnStates) /\ Len(us) = Len(s.e.turns)
        /\ us[t].begun = TRUE /\ us[t].failed = s.e.turns[t].failed
        /\ us[t].returned = s.e.turns[t].returned
    <3> DEFINE ts == s.e.turns
    <3>1. ts \in Seq(TurnStates) /\ t \in 1..Len(ts) /\ ts[t] \in TurnStates
      BY <1>1
    <3> HIDE DEF ts
    <3>2. [ts[t] EXCEPT !.begun = TRUE] \in TurnStates
      BY <3>1 DEF TurnStates
    <3>3. us = [ts EXCEPT ![t] = [ts[t] EXCEPT !.begun = TRUE]]
      BY DEF ts
    <3>4. us \in Seq(TurnStates) /\ Len(us) = Len(ts)
          /\ us[t] = [ts[t] EXCEPT !.begun = TRUE]
      <4> DEFINE v == [ts[t] EXCEPT !.begun = TRUE]
      <4> HIDE DEF v
      <4>1. us = [ts EXCEPT ![t] = v] /\ v \in TurnStates
        BY <3>2, <3>3 DEF v
      <4> HIDE DEF us
      <4>2. us \in Seq(TurnStates) /\ Len(us) = Len(ts) /\ us[t] = v
        BY <3>1, <4>1
      <4> QED BY <4>2 DEF v
    <3> HIDE DEF us
    <3>5. us[t].begun = TRUE /\ us[t].failed = ts[t].failed
          /\ us[t].returned = ts[t].returned
      BY <3>1, <3>4 DEF TurnStates
    <3> QED BY <3>4, <3>5 DEF ts
  <2>4. Announced(s, t) = r
    BY <1>3, <1>1, Zenon DEF Announced, Send, Servers, Engines, Medias
  <2>5. us = [s.e.turns EXCEPT ![s.e.active].begun = TRUE]
    OBVIOUS
  <2> HIDE DEF d, f, us
  <2>6. r \in Servers
    BY <1>1, <2>2, <2>3, Zenon DEF Servers, Engines, Medias
  <2>7. /\ r.e.turns = us /\ r.e.active = s.e.active /\ r.e.text = s.e.text
        /\ r.e.interrupted = s.e.interrupted /\ r.e.paused = s.e.paused
        /\ r.e.kept = s.e.kept /\ r.e.deferred = s.e.deferred
        /\ r.e.jobs = s.e.jobs
    BY <1>1, Zenon DEF Servers, Engines, Medias
  <2>8. /\ r.o = s.o /\ r.d = d /\ r.m.flow = s.m.flow
        /\ r.m.retired = s.m.retired /\ r.m.pending = s.m.pending
        /\ r.m.pausing = s.m.pausing /\ r.m.pauses = s.m.pauses
        /\ r.m.paused = s.m.paused /\ r.m.asked = s.m.asked
        /\ r.m.checking = s.m.checking
    BY <1>1, Zenon DEF Servers, Engines, Medias
  <2> HIDE DEF r
  <2>9. Keeps(s, r) /\ SameFlow(s, r)
    BY <2>2, <2>8 DEF Keeps, PauseOf, SameFlow
  <2>10. Fits(r, k)
    BY <1>3, <2>2, <2>5, <2>6, <2>7, <2>8, <2>9, AnnounceStep DEF f
  <2>11. GoesOn(s, r) /\ r.e.turns[t].begun
    BY <2>3, <2>7 DEF GoesOn
  <2> QED BY <2>4, <2>9, <2>10, <2>11
<1> QED BY <1>2, <1>3

\* All that is owed of the active turn is sent.
LEMMA SendStep ==
    ASSUME PlayerFits, NEW s, NEW t, NEW n \in Nat, Fits(s, n),
           t = s.e.active, t # Nil,
           n > 0 => \A i \in 1..Len(s.e.jobs) : s.e.jobs[i].turn = t
    PROVE  LET r == SendTurnAudio(s, t, n)
           IN  Fits(r, 0) /\ Keeps(s, r) /\ GoesOn(s, r)
<1>1. s \in Servers
  BY DEF Fits
<1>2. CASE n = 0
  BY <1>1, <1>2, KeepsSelf DEF SendTurnAudio, GoesOn
<1>3. CASE n # 0
  <2> DEFINE x == Announced(s, t)
             r == AudioOut(x, t, n)
  <2>1. Fits(x, n) /\ Keeps(s, x) /\ GoesOn(s, x) /\ x.e.turns[t].begun
    BY <1>3, AnnouncedStep
  <2>2. SendTurnAudio(s, t, n) = r
    BY <1>3 DEF SendTurnAudio
  <2> HIDE DEF x
  <2>3. /\ t = Len(x.e.turns) /\ t \in 1..Len(x.e.turns)
        /\ x.e.turns[t].done = "no" /\ x \in Servers
        /\ x.e.turns \in Seq(TurnStates) /\ Len(x.e.turns) \in Nat
        /\ CountsFit(x.e.turns, x.d, x.e.kept + n)
    <3>1. x.e.active = t
      BY <2>1 DEF GoesOn
    <3>2. x \in Servers /\ CountsFit(x.e.turns, x.d, x.e.kept + n)
      BY <2>1 DEF Fits
    <3> QED BY <2>1, <3>1, <3>2, ActiveTurn, ServerParts
  <2>4. \A u \in 1..Len(x.e.turns) : x.e.turns[u].begun => u <= t
    BY <2>3
  <2>5. Fits(r, IF Owes(x.e.turns, t) THEN 0 ELSE n) /\ r.e = x.e /\ Keeps(x, r)
    BY <2>1, <2>3, <2>4, AudioOutStep, ZenonT(40)
  <2> HIDE DEF r
  <2>6. Fits(r, 0)
    <3>1. CASE Owes(x.e.turns, t)
      BY <3>1, <2>5
    <3>2. CASE ~Owes(x.e.turns, t)
      <4>1. Fits(r, n)
        BY <3>2, <2>5
      <4>0. ~Good(x.e.turns, t)
        BY <2>3, <3>2 DEF Owes
      <4>2. CountsFit(r.e.turns, r.d, r.e.kept + 0)
        <5> DEFINE ts == r.e.turns
        <5>1. ts \in Seq(TurnStates) /\ ~Good(ts, Len(ts))
              /\ CountsFit(ts, r.d, r.e.kept + n)
          BY <4>0, <4>1, <2>3, <2>5 DEF Fits
        <5> HIDE DEF ts
        <5>2. CountsFit(ts, r.d, r.e.kept + 0)
          BY <5>1, NothingOwed
        <5> QED BY <5>2 DEF ts
      <4> QED BY <4>1, <4>2 DEF Fits
    <3> QED BY <3>1, <3>2
  <2>7. r \in Servers
    BY <2>6 DEF Fits
  <2>8. Keeps(s, r)
    BY <1>1, <2>1, <2>3, <2>5, <2>7, KeepsTwice
  <2>9. GoesOn(s, r)
    BY <2>1, <2>5 DEF GoesOn
  <2> QED BY <2>2, <2>6, <2>8, <2>9
<1> QED BY <1>2, <1>3

-------------------------------------------------------------------------------
(* Turns end and begin                                                       *)

\* The frame of a superseded turn.
LEMMA SupersededStep ==
    ASSUME NEW s, NEW user \in BOOLEAN, Fits(s, 0)
    PROVE  LET r == Superseded(s, user)
           IN  /\ Fits(r, 0) /\ Keeps(s, r) /\ r.e = s.e /\ r.m = s.m
               /\ r.o = s.o
<1>1. s \in Servers /\ s.d \in Seq(Frames)
  BY ServerParts DEF Fits
<1>2. CASE ~user
  BY <1>1, <1>2, KeepsSelf DEF Superseded
<1>3. CASE user
  <2> DEFINE f == Frame("superseded", Nil, Nil)
             d == Append(s.d, f)
             r == [s EXCEPT !.d = d]
  <2>1. f \in Frames /\ f.kind \in OtherKinds /\ f.kind # "pause"
    BY DEF Frame, Frames, TurnKinds, OtherKinds, Nil
  <2>2. d \in Seq(Frames) /\ Appended(s.d, d, f, 1) /\ Extends(s.d, d)
    <3> HIDE DEF f
    <3> QED BY <1>1, <2>1, ExtendsOnce
  <2>3. Superseded(s, user) = r
    BY <1>3 DEF Superseded, Send
  <2> HIDE DEF d, f
  <2>4. r \in Servers /\ r.e = s.e /\ r.o = s.o /\ r.m = s.m /\ r.d = d
    BY <1>1, <2>2 DEF Servers
  <2> HIDE DEF r
  <2>5. Keeps(s, r) /\ SameEngine(s, r) /\ SameFlow(s, r)
    BY <2>2, <2>4 DEF Keeps, SameEngine, SameFlow
  <2>6. Fits(r, 0)
    BY <2>1, <2>2, <2>4, <2>5, OtherStep
  <2> QED BY <2>3, <2>4, <2>5, <2>6
<1> QED BY <1>2, <1>3

\* The start of a turn.
LEMMA NewTurnStep ==
    ASSUME NEW s, NEW user \in BOOLEAN, Fits(s, 0), s.e.paused = Nil
    PROVE  LET r == NewTurn(s, user)
           IN  Fits(r, 0) /\ Keeps(s, r) /\ r.e.paused = Nil
<1>1. s \in Servers /\ s.e.turns \in Seq(TurnStates) /\ Len(s.e.turns) \in Nat
      /\ Len(s.e.turns) <= MaxTurns
  BY ServerParts DEF Fits, TurnsFit
<1>2. CASE Len(s.e.turns) = MaxTurns
  BY <1>1, <1>2, KeepsSelf DEF NewTurn
<1>3. CASE Len(s.e.turns) # MaxTurns
  <2> DEFINE c == Len(s.e.turns) + 1
             us == Append(s.e.turns, FreshTurn)
             a == [s EXCEPT !.e.turns = us, !.e.active = c]
             x == Superseded(s, user)
             q == Superseded(a, user)
             r == Emit(q, "started", c, 1)
  <2>1. us \in Seq(TurnStates) /\ Len(us) = c /\ c \in Nat
    <3>1. us = Append(s.e.turns, FreshTurn)
      OBVIOUS
    <3> HIDE DEF us
    <3>2. us \in Seq(TurnStates) /\ Len(us) = c
      BY <1>1, <3>1, NewTurns
    <3>3. c \in Nat
      BY <1>1
    <3> QED BY <3>2, <3>3
  <2>2. NewTurn(s, user) = r
    BY <1>3, Zenon DEF NewTurn
  <2>3. /\ Fits(x, 0) /\ Keeps(s, x) /\ x.e = s.e /\ x.m = s.m
        /\ x.o = s.o /\ x \in Servers
    BY SupersededStep DEF Fits
  <2>4. us = Append(s.e.turns, FreshTurn) /\ c = Len(s.e.turns) + 1
    OBVIOUS
  <2> HIDE DEF c, us
  <2>5. /\ a \in Servers /\ a.d = s.d /\ a.o = s.o /\ a.m = s.m
        /\ a.e.turns = us /\ a.e.active = c
        /\ a.e.paused = s.e.paused /\ a.e.kept = s.e.kept
        /\ a.e.deferred = s.e.deferred /\ a.e.jobs = s.e.jobs
    BY <1>1, <2>1, Zenon DEF Servers, Engines, Medias
  <2> HIDE DEF a
  <2>6. /\ q \in Servers /\ q.e = a.e /\ q.m = x.m /\ q.o = x.o /\ q.d = x.d
    <3>1. CASE ~user
      BY <3>1, <2>5 DEF Superseded
    <3>2. CASE user
      <4> DEFINE f == Frame("superseded", Nil, Nil)
      <4>1. f \in Frames
        BY DEF Frame, Frames, TurnKinds, OtherKinds, Nil
      <4>2. q = [a EXCEPT !.d = Append(@, f)] /\ x = [s EXCEPT !.d = Append(@, f)]
        BY <3>2 DEF Superseded, Send
      <4> HIDE DEF f, q, x
      <4>3. s.d \in Seq(Frames) /\ Append(s.d, f) \in Seq(Frames)
        BY <1>1, <4>1, ServerParts, ExtendsOnce
      <4> DEFINE d == Append(s.d, f)
      <4>4. d \in Seq(Frames) /\ q = [a EXCEPT !.d = d] /\ x = [s EXCEPT !.d = d]
        BY <4>2, <4>3, <1>1, <2>5 DEF Servers
      <4> HIDE DEF d
      <4> QED BY <4>4, <1>1, <2>5 DEF Servers
    <3> QED BY <3>1, <3>2
  <2> HIDE DEF x, q
  <2>7. r \in Servers /\ r.e = q.e /\ Keeps(q, r) /\ Emitted(q, r, "started", c, 1)
    BY <2>1, <2>6, EmitFields
  <2> HIDE DEF r
  <2>8. Fits(r, 0)
    <3>1. /\ Len(x.e.turns) < MaxTurns /\ x.e.paused = Nil
          /\ SameFlow(x, q) /\ q.d = x.d
      BY <1>1, <1>3, <2>3, <2>6, PlayerBounds DEF SameFlow
    <3>2. /\ r.e.turns = Append(x.e.turns, FreshTurn)
          /\ r.e.active = Len(x.e.turns) + 1 /\ r.e.paused = x.e.paused
          /\ r.e.kept = x.e.kept /\ r.e.deferred = x.e.deferred
          /\ r.e.jobs = x.e.jobs
      BY <2>3, <2>4, <2>5, <2>6, <2>7
    <3>3. Emitted(q, r, "started", Len(x.e.turns) + 1, 1)
      BY <2>3, <2>4, <2>7
    <3> QED BY <2>3, <2>6, <2>7, <3>1, <3>2, <3>3, NewStep
  <2>9. Keeps(x, r)
    BY <2>6, <2>7 DEF Keeps
  <2>10. Keeps(s, r)
    BY <1>1, <2>3, <2>7, <2>9, KeepsTwice
  <2>11. r.e.paused = Nil
    BY <2>5, <2>6, <2>7
  <2> QED BY <2>2, <2>8, <2>10, <2>11
<1> QED BY <1>2, <1>3

\* The terminal of a response.
LEMMA TerminalFields ==
    ASSUME NEW q \in Servers, NEW n \in Nat
    PROVE  LET c == Emit(q, "terminal", n, 1)
           IN  /\ c \in Servers /\ c.e = q.e /\ Keeps(q, c)
               /\ Emitted(q, c, "terminal", n, 1)
BY EmitFields

\* The interviewer has spoken: x is the server before the turn ended.
LEMMA FireStep ==
    ASSUME NEW x, NEW s \in Servers, NEW k \in Nat, NEW n, NEW completed \in BOOLEAN,
           Fits(x, k), n = x.e.active, n # Nil, x.e.paused = Nil,
           s.e.turns = x.e.turns, s.e.active \in {Nil, n},
           s.e.paused = Nil, s.e.kept = x.e.kept,
           s.e.deferred = x.e.deferred, s.e.jobs = x.e.jobs,
           SameFlow(x, s), s.d = x.d,
           completed => k = 0 /\ ~x.e.turns[n].failed
    PROVE  LET r == FireAiDone(s, n, completed)
           IN  Fits(r, 0) /\ Keeps(s, r) /\ r.e.paused = Nil
<1> DEFINE done == IF completed THEN "full" ELSE "partial"
           ts == s.e.turns
           us == [ts EXCEPT ![n].done = done]
           a == [s EXCEPT !.e.turns = us]
           q == AudioEnded(a, n, completed)
           c == Emit(q, "terminal", n, 1)
           y == [c EXCEPT !.e.active = Nil, !.m.speaking = FALSE]
           z == [c EXCEPT !.e.active = Nil, !.m.speaking = FALSE,
                          !.e.text = FALSE]
<1>1. /\ x \in Servers /\ ts \in Seq(TurnStates) /\ n \in 1..Len(ts) /\ n = Len(ts)
      /\ ts[n] \in TurnStates /\ ts[n].done = "no" /\ n \in Nat /\ Len(ts) \in Nat
      /\ ts = x.e.turns /\ s.d \in Seq(Frames)
  BY ActiveTurn, ServerParts DEF Fits
<1>2. done \in {"full", "partial"} /\ (done = "full" <=> completed)
  OBVIOUS
<1>3. us = [ts EXCEPT ![n] = [ts[n] EXCEPT !.done = done]]
  OBVIOUS
<1>4. s.e.turns = ts
  OBVIOUS
<1>5. FireAiDone(s, n, completed) = SettleResponse(c, n)
  <2>1. [s EXCEPT !.e.turns[n].done = done] = a
    BY Zenon DEF Servers, Engines
  <2>2. s.e.turns[n].done = "no" /\ s.e.paused # n
    BY <1>1 DEF Nil
  <2> HIDE DEF a
  <2> QED BY <2>1, <2>2, Zenon DEF FireAiDone
<1> HIDE DEF done, ts, us
<1>6. /\ us \in Seq(TurnStates) /\ Len(us) = Len(ts)
      /\ us[n] = [ts[n] EXCEPT !.done = done]
      /\ \A t \in 1..Len(ts) : t # n => us[t] = ts[t]
  <2> DEFINE v == [ts[n] EXCEPT !.done = done]
  <2>1. v \in TurnStates
    BY <1>1, <1>2 DEF TurnStates, Endings
  <2>2. us = [ts EXCEPT ![n] = v]
    BY <1>3
  <2> HIDE DEF v
  <2>3. us \in Seq(TurnStates) /\ Len(us) = Len(ts) /\ us[n] = v
        /\ \A t \in 1..Len(ts) : t # n => us[t] = ts[t]
    BY <2>1, <2>2, <1>1
  <2> QED BY <2>3 DEF v
<1>7. us[n].done = done /\ us[n].begun = ts[n].begun
  BY <1>1, <1>6 DEF TurnStates
<1>8. Ends(ts, us)
  <2>1. LastDiffers(ts, us)
    <3>1. Len(us) = Len(ts) /\ Len(ts) > 0
      BY <1>1, <1>6
    <3>2. \A t \in 1..(Len(ts) - 1) : t \in 1..Len(ts) /\ t # n
      BY <1>1
    <3> QED BY <3>1, <3>2, <1>6 DEF LastDiffers
  <2>2. ts[n].done = "no" /\ us[n].done \in {"full", "partial"}
    BY <1>1, <1>2, <1>7
  <2>3. us[n] = [ts[n] EXCEPT !.done = us[n].done]
    BY <1>6, <1>7
  <2>4. n = Len(ts)
    BY <1>1
  <2> QED BY <2>1, <2>2, <2>3, <2>4, Zenon DEF Ends
<1>9. /\ a \in Servers /\ a.d = s.d /\ a.o = s.o /\ a.m = s.m
      /\ a.e.turns = us /\ a.e.active = s.e.active
      /\ a.e.paused = s.e.paused /\ a.e.kept = s.e.kept
      /\ a.e.deferred = s.e.deferred /\ a.e.jobs = s.e.jobs
  BY <1>6, Zenon DEF Servers, Engines, Medias
<1> HIDE DEF a
<1>10. /\ q \in Servers /\ q.e = a.e /\ q.m = s.m /\ q.o = s.o
       /\ Extends(s.d, q.d) /\ EndFrame(ts, us, s.d, q.d)
  <2>1. CASE completed /\ ts[n].begun
    <3> DEFINE f == Frame("end", n, Nil)
               d == Append(s.d, f)
    <3>1. f \in Frames /\ f.kind # "pause"
      BY <1>1 DEF Frame, Frames, TurnKinds, OtherKinds, Nil
    <3>2. q = [a EXCEPT !.d = d]
      BY <2>1, <1>7, <1>9 DEF AudioEnded, Send
    <3>3. f = Frame("end", Len(ts), Nil)
      BY <1>1
    <3> HIDE DEF f
    <3>4. d \in Seq(Frames) /\ Appended(s.d, d, f, 1) /\ Extends(s.d, d)
      BY <1>1, <3>1, ExtendsOnce
    <3> HIDE DEF d
    <3>5. q \in Servers /\ q.e = a.e /\ q.o = a.o /\ q.m = a.m /\ q.d = d
      BY <1>9, <3>2, <3>4 DEF Servers
    <3>6. EndFrame(ts, us, s.d, d)
      BY <2>1, <1>1, <1>2, <1>7, <3>3, <3>4 DEF EndFrame
    <3> QED BY <3>4, <3>5, <3>6, <1>9
  <2>2. CASE ~(completed /\ ts[n].begun)
    <3>1. q = a
      BY <2>2, <1>7, <1>9 DEF AudioEnded
    <3>2. EndFrame(ts, us, s.d, a.d)
      BY <2>2, <1>1, <1>2, <1>7, <1>9 DEF EndFrame
    <3>3. Extends(s.d, s.d)
      BY <1>1 DEF Extends
    <3> QED BY <3>1, <3>2, <3>3, <1>9
  <2> QED BY <2>1, <2>2
<1> HIDE DEF q
<1>11. c \in Servers /\ c.e = a.e /\ Keeps(q, c) /\ Emitted(q, c, "terminal", n, 1)
  <2>1. q \in Servers /\ n \in Nat
    BY <1>1, <1>10
  <2>2. c \in Servers /\ c.e = q.e /\ Keeps(q, c)
        /\ Emitted(q, c, "terminal", n, 1)
    BY <2>1, TerminalFields
  <2> QED BY <2>2, <1>10
<1> HIDE DEF c
<1>12. Keeps(s, c)
  <2>1. Keeps(s, q)
    BY <1>10 DEF Keeps
  <2> QED BY <2>1, <1>10, <1>11, KeepsTwice
<1>13. /\ c.d = q.d
  BY <1>11 DEF Emitted
<1>14. ASSUME NEW r \in Servers, r.e.active = Nil, r.e.turns = c.e.turns,
              r.e.paused = c.e.paused, r.e.kept = c.e.kept,
              r.e.deferred = c.e.deferred, r.e.jobs = c.e.jobs,
              r.m.flow = c.m.flow, r.m.retired = c.m.retired,
              r.m.pending = c.m.pending, r.d = c.d
       PROVE  Fits(r, 0) /\ r.e.paused = Nil
  <2>1. r.e.turns = us /\ r.e.paused = x.e.paused /\ r.e.kept = x.e.kept
        /\ r.e.deferred = x.e.deferred /\ r.e.jobs = x.e.jobs
        /\ x.e.turns = ts /\ r.d = q.d
    BY <1>1, <1>4, <1>9, <1>11, <1>13, <1>14
  <2>2. Ends(x.e.turns, r.e.turns)
    BY <2>1, <1>8
  <2>3. r.e.turns[n].done = "full" => k = 0 /\ ~x.e.turns[n].failed
    BY <2>1, <1>2, <1>7
  <2>4. EndFrame(x.e.turns, r.e.turns, x.d, r.d)
    BY <2>1, <1>10
  <2>5. SameFlow(x, q)
    BY <1>10 DEF SameFlow
  <2>6. Emitted(q, r, "terminal", n, 1)
    BY <1>11, <1>14 DEF Emitted, SameFlow
  <2>7. Fits(r, 0)
    BY <1>10, <1>14, <2>1, <2>2, <2>3, <2>4, <2>5, <2>6, EndStep
  <2> QED BY <2>1, <2>7
<1>15. /\ c.e.active \in {Nil, n}
  BY <1>9, <1>11
<1>16. (IF c.e.active = n THEN Nil ELSE c.e.active) = Nil
  BY <1>15
<1>17. SettleResponse(c, n) = IF c.e.text /\ ~c.e.interrupted
                              THEN NewTurn(z, TRUE) ELSE y
  <2>1. [c EXCEPT !.e.active = IF @ = n THEN Nil ELSE @, !.m.speaking = FALSE] = y
    BY <1>11, <1>16, Zenon DEF Servers, Engines, Medias
  <2>2. [c EXCEPT !.e.active = IF @ = n THEN Nil ELSE @, !.m.speaking = FALSE,
                  !.e.text = FALSE] = z
    BY <1>11, <1>16, Zenon DEF Servers, Engines, Medias
  <2> HIDE DEF y, z
  <2> QED BY <2>1, <2>2 DEF SettleResponse
<1>18. Fits(y, 0) /\ Keeps(c, y) /\ y.e.paused = Nil
  <2>1. y \in Servers
    BY <1>11, Zenon DEF Servers, Engines, Medias, Nil
  <2>2. /\ y.e.active = Nil /\ y.e.turns = c.e.turns
        /\ y.e.paused = c.e.paused /\ y.e.kept = c.e.kept
        /\ y.e.deferred = c.e.deferred /\ y.e.jobs = c.e.jobs
    BY <1>11, Zenon DEF Servers, Engines, Medias
  <2>3. /\ y.m.flow = c.m.flow /\ y.m.retired = c.m.retired
        /\ y.m.pending = c.m.pending /\ y.d = c.d /\ y.o = c.o
        /\ y.m.pausing = c.m.pausing /\ y.m.pauses = c.m.pauses
        /\ y.m.paused = c.m.paused /\ y.m.asked = c.m.asked
        /\ y.m.checking = c.m.checking
    BY <1>11, Zenon DEF Servers, Engines, Medias
  <2> HIDE DEF y
  <2>4. Keeps(c, y)
    BY <2>3, <1>11, KeepsSelf DEF Keeps, PauseOf
  <2> QED BY <2>1, <2>2, <2>3, <2>4, <1>14
<1>19. Fits(z, 0) /\ Keeps(c, z) /\ z.e.paused = Nil
  <2>1. z \in Servers
    BY <1>11, Zenon DEF Servers, Engines, Medias, Nil
  <2>2. /\ z.e.active = Nil /\ z.e.turns = c.e.turns
        /\ z.e.paused = c.e.paused /\ z.e.kept = c.e.kept
        /\ z.e.deferred = c.e.deferred /\ z.e.jobs = c.e.jobs
    BY <1>11, Zenon DEF Servers, Engines, Medias
  <2>3. /\ z.m.flow = c.m.flow /\ z.m.retired = c.m.retired
        /\ z.m.pending = c.m.pending /\ z.d = c.d /\ z.o = c.o
        /\ z.m.pausing = c.m.pausing /\ z.m.pauses = c.m.pauses
        /\ z.m.paused = c.m.paused /\ z.m.asked = c.m.asked
        /\ z.m.checking = c.m.checking
    BY <1>11, Zenon DEF Servers, Engines, Medias
  <2> HIDE DEF z
  <2>4. Keeps(c, z)
    BY <2>3, <1>11, KeepsSelf DEF Keeps, PauseOf
  <2> QED BY <2>1, <2>2, <2>3, <2>4, <1>14
<1> HIDE DEF y, z
<1>20. Fits(NewTurn(z, TRUE), 0) /\ Keeps(z, NewTurn(z, TRUE))
       /\ NewTurn(z, TRUE).e.paused = Nil
  BY <1>19, NewTurnStep
<1>21. Keeps(s, y) /\ Keeps(s, NewTurn(z, TRUE))
  <2>1. y \in Servers /\ z \in Servers /\ NewTurn(z, TRUE) \in Servers
    BY <1>18, <1>19, <1>20 DEF Fits
  <2>2. Keeps(s, y) /\ Keeps(s, z)
    BY <2>1, <1>11, <1>12, <1>18, <1>19, KeepsTwice
  <2> QED BY <2>1, <2>2, <1>20, KeepsTwice
<1> QED BY <1>5, <1>17, <1>18, <1>20, <1>21

-------------------------------------------------------------------------------
(* The engine                                                                *)

\* The end of the active turn, or of what a pause holds back of it.
LEMMA FireAiDoneStep ==
    ASSUME NEW s, NEW n, NEW completed \in BOOLEAN, Fits(s, 0), n = s.e.active,
           n # Nil, completed => ~s.e.turns[n].failed
    PROVE  LET r == FireAiDone(s, n, completed) IN Fits(r, 0) /\ Keeps(s, r)
<1>1. /\ s \in Servers /\ n \in 1..Len(s.e.turns) /\ s.e.turns[n].done = "no"
      /\ s.e.turns \in Seq(TurnStates) /\ Len(s.e.turns) > 0
  BY ActiveTurn, ServerParts DEF Fits
<1>2. CASE s.e.paused = n
  <2> DEFINE end == IF completed THEN "full" ELSE "partial"
             r == [s EXCEPT !.e.deferred = end]
  <2>1. FireAiDone(s, n, completed) = r
    BY <1>1, <1>2 DEF FireAiDone
  <2>2. end \in Endings /\ (end = "full" => ~s.e.turns[n].failed)
    BY DEF Endings
  <2> HIDE DEF end
  <2>3. r \in Servers
    BY <1>1, <2>2, Zenon DEF Servers, Engines
  <2>4. /\ r.m = s.m /\ r.o = s.o /\ r.d = s.d
        /\ r.e.turns = s.e.turns /\ r.e.active = s.e.active
        /\ r.e.paused = s.e.paused /\ r.e.kept = s.e.kept
        /\ r.e.deferred = end /\ r.e.jobs = s.e.jobs
        /\ r.e.interrupted = s.e.interrupted
    BY <1>1, Zenon DEF Servers, Engines
  <2> HIDE DEF r
  <2>5. PauseFits(r.e.turns, r.e.active, r.e.paused, r.e.kept, r.e.deferred)
    BY <1>2, <2>2, <2>4 DEF PauseFits
  <2>6. /\ JobsFit(s.e.turns, r.e.jobs, r.e.kept)
        /\ r.e.interrupted => r.e.paused = Nil
    BY <2>4 DEF Fits
  <2>7. Marks(s.e.turns, r.e.turns) /\ LastDiffers(s.e.turns, r.e.turns)
    BY <1>1, <2>4, SameMarks
  <2>8. SameFlow(s, r) /\ Keeps(s, r)
    BY <1>1, <2>4, KeepsSelf DEF SameFlow, Keeps
  <2>9. Fits(r, 0)
    BY <2>3, <2>4, <2>5, <2>6, <2>7, <2>8, EngineStep
  <2> QED BY <2>1, <2>8, <2>9
<1>3. CASE s.e.paused # n
  <2>1. s.e.paused = Nil
    BY <1>3, NothingPaused
  <2>2. SameFlow(s, s)
    BY DEF SameFlow
  <2> QED BY <1>1, <2>1, <2>2, FireStep
<1> QED BY <1>2, <1>3

\* maybeFireAiDone: the active turn may be over.
LEMMA MaybeFireStep ==
    ASSUME NEW s, NEW n, Fits(s, 0), n = s.e.active, n # Nil
    PROVE  LET r == MaybeFireAiDone(s, n) IN Fits(r, 0) /\ Keeps(s, r)
<1>1. s \in Servers
  BY DEF Fits
<1>2. CASE s.e.turns[n].returned /\ ~s.e.turns[n].failed /\ ~Waiting(s, n)
  BY <1>2, FireAiDoneStep DEF MaybeFireAiDone
<1>3. CASE ~(s.e.turns[n].returned /\ ~s.e.turns[n].failed /\ ~Waiting(s, n))
  BY <1>1, <1>3, KeepsSelf DEF MaybeFireAiDone
<1> QED BY <1>2, <1>3

\* What a pause kept is owed when the pause is over.
LEMMA UnpausedStep ==
    ASSUME NEW s, Fits(s, 0)
    PROVE  LET r == Unpaused(s)
           IN  /\ Fits(r, s.e.kept) /\ Keeps(s, r)
               /\ r.m = s.m /\ r.o = s.o /\ r.d = s.d
               /\ r.e.turns = s.e.turns /\ r.e.active = s.e.active
               /\ r.e.paused = Nil /\ r.e.kept = 0
               /\ r.e.deferred = "no" /\ r.e.jobs = s.e.jobs
               /\ r.e.text = s.e.text
               /\ r.e.interrupted = s.e.interrupted
<1> DEFINE r == [s EXCEPT !.e.paused = Nil, !.e.kept = 0, !.e.deferred = "no"]
<1>1. /\ s \in Servers /\ s.e.kept \in Nat /\ s.e.turns \in Seq(TurnStates)
  BY ServerParts DEF Fits
<1>2. Unpaused(s) = r
  BY DEF Unpaused
<1>3. Nil \in Nat /\ 0 \in Nat /\ "no" \in Endings
  BY DEF Nil, Endings
<1>4. r \in Servers
  BY <1>1, <1>3, Zenon DEF Servers, Engines
<1>5. /\ r.m = s.m /\ r.o = s.o /\ r.d = s.d
      /\ r.e.turns = s.e.turns /\ r.e.active = s.e.active
      /\ r.e.paused = Nil /\ r.e.kept = 0
      /\ r.e.deferred = "no" /\ r.e.jobs = s.e.jobs
      /\ r.e.interrupted = s.e.interrupted /\ r.e.text = s.e.text
  BY <1>1, Zenon DEF Servers, Engines
<1> HIDE DEF r
<1>6. SameFlow(s, r) /\ Keeps(s, r)
  BY <1>1, <1>5, KeepsSelf DEF SameFlow, Keeps
<1>7. CASE s.e.paused = Nil
  <2>1. s.e.kept = 0 /\ s.e.deferred = "no"
    BY <1>7, NothingPaused
  <2>2. SameEngine(s, r)
    BY <1>5, <1>7, <2>1 DEF SameEngine
  <2>3. Fits(r, 0)
    BY <1>4, <1>5, <1>6, <2>2, OtherStep
  <2> QED BY <1>2, <1>5, <1>6, <2>1, <2>3
<1>8. CASE s.e.paused # Nil
  <2>1. s.e.active # Nil
    BY <1>8, NothingPaused
  <2>2. Len(s.e.turns) > 0 /\ s.e.turns[s.e.active] \in TurnStates
    BY <2>1, ActiveTurn
  <2>3. Marks(s.e.turns, r.e.turns) /\ LastDiffers(s.e.turns, r.e.turns)
    BY <1>1, <1>5, <2>2, SameMarks
  <2>4. PauseFits(r.e.turns, r.e.active, r.e.paused, r.e.kept, r.e.deferred)
    BY <1>5 DEF PauseFits
  <2>5. JobsFit(s.e.turns, r.e.jobs, r.e.kept)
    BY <1>5, SMTT(20) DEF Fits, JobsFit
  <2>6. r.e.turns[s.e.active].made - (r.e.kept + s.e.kept)
           = s.e.turns[s.e.active].made - (s.e.kept + 0)
    BY <1>1, <1>5, <2>2, SMTT(20) DEF TurnStates
  <2>7. Fits(r, s.e.kept)
    BY <1>1, <1>4, <1>5, <1>6, <2>1, <2>3, <2>4, <2>5, <2>6, EngineStep
  <2> QED BY <1>2, <1>5, <1>6, <2>7
<1> QED BY <1>7, <1>8

\* engine.cancel.
LEMMA CancelStep ==
    ASSUME NEW s, Fits(s, 0)
    PROVE  LET r == Cancel(s) IN Fits(r, 0) /\ Keeps(s, r)
<1> DEFINE x == Unpaused(s)
           a == [x EXCEPT !.e.interrupted = TRUE]
           b == [x EXCEPT !.e.interrupted = TRUE, !.e.active = Nil]
           n == s.e.active
<1>1. s \in Servers /\ s.e.kept \in Nat
  BY ServerParts DEF Fits
<1>2. /\ Fits(x, s.e.kept) /\ Keeps(s, x)
      /\ x.m = s.m /\ x.o = s.o /\ x.d = s.d
      /\ x.e.turns = s.e.turns /\ x.e.active = s.e.active
      /\ x.e.paused = Nil /\ x.e.kept = 0
      /\ x.e.deferred = "no" /\ x.e.jobs = s.e.jobs
  BY UnpausedStep
<1>3. Cancel(s) = IF n = Nil THEN a ELSE FireAiDone(b, n, FALSE)
  BY DEF Cancel
<1> HIDE DEF x
<1>4. x \in Servers
  BY <1>2 DEF Fits
<1>5. CASE n = Nil
  <2>1. a \in Servers
    BY <1>4, Zenon DEF Servers, Engines
  <2>2. /\ a.m = x.m /\ a.o = x.o /\ a.d = x.d
        /\ a.e.turns = x.e.turns /\ a.e.active = x.e.active
        /\ a.e.paused = x.e.paused /\ a.e.kept = x.e.kept
        /\ a.e.deferred = x.e.deferred /\ a.e.jobs = x.e.jobs
    BY <1>4, Zenon DEF Servers, Engines
  <2> HIDE DEF a
  <2>3. s.e.kept = 0
    BY <1>5, NothingPaused
  <2>4. Keeps(s, a)
    BY <1>2, <2>2 DEF Keeps
  <2>5. Fits(a, 0)
    BY <1>2, <2>1, <2>2, <2>3 DEF Fits
  <2> QED BY <1>3, <1>5, <2>4, <2>5
<1>6. CASE n # Nil
  <2>1. b \in Servers
    BY <1>4, Zenon DEF Servers, Engines, Nil
  <2>2. /\ b.m = x.m /\ b.o = x.o /\ b.d = x.d
        /\ b.e.turns = x.e.turns /\ b.e.active = Nil
        /\ b.e.paused = x.e.paused /\ b.e.kept = x.e.kept
        /\ b.e.deferred = x.e.deferred /\ b.e.jobs = x.e.jobs
    BY <1>4, Zenon DEF Servers, Engines
  <2> HIDE DEF b
  <2>3. Keeps(s, b) /\ SameFlow(x, b)
    BY <1>2, <2>2 DEF Keeps, SameFlow
  <2> DEFINE r == FireAiDone(b, n, FALSE)
  <2>4. Fits(r, 0) /\ Keeps(b, r)
    <3> DEFINE k == s.e.kept
    <3>1. k \in Nat /\ Fits(x, k) /\ n = x.e.active
      BY <1>1, <1>2
    <3> HIDE DEF k, n
    <3> QED BY <1>2, <1>6, <2>1, <2>2, <2>3, <3>1, FireStep
  <2> HIDE DEF r
  <2>5. Keeps(s, r)
    <3>1. r \in Servers
      BY <2>4 DEF Fits
    <3> QED BY <1>1, <2>1, <2>3, <2>4, <3>1, KeepsTwice
  <2> QED BY <1>3, <1>6, <2>4, <2>5 DEF r
<1> QED BY <1>5, <1>6

\* engine.resume.
LEMMA EngineResumeStep ==
    ASSUME PlayerFits, NEW s, Fits(s, 0)
    PROVE  LET r == EngineResume(s) IN Fits(r, 0) /\ Keeps(s, r)
<1>1. s \in Servers /\ s.e.kept \in Nat /\ s.e.deferred \in Endings
  BY ServerParts DEF Fits
<1>2. CASE s.e.paused = Nil
  BY <1>1, <1>2, KeepsSelf DEF EngineResume
<1>3. CASE s.e.paused # Nil
  <2> DEFINE x == Unpaused(s)
             n == s.e.paused
             kept == s.e.kept
             y == SendTurnAudio(x, n, kept)
             r == FireAiDone(y, n, s.e.deferred = "full")
  <2>1. n = s.e.active /\ n # Nil /\ ~s.e.interrupted
        /\ (s.e.deferred = "full" => ~s.e.turns[n].failed)
    BY <1>3, NothingPaused DEF Fits
  <2>2. EngineResume(s) = IF s.e.deferred = "no" THEN y ELSE r
    BY <1>3, <2>1 DEF EngineResume, Released
  <2>3. /\ Fits(x, kept) /\ Keeps(s, x)
        /\ x.e.turns = s.e.turns /\ x.e.active = n
        /\ x.e.jobs = s.e.jobs
    BY <2>1, UnpausedStep
  <2>4. kept > 0 => \A i \in 1..Len(x.e.jobs) : x.e.jobs[i].turn = n
    <3>1. JobsFit(s.e.turns, s.e.jobs, s.e.kept) /\ n = Len(s.e.turns)
      BY <2>1, ActiveTurn DEF Fits
    <3> QED BY <2>3, <3>1 DEF JobsFit
  <2>0. kept \in Nat
    BY <1>1
  <2> HIDE DEF x, n, kept
  <2>5. Fits(y, 0) /\ Keeps(x, y) /\ GoesOn(x, y)
    BY <2>0, <2>1, <2>3, <2>4, SendStep
  <2> HIDE DEF y
  <2>6. y.e.active = n /\ y.e.turns[n].failed = s.e.turns[n].failed
    BY <2>1, <2>3, <2>5 DEF GoesOn
  <2>7. Fits(r, 0) /\ Keeps(y, r)
    BY <2>1, <2>5, <2>6, FireAiDoneStep
  <2> HIDE DEF r
  <2>8. Keeps(s, y) /\ Keeps(s, r)
    <3>1. x \in Servers /\ y \in Servers /\ r \in Servers
      BY <2>3, <2>5, <2>7 DEF Fits
    <3>2. Keeps(s, y)
      BY <1>1, <3>1, <2>3, <2>5, KeepsTwice
    <3> QED BY <1>1, <3>1, <3>2, <2>7, KeepsTwice
  <2> QED BY <2>2, <2>5, <2>7, <2>8
<1> QED BY <1>2, <1>3

\* The pause of a user turn that ends is dropped.
LEMMA DiscardedStep ==
    ASSUME NEW s, Fits(s, 0)
    PROVE  LET r == Discarded(s)
           IN  /\ Fits(r, 0) /\ Keeps(s, r) /\ r.e.paused = Nil
               /\ r.e.active = s.e.active
<1>1. s \in Servers /\ s.e.kept \in Nat /\ s.e.turns \in Seq(TurnStates)
  BY ServerParts DEF Fits
<1>2. CASE s.e.paused = Nil
  BY <1>1, <1>2, KeepsSelf DEF Discarded
<1>3. CASE s.e.paused # Nil
  <2> DEFINE x == Unpaused(s)
             n == s.e.paused
             k == s.e.kept
             ts == s.e.turns
             v == [ts[n] EXCEPT !.made = @ - k]
             us == [ts EXCEPT ![n] = v]
             r == [x EXCEPT !.e.turns = us]
  <2>1. n = s.e.active /\ n # Nil
    BY <1>3, NothingPaused
  <2>2. /\ Fits(x, k) /\ Keeps(s, x) /\ x.e.turns = ts /\ x.e.active = n
        /\ x.e.paused = Nil /\ x.e.kept = 0 /\ x.e.deferred = "no"
        /\ x.o = s.o /\ x.m = s.m /\ x.d = s.d /\ x.e.jobs = s.e.jobs
    BY <2>1, UnpausedStep
  <2>3. /\ n \in 1..Len(ts) /\ ts[n] \in TurnStates /\ ts[n].done = "no"
        /\ ts \in Seq(TurnStates) /\ n = Len(ts) /\ Len(ts) \in Nat /\ k \in Nat
        /\ Len(ts) > 0
    BY <2>1, <1>1, ActiveTurn, ServerParts
  <2>4. Discarded(s) = r
    <3>1. x.e.turns[n].made - k = ts[n].made - k
      BY <2>2
    <3>2. x \in Servers
      BY <2>2 DEF Fits
    <3>3. Discarded(s) = [x EXCEPT !.e.turns[n].made = @ - k]
      BY <1>3 DEF Discarded
    <3> HIDE DEF x, n, k, ts
    <3>4. [x EXCEPT !.e.turns[n].made = @ - k] = r
      BY <2>2, <3>2, Zenon DEF Servers, Engines
    <3> QED BY <3>3, <3>4
  <2> HIDE DEF x, n, k, ts
  <2>5. v \in TurnStates /\ v.made = ts[n].made - k /\ v.begun = ts[n].begun
        /\ v.done = ts[n].done /\ v.failed = ts[n].failed
    BY <2>3 DEF TurnStates
  <2> HIDE DEF v
  <2>6. us \in Seq(TurnStates) /\ Len(us) = Len(ts) /\ us[n] = v
        /\ \A t \in 1..Len(ts) : t # n => us[t] = ts[t]
    BY <2>3, <2>5
  <2>7. Marks(ts, us) /\ LastDiffers(ts, us)
    BY <2>3, <2>5, <2>6 DEF Marks, LastDiffers
  <2> HIDE DEF us
  <2>8. x \in Servers
    BY <2>2 DEF Fits
  <2>9. r \in Servers
    BY <2>6, <2>8, Zenon DEF Servers, Engines
  <2>10. /\ r.m = x.m /\ r.o = x.o /\ r.d = x.d
         /\ r.e.turns = us /\ r.e.active = x.e.active
         /\ r.e.paused = x.e.paused /\ r.e.kept = x.e.kept
         /\ r.e.deferred = x.e.deferred /\ r.e.jobs = x.e.jobs
    BY <2>8, Zenon DEF Servers, Engines
  <2> HIDE DEF r
  <2>11. SameFlow(x, r) /\ Keeps(s, r)
    BY <2>2, <2>10 DEF SameFlow, Keeps
  <2>12. PauseFits(r.e.turns, r.e.active, r.e.paused, r.e.kept, r.e.deferred)
    BY <2>2, <2>10 DEF PauseFits
  <2>13. JobsFit(x.e.turns, r.e.jobs, r.e.kept)
    BY <2>2, <2>10, SMTT(20) DEF Fits
  <2>14. us[n].failed = ts[n].failed
         /\ us[n].made - (0 + 0) = ts[n].made - (0 + k)
    BY <2>3, <2>5, <2>6, SMTT(20) DEF TurnStates
  <2>15. Fits(r, 0)
    <3>1. /\ x.e.active # Nil /\ r.e.active = x.e.active /\ r.d = x.d
          /\ Marks(x.e.turns, r.e.turns) /\ LastDiffers(x.e.turns, r.e.turns)
          /\ r.e.interrupted => r.e.paused = Nil
      BY <2>1, <2>2, <2>7, <2>10
    <3>2. /\ r.e.turns[x.e.active].failed = x.e.turns[x.e.active].failed
          /\ r.e.turns[x.e.active].made - (r.e.kept + 0)
                = x.e.turns[x.e.active].made - (x.e.kept + k)
      BY <2>2, <2>10, <2>14
    <3>3. Fits(x, k) /\ k \in Nat /\ 0 \in Nat
      BY <2>2, <2>3
    <3> QED BY <2>9, <2>11, <2>12, <2>13, <3>1, <3>2, <3>3, EngineStep
  <2> QED BY <2>1, <2>2, <2>4, <2>10, <2>11, <2>15
<1> QED BY <1>2, <1>3

\* The end of a user turn drops a pause, with the end it held back.
LEMMA PauseDroppedStep ==
    ASSUME NEW s, Fits(s, 0)
    PROVE  LET r == PauseDropped(s) IN Fits(r, 0) /\ Keeps(s, r)
                                       /\ r.e.paused = Nil
<1> DEFINE x == Discarded(s)
           n == s.e.paused
           r == FireAiDone(x, n, FALSE)
<1>1. /\ Fits(x, 0) /\ Keeps(s, x) /\ x.e.paused = Nil /\ x.e.active = s.e.active
  BY DiscardedStep
<1>2. PauseDropped(s) = IF s.e.deferred = "no" THEN x ELSE r
  BY DEF PauseDropped
<1> HIDE DEF x
<1>3. CASE s.e.deferred = "no"
  BY <1>1, <1>2, <1>3
<1>4. CASE s.e.deferred # "no"
  <2>1. n = s.e.active /\ n # Nil
    BY <1>4, NothingPaused
  <2>2. Fits(r, 0) /\ Keeps(x, r) /\ r.e.paused = Nil
    <3>1. x \in Servers /\ SameFlow(x, x) /\ n = x.e.active
      BY <1>1, <2>1 DEF Fits, SameFlow
    <3> QED BY <1>1, <2>1, <3>1, FireStep
  <2> HIDE DEF r
  <2>3. s \in Servers /\ x \in Servers /\ r \in Servers
    BY <1>1, <2>2 DEF Fits
  <2>4. Keeps(s, r)
    BY <1>1, <2>2, <2>3, KeepsTwice
  <2> QED BY <1>2, <1>4, <2>2, <2>4
<1> QED BY <1>3, <1>4

-------------------------------------------------------------------------------
(* Pauses                                                                    *)

\* The pauses under way stay held, or are lifted by a frame that was added.
LEMMA LiftedStill ==
    ASSUME NEW s \in Servers, NEW r \in Servers, Len(s.d) <= Len(r.d),
           \A i \in 1..Len(s.d) : r.d[i] = s.d[i],
           \A i \in 1..Len(r.d) : i > Len(s.d) /\ r.d[i].kind = "pause" =>
               HeldPause(r.m, r.o, r.d[i].turn, r.d[i].pause),
           \A t, p : HeldPause(s.m, s.o, t, p) =>
               \/ HeldPause(r.m, r.o, t, p)
               \/ \E j \in 1..Len(r.d) : j > Len(s.d) /\ LiftsPause(r.d[j], t, p),
           PausesLifted(s.m, s.o, s.d), FreezeLifted(s.m, s.o, s.d)
    PROVE  PausesLifted(r.m, r.o, r.d) /\ FreezeLifted(r.m, r.o, r.d)
<1> DEFINE d == s.d
           e == r.d
           H(t, p) == HeldPause(s.m, s.o, t, p)
           K(t, p) == HeldPause(r.m, r.o, t, p)
<1>1. /\ Len(d) \in Nat /\ Len(e) \in Nat /\ Len(d) <= Len(e)
      /\ \A i \in 1..Len(d) : i \in 1..Len(e) /\ e[i] = d[i]
      /\ \A i \in 1..Len(e) : i > Len(d) \/ i \in 1..Len(d)
  <2>1. Len(d) \in Nat /\ Len(e) \in Nat
    BY ServerParts
  <2> QED BY <2>1
<1>2. \A i \in 1..Len(e) : i > Len(d) /\ e[i].kind = "pause" =>
         K(e[i].turn, e[i].pause)
  OBVIOUS
<1>3. \A t, p : H(t, p) =>
         K(t, p) \/ \E j \in 1..Len(e) : j > Len(d) /\ LiftsPause(e[j], t, p)
  OBVIOUS
<1>4. \A i \in 1..Len(d) : d[i].kind = "pause" =>
        \/ H(d[i].turn, d[i].pause)
        \/ \E j \in 1..Len(d) : j > i /\ LiftsPause(d[j], d[i].turn, d[i].pause)
  BY DEF PausesLifted
<1>5. Frozen => \/ H(control.turn, control.pause)
                \/ \E j \in 1..Len(d) :
                      LiftsPause(d[j], control.turn, control.pause)
  BY DEF FreezeLifted
<1> HIDE DEF d, e, H, K
<1>6. ASSUME NEW i \in 1..Len(e), e[i].kind = "pause"
      PROVE  \/ K(e[i].turn, e[i].pause)
             \/ \E j \in 1..Len(e) :
                   j > i /\ LiftsPause(e[j], e[i].turn, e[i].pause)
  <2>1. CASE i > Len(d)
    BY <2>1, <1>2, <1>6
  <2>2. CASE i \in 1..Len(d)
    <3>1. e[i] = d[i] /\ d[i].kind = "pause"
      BY <2>2, <1>1, <1>6
    <3>2. CASE H(d[i].turn, d[i].pause)
      <4>1. CASE K(e[i].turn, e[i].pause)
        BY <4>1
      <4>2. CASE \E j \in 1..Len(e) :
                    j > Len(d) /\ LiftsPause(e[j], e[i].turn, e[i].pause)
        BY <4>2, <2>2, <1>1
      <4> QED BY <3>1, <3>2, <4>1, <4>2, <1>3
    <3>3. CASE \E j \in 1..Len(d) :
                  j > i /\ LiftsPause(d[j], d[i].turn, d[i].pause)
      <4>1. PICK j \in 1..Len(d) : j > i /\ LiftsPause(d[j], d[i].turn, d[i].pause)
        BY <3>3
      <4>2. j \in 1..Len(e) /\ e[j] = d[j]
        BY <1>1
      <4> QED BY <4>1, <4>2, <3>1
    <3> QED BY <2>2, <3>1, <3>2, <3>3, <1>4
  <2> QED BY <2>1, <2>2, <1>1
<1>7. Frozen => \/ K(control.turn, control.pause)
                \/ \E j \in 1..Len(e) :
                      LiftsPause(e[j], control.turn, control.pause)
  <2> SUFFICES ASSUME Frozen
               PROVE  \/ K(control.turn, control.pause)
                      \/ \E j \in 1..Len(e) :
                            LiftsPause(e[j], control.turn, control.pause)
    OBVIOUS
  <2>1. CASE H(control.turn, control.pause)
    BY <2>1, <1>3
  <2>2. CASE \E j \in 1..Len(d) : LiftsPause(d[j], control.turn, control.pause)
    <3>1. PICK j \in 1..Len(d) : LiftsPause(d[j], control.turn, control.pause)
      BY <2>2
    <3>2. j \in 1..Len(e) /\ e[j] = d[j]
      BY <1>1
    <3> QED BY <3>1, <3>2
  <2> QED BY <2>1, <2>2, <1>5
<1> QED BY <1>6, <1>7 DEF PausesLifted, FreezeLifted, K, e

\* A step that touches no pause keeps the pauses lifted.
LEMMA PauseKept ==
    ASSUME NEW s \in Servers, NEW r \in Servers, Keeps(s, r), PauseInv(s)
    PROVE  PauseInv(r)
<1>1. /\ r.o = s.o /\ Extends(s.d, r.d)
      /\ r.m.pausing = s.m.pausing /\ r.m.pauses = s.m.pauses
      /\ r.m.paused = s.m.paused /\ r.m.asked = s.m.asked
      /\ r.m.checking = s.m.checking
  BY DEF Keeps, PauseOf
<1>2. VerdictFits(r.m)
  BY <1>1 DEF PauseInv, VerdictFits
<1>3. \A t, p : HeldPause(s.m, s.o, t, p) => HeldPause(r.m, r.o, t, p)
  BY <1>1 DEF HeldPause
<1>4. /\ Len(s.d) <= Len(r.d)
      /\ \A i \in 1..Len(s.d) : r.d[i] = s.d[i]
      /\ \A i \in 1..Len(r.d) : i > Len(s.d) /\ r.d[i].kind = "pause" =>
               HeldPause(r.m, r.o, r.d[i].turn, r.d[i].pause)
  BY <1>1 DEF Extends
<1>5. PausesLifted(s.m, s.o, s.d) /\ FreezeLifted(s.m, s.o, s.d)
  BY DEF PauseInv
<1>6. PausesLifted(r.m, r.o, r.d) /\ FreezeLifted(r.m, r.o, r.d)
  BY <1>3, <1>4, <1>5, LiftedStill
<1> QED BY <1>2, <1>6 DEF PauseInv

\* A frame that stops all pauses, or no frame.
LEMMA PauseOverStep ==
    ASSUME NEW s \in Servers, NEW how \in {"taken", "resumed", "dropped"}
    PROVE  LET r == PauseOver(s, how)
           IN  /\ r \in Servers /\ r.e = s.e /\ r.d = s.d /\ SameFlow(s, r)
               /\ r.m.pausing = FALSE /\ r.m.paused = s.m.paused
               /\ r.m.pauses = s.m.pauses /\ r.m.asked = s.m.asked
               /\ r.m.checking = s.m.checking /\ r.m.speaking = s.m.speaking
               /\ r.m.audioTurn = s.m.audioTurn
               /\ how = "dropped" => \A t, p : HeldPause(s.m, s.o, t, p) =>
                                                   HeldPause(r.m, r.o, t, p)
               /\ s.o \subseteq r.o
<1> DEFINE o == IF how = "dropped" THEN s.o \cup {s.m.paused} ELSE s.o
           r == [s EXCEPT !.m.pausing = FALSE, !.o = o]
<1>1. s.m.pausing \in BOOLEAN /\ o \in SUBSET Nat
  BY DEF Servers, Medias
<1>2. CASE ~s.m.pausing
  BY <1>1, <1>2 DEF PauseOver, SameFlow
<1>3. CASE s.m.pausing
  <2>1. PauseOver(s, how) = r
    BY <1>3 DEF PauseOver
  <2>2. s.o \subseteq o /\ (how = "dropped" => s.m.paused \in o)
    OBVIOUS
  <2> HIDE DEF o
  <2>3. r \in Servers
    BY <1>1, Zenon DEF Servers, Medias
  <2>4. /\ r.e = s.e /\ r.d = s.d /\ r.o = o
        /\ r.m.pausing = FALSE /\ r.m.paused = s.m.paused
        /\ r.m.pauses = s.m.pauses /\ r.m.asked = s.m.asked
        /\ r.m.checking = s.m.checking /\ r.m.speaking = s.m.speaking
        /\ r.m.audioTurn = s.m.audioTurn
        /\ r.m.flow = s.m.flow /\ r.m.retired = s.m.retired
        /\ r.m.pending = s.m.pending
    BY Zenon DEF Servers, Medias
  <2> HIDE DEF r
  <2>5. how = "dropped" => \A t, p : HeldPause(s.m, s.o, t, p) =>
                                         HeldPause(r.m, r.o, t, p)
    BY <2>2, <2>4 DEF HeldPause
  <2> QED BY <2>1, <2>2, <2>3, <2>4, <2>5 DEF SameFlow
<1> QED BY <1>1, <1>2, <1>3

\* A pause is dropped: the turn is remembered as such.
LEMMA DroppedStep ==
    ASSUME NEW s, Fits(s, 0), PauseInv(s), s.m.asked = Nil \/ ~s.m.checking
    PROVE  LET r == PauseOver(s, "dropped") IN Fits(r, 0) /\ PauseInv(r)
<1> DEFINE r == PauseOver(s, "dropped")
<1>1. s \in Servers /\ s.d \in Seq(Frames)
  BY ServerParts DEF Fits
<1>2. /\ r \in Servers /\ r.e = s.e /\ r.d = s.d /\ SameFlow(s, r)
      /\ r.m.asked = s.m.asked /\ r.m.checking = s.m.checking
      /\ \A t, p : HeldPause(s.m, s.o, t, p) => HeldPause(r.m, r.o, t, p)
  BY <1>1, PauseOverStep
<1> HIDE DEF r
<1>3. Fits(r, 0)
  <2>1. SameEngine(s, r)
    BY <1>2 DEF SameEngine
  <2> QED BY <1>2, <2>1, OtherStep
<1>4. VerdictFits(r.m)
  BY <1>2 DEF VerdictFits
<1>5. PausesLifted(r.m, r.o, r.d) /\ FreezeLifted(r.m, r.o, r.d)
  <2>1. /\ PausesLifted(s.m, s.o, s.d) /\ FreezeLifted(s.m, s.o, s.d)
        /\ Len(s.d) \in Nat
    BY <1>1 DEF PauseInv
  <2>2. \A i \in 1..Len(r.d) : ~(i > Len(s.d))
    BY <1>2, <2>1
  <2> QED BY <1>1, <1>2, <2>1, <2>2, LiftedStill
<1> QED BY <1>3, <1>4, <1>5 DEF PauseInv, r

-------------------------------------------------------------------------------
(* Interruption                                                              *)

\* A frame about pauses is sent last; b is the server before it.
LEMMA SentStep ==
    ASSUME NEW b, Fits(b, 0), NEW f \in Frames, f.kind \in OtherKinds
    PROVE  LET r == Send(b, f)
           IN  /\ r \in Servers /\ Fits(r, 0)
               /\ r.e = b.e /\ r.m = b.m /\ r.o = b.o
               /\ r.d = Append(b.d, f)
               /\ Len(r.d) = Len(b.d) + 1 /\ Len(b.d) \in Nat
               /\ \A i \in 1..Len(b.d) : r.d[i] = b.d[i]
               /\ r.d[Len(r.d)] = f /\ Len(r.d) \in 1..Len(r.d)
<1> DEFINE d == Append(b.d, f)
           r == [b EXCEPT !.d = d]
<1>1. b \in Servers /\ b.d \in Seq(Frames)
  BY ServerParts DEF Fits
<1>2. Send(b, f) = r
  BY DEF Send
<1>3. /\ d \in Seq(Frames) /\ Appended(b.d, d, f, 1)
      /\ Len(d) = Len(b.d) + 1 /\ Len(b.d) \in Nat
      /\ \A i \in 1..Len(b.d) : d[i] = b.d[i]
      /\ d[Len(d)] = f /\ Len(d) \in 1..Len(d)
  BY <1>1, ExtendsOnce
<1>4. d = Append(b.d, f)
  OBVIOUS
<1> HIDE DEF d
<1>5. r \in Servers /\ r.e = b.e /\ r.o = b.o /\ r.m = b.m /\ r.d = d
  BY <1>1, <1>3 DEF Servers
<1> HIDE DEF r
<1>6. SameEngine(b, r) /\ SameFlow(b, r)
  BY <1>5 DEF SameEngine, SameFlow
<1>7. Fits(r, 0)
  BY <1>3, <1>5, <1>6, OtherStep
<1> QED BY <1>2, <1>3, <1>4, <1>5, <1>7

\* onBargeIn.
LEMMA OnBargeInStep ==
    ASSUME NEW s, Fits(s, 0), PauseInv(s), s.m.speaking \/ s.m.asked = Nil
    PROVE  LET r == OnBargeIn(s)
           IN  Fits(r, 0) /\ PauseInv(r) /\ r.m.asked = s.m.asked
<1>1. s \in Servers /\ s.m.audioTurn \in Nat
  BY ServerParts DEF Fits
<1>2. CASE ~s.m.speaking
  BY <1>1, <1>2, DroppedStep, PauseOverStep DEF OnBargeIn
<1>3. CASE s.m.speaking
  <2> DEFINE a == PauseOver(s, "taken")
             b == [a EXCEPT !.m.speaking = FALSE, !.m.checking = FALSE,
                            !.m.audioTurn = Nil]
             f == Frame("barge_in", s.m.audioTurn, Nil)
             c == Send(b, f)
             r == Cancel(c)
  <2>1. OnBargeIn(s) = r
    BY <1>3 DEF OnBargeIn
  <2>2. f \in Frames /\ f.kind = "barge_in" /\ f.kind \in OtherKinds
    BY <1>1 DEF Frame, Frames, TurnKinds, OtherKinds, Nil
  <2>3. /\ a \in Servers /\ a.e = s.e /\ a.d = s.d /\ SameFlow(s, a)
        /\ a.m.asked = s.m.asked
    BY <1>1, PauseOverStep
  <2> HIDE DEF f, a
  <2>4. b \in Servers
    BY <2>3, Zenon DEF Servers, Medias, Nil
  <2>5. /\ b.e = a.e /\ b.o = a.o /\ b.d = a.d /\ b.m.checking = FALSE
        /\ b.m.asked = a.m.asked
        /\ b.m.flow = a.m.flow /\ b.m.retired = a.m.retired
        /\ b.m.pending = a.m.pending
    BY <2>3, Zenon DEF Servers, Medias
  <2> HIDE DEF b
  <2>6. SameEngine(s, b) /\ SameFlow(s, b)
    BY <2>3, <2>5 DEF SameEngine, SameFlow
  <2>7. Fits(b, 0)
    BY <2>3, <2>4, <2>5, <2>6, OtherStep
  <2>8. /\ c \in Servers /\ Fits(c, 0) /\ c.m = b.m
        /\ Len(c.d) = Len(b.d) + 1 /\ Len(b.d) \in Nat
        /\ \A i \in 1..Len(b.d) : c.d[i] = b.d[i]
        /\ c.d[Len(c.d)] = f /\ Len(c.d) \in 1..Len(c.d)
    BY <2>2, <2>7, SentStep
  <2> HIDE DEF c
  <2>9. PausesLifted(c.m, c.o, c.d) /\ FreezeLifted(c.m, c.o, c.d)
    <3>1. /\ PausesLifted(s.m, s.o, s.d) /\ FreezeLifted(s.m, s.o, s.d)
          /\ b.d = s.d
      BY <2>3, <2>5 DEF PauseInv
    <3>2. \A i \in 1..Len(c.d) : i > Len(s.d) => c.d[i].kind = "barge_in"
      <4>1. \A i \in 1..Len(c.d) : i > Len(s.d) => i = Len(c.d)
        BY <2>8, <3>1
      <4> QED BY <4>1, <2>2, <2>8
    <3>3. \A t, p : LiftsPause(c.d[Len(c.d)], t, p)
      BY <2>2, <2>8 DEF LiftsPause
    <3>4. \A t, p : \E j \in 1..Len(c.d) :
                        j > Len(s.d) /\ LiftsPause(c.d[j], t, p)
      <4>1. Len(c.d) > Len(s.d)
        BY <2>8, <3>1
      <4> QED BY <4>1, <3>3, <2>8
    <3>5. Len(s.d) <= Len(c.d) /\ \A i \in 1..Len(s.d) : c.d[i] = s.d[i]
      BY <2>8, <3>1
    <3>6. \A i \in 1..Len(c.d) : i > Len(s.d) /\ c.d[i].kind = "pause" =>
              HeldPause(c.m, c.o, c.d[i].turn, c.d[i].pause)
      BY <3>2
    <3> QED BY <1>1, <2>8, <3>1, <3>4, <3>5, <3>6, LiftedStill
  <2>10. PauseInv(c)
    BY <2>5, <2>8, <2>9 DEF PauseInv, VerdictFits
  <2>11. Fits(r, 0) /\ Keeps(c, r)
    BY <2>8, CancelStep
  <2> HIDE DEF r
  <2>12. PauseInv(r)
    <3>1. r \in Servers
      BY <2>11 DEF Fits
    <3> QED BY <3>1, <2>8, <2>10, <2>11, PauseKept
  <2>13. r.m.asked = s.m.asked
    BY <2>3, <2>5, <2>8, <2>11 DEF Keeps, PauseOf
  <2> QED BY <2>1, <2>11, <2>12, <2>13
<1> QED BY <1>2, <1>3

\* engine.pause.
LEMMA EnginePauseStep ==
    ASSUME NEW s, Fits(s, 0)
    PROVE  LET r == EnginePause(s)
           IN  Fits(r, 0) /\ r.m = s.m /\ r.o = s.o /\ r.d = s.d
<1> DEFINE r == [s EXCEPT !.e.paused = s.e.active, !.e.kept = 0,
                          !.e.deferred = "no"]
<1>1. /\ s \in Servers /\ s.e.active \in Nat /\ s.e.turns \in Seq(TurnStates)
  BY ServerParts DEF Fits
<1>2. CASE s.e.paused # Nil \/ s.e.interrupted \/ s.e.active = Nil
  BY <1>2 DEF EnginePause
<1>3. CASE ~(s.e.paused # Nil \/ s.e.interrupted \/ s.e.active = Nil)
  <2>1. EnginePause(s) = r
    BY <1>3 DEF EnginePause
  <2>2. 0 \in Nat /\ "no" \in Endings
    BY DEF Endings
  <2>3. r \in Servers
    BY <1>1, <2>2, Zenon DEF Servers, Engines
  <2>4. /\ r.m = s.m /\ r.o = s.o /\ r.d = s.d
        /\ r.e.turns = s.e.turns /\ r.e.active = s.e.active
        /\ r.e.paused = s.e.active /\ r.e.kept = 0
        /\ r.e.deferred = "no" /\ r.e.jobs = s.e.jobs
        /\ r.e.interrupted = s.e.interrupted
    BY <1>1, Zenon DEF Servers, Engines
  <2> HIDE DEF r
  <2>5. s.e.kept = 0 /\ Len(s.e.turns) > 0 /\ s.e.turns[s.e.active] \in TurnStates
    BY <1>3, NothingPaused, ActiveTurn
  <2>6. Marks(s.e.turns, r.e.turns) /\ LastDiffers(s.e.turns, r.e.turns)
    BY <1>1, <2>4, <2>5, SameMarks
  <2>7. PauseFits(r.e.turns, r.e.active, r.e.paused, r.e.kept, r.e.deferred)
    BY <2>4 DEF PauseFits
  <2>8. JobsFit(s.e.turns, r.e.jobs, r.e.kept) /\ SameFlow(s, r)
    BY <2>4, <2>5 DEF Fits, SameFlow
  <2>9. Fits(r, 0)
    BY <1>3, <2>3, <2>4, <2>5, <2>6, <2>7, <2>8, EngineStep
  <2> QED BY <2>1, <2>4, <2>9
<1> QED BY <1>2, <1>3

\* beginTentativePause, of a turn.
LEMMA PauseStep ==
    ASSUME NEW s, Fits(s, 0), PauseInv(s), ~s.m.pausing
    PROVE  LET r == Pause(s)
           IN  Fits(r, 0) /\ PauseInv(r) /\ r.m.asked = s.m.asked
<1> DEFINE a == [s EXCEPT !.m.pausing = TRUE, !.m.pauses = @ + 1,
                          !.m.paused = s.m.audioTurn, !.m.checked = FALSE]
           b == EnginePause(a)
           f == Frame("pause", s.m.audioTurn, s.m.pauses + 1)
           r == Send(b, f)
<1>1. /\ s \in Servers /\ s.m.audioTurn \in Nat /\ s.m.pauses \in Nat
      /\ s.m.pauses + 1 \in Nat
  BY ServerParts DEF Fits, Servers, Medias
<1>2. Pause(s) = r
  BY DEF Pause
<1>3. /\ f \in Frames /\ f.kind = "pause" /\ f.kind \in OtherKinds
      /\ f.turn = s.m.audioTurn /\ f.pause = s.m.pauses + 1
  BY <1>1 DEF Frame, Frames, TurnKinds, OtherKinds
<1> HIDE DEF f
<1>4. a \in Servers
  BY <1>1, Zenon DEF Servers, Medias
<1>5. /\ a.e = s.e /\ a.o = s.o /\ a.d = s.d /\ a.m.pausing = TRUE
      /\ a.m.pauses = s.m.pauses + 1 /\ a.m.paused = s.m.audioTurn
      /\ a.m.asked = s.m.asked /\ a.m.checking = s.m.checking
      /\ a.m.flow = s.m.flow /\ a.m.retired = s.m.retired
      /\ a.m.pending = s.m.pending
  BY <1>1, Zenon DEF Servers, Medias
<1> HIDE DEF a
<1>6. SameEngine(s, a) /\ SameFlow(s, a)
  BY <1>5 DEF SameEngine, SameFlow
<1>7. Fits(a, 0)
  BY <1>4, <1>5, <1>6, OtherStep
<1>8. Fits(b, 0) /\ b.m = a.m /\ b.o = a.o /\ b.d = a.d
  BY <1>7, EnginePauseStep
<1> HIDE DEF b
<1>9. /\ r \in Servers /\ Fits(r, 0) /\ r.m = b.m /\ r.o = b.o
      /\ Len(r.d) = Len(b.d) + 1 /\ Len(b.d) \in Nat
      /\ \A i \in 1..Len(b.d) : r.d[i] = b.d[i]
      /\ r.d[Len(r.d)] = f /\ Len(r.d) \in 1..Len(r.d)
  BY <1>3, <1>8, SentStep
<1> HIDE DEF r
<1>10. VerdictFits(r.m)
  BY <1>5, <1>8, <1>9 DEF PauseInv, VerdictFits
<1>11. PausesLifted(r.m, r.o, r.d) /\ FreezeLifted(r.m, r.o, r.d)
  <2>1. /\ PausesLifted(s.m, s.o, s.d) /\ FreezeLifted(s.m, s.o, s.d)
        /\ b.d = s.d /\ r.o = s.o
    BY <1>5, <1>8, <1>9 DEF PauseInv
  <2>2. \A i \in 1..Len(r.d) : i > Len(s.d) => r.d[i] = f
    <3>1. \A i \in 1..Len(r.d) : i > Len(s.d) => i = Len(r.d)
      BY <1>9, <2>1
    <3> QED BY <3>1, <1>9
  <2>3. HeldPause(r.m, r.o, f.turn, f.pause)
    BY <1>3, <1>5, <1>8, <1>9 DEF HeldPause
  <2>4. \A t, p : HeldPause(s.m, s.o, t, p) => HeldPause(r.m, r.o, t, p)
    BY <2>1 DEF HeldPause
  <2>5. Len(s.d) <= Len(r.d) /\ \A i \in 1..Len(s.d) : r.d[i] = s.d[i]
    BY <1>9, <2>1
  <2>6. \A i \in 1..Len(r.d) : i > Len(s.d) /\ r.d[i].kind = "pause" =>
            HeldPause(r.m, r.o, r.d[i].turn, r.d[i].pause)
    BY <2>2, <2>3
  <2> QED BY <1>1, <1>9, <2>1, <2>4, <2>5, <2>6, LiftedStill
<1> QED BY <1>2, <1>5, <1>8, <1>9, <1>10, <1>11 DEF PauseInv

\* resumeFromTentativePause.
LEMMA ResumeStep ==
    ASSUME PlayerFits, NEW s, Fits(s, 0), PauseInv(s)
    PROVE  LET r == Resume(s)
           IN  Fits(r, 0) /\ PauseInv(r) /\ r.m.asked = s.m.asked
<1> DEFINE x == PauseOver(s, "resumed")
           a == [x EXCEPT !.m.checking = FALSE]
           b == EngineResume(a)
           f == Frame("resume", s.m.paused, s.m.pauses)
           r == Send(b, f)
<1>1. /\ s \in Servers /\ s.m.paused \in Nat /\ s.m.pauses \in Nat
      /\ Len(s.d) \in Nat
  BY ServerParts DEF Fits, Servers, Medias
<1>2. Resume(s) = r
  BY DEF Resume
<1>3. /\ f \in Frames /\ f.kind = "resume" /\ f.kind \in OtherKinds
      /\ f.turn = s.m.paused /\ f.pause = s.m.pauses
  BY <1>1 DEF Frame, Frames, TurnKinds, OtherKinds
<1> HIDE DEF f
<1>4. /\ x \in Servers /\ x.e = s.e /\ x.d = s.d /\ SameFlow(s, x)
      /\ s.o \subseteq x.o /\ x.m.asked = s.m.asked
  BY <1>1, PauseOverStep
<1> HIDE DEF x
<1>5. a \in Servers
  BY <1>4, Zenon DEF Servers, Medias
<1>6. /\ a.e = x.e /\ a.o = x.o /\ a.d = x.d /\ a.m.checking = FALSE
      /\ a.m.asked = x.m.asked
      /\ a.m.flow = x.m.flow /\ a.m.retired = x.m.retired
      /\ a.m.pending = x.m.pending
  BY <1>4, Zenon DEF Servers, Medias
<1> HIDE DEF a
<1>7. SameEngine(s, a) /\ SameFlow(s, a)
  BY <1>4, <1>6 DEF SameEngine, SameFlow
<1>8. Fits(a, 0)
  BY <1>4, <1>5, <1>6, <1>7, OtherStep
<1>9. Fits(b, 0) /\ Keeps(a, b)
  BY <1>8, EngineResumeStep
<1> HIDE DEF b
<1>10. /\ r \in Servers /\ Fits(r, 0) /\ r.m = b.m /\ r.o = b.o
       /\ Len(r.d) = Len(b.d) + 1 /\ Len(b.d) \in Nat
       /\ \A i \in 1..Len(b.d) : r.d[i] = b.d[i]
       /\ r.d[Len(r.d)] = f /\ Len(r.d) \in 1..Len(r.d)
  BY <1>3, <1>9, SentStep
<1> HIDE DEF r
<1>11. /\ r.m.checking = FALSE /\ s.o \subseteq r.o /\ Extends(s.d, b.d)
  <2>1. b.m.checking = a.m.checking /\ b.o = a.o /\ Extends(a.d, b.d)
    BY <1>9 DEF Keeps, PauseOf
  <2> QED BY <2>1, <1>4, <1>6, <1>10
<1>12. PausesLifted(r.m, r.o, r.d) /\ FreezeLifted(r.m, r.o, r.d)
  <2>1. PausesLifted(s.m, s.o, s.d) /\ FreezeLifted(s.m, s.o, s.d)
    BY DEF PauseInv
  <2>2. Len(s.d) < Len(r.d) /\ \A i \in 1..Len(s.d) : r.d[i] = s.d[i]
    BY <1>1, <1>10, <1>11 DEF Extends
  <2>3. \A i \in 1..Len(r.d) : i > Len(s.d) => r.d[i].kind # "pause"
    <3>1. \A i \in 1..Len(r.d) : i \in 1..Len(b.d) \/ i = Len(r.d)
      BY <1>10
    <3>2. \A i \in 1..Len(b.d) : i > Len(s.d) => b.d[i].kind # "pause"
      BY <1>11 DEF Extends
    <3> QED BY <3>1, <3>2, <1>3, <1>10
  <2>4. ASSUME NEW t, NEW p, HeldPause(s.m, s.o, t, p)
        PROVE  \/ HeldPause(r.m, r.o, t, p)
               \/ \E j \in 1..Len(r.d) : j > Len(s.d) /\ LiftsPause(r.d[j], t, p)
    <3>1. CASE t \in s.o
      BY <3>1, <1>11 DEF HeldPause
    <3>2. CASE s.m.paused = t /\ s.m.pauses = p
      <4>1. LiftsPause(r.d[Len(r.d)], t, p)
        BY <3>2, <1>3, <1>10 DEF LiftsPause
      <4> QED BY <4>1, <1>10, <2>2
    <3> QED BY <3>1, <3>2, <2>4 DEF HeldPause
  <2>5. Len(s.d) <= Len(r.d)
    BY <2>2, <1>1, <1>10
  <2> QED BY <1>1, <1>10, <2>1, <2>2, <2>3, <2>4, <2>5, LiftedStill
<1>13. VerdictFits(r.m)
  BY <1>11 DEF VerdictFits
<1>14. r.m.asked = s.m.asked
  BY <1>4, <1>6, <1>9, <1>10 DEF Keeps, PauseOf
<1> QED BY <1>2, <1>10, <1>12, <1>13, <1>14 DEF PauseInv

\* resetTurn.
LEMMA ResetTurnStep ==
    ASSUME NEW s, Fits(s, 0), PauseInv(s)
    PROVE  LET r == ResetTurn(s)
           IN  Fits(r, 0) /\ PauseInv(r) /\ r.e = s.e
               /\ r.m.asked = s.m.asked
<1> DEFINE x == PauseOver(s, "dropped")
           r == [x EXCEPT !.m.checking = FALSE]
<1>1. s \in Servers /\ Len(s.d) \in Nat
  BY ServerParts DEF Fits
<1>2. ResetTurn(s) = r
  BY DEF ResetTurn
<1>3. /\ x \in Servers /\ x.e = s.e /\ x.d = s.d /\ SameFlow(s, x)
      /\ x.m.asked = s.m.asked
      /\ \A t, p : HeldPause(s.m, s.o, t, p) => HeldPause(x.m, x.o, t, p)
  BY <1>1, PauseOverStep
<1> HIDE DEF x
<1>4. r \in Servers
  BY <1>3, Zenon DEF Servers, Medias
<1>5. /\ r.e = x.e /\ r.o = x.o /\ r.d = x.d /\ r.m.checking = FALSE
      /\ r.m.asked = x.m.asked
      /\ r.m.pausing = x.m.pausing /\ r.m.paused = x.m.paused
      /\ r.m.pauses = x.m.pauses
      /\ r.m.flow = x.m.flow /\ r.m.retired = x.m.retired
      /\ r.m.pending = x.m.pending
  BY <1>3, Zenon DEF Servers, Medias
<1> HIDE DEF r
<1>6. Fits(r, 0)
  <2>1. SameEngine(s, r) /\ SameFlow(s, r)
    BY <1>3, <1>5 DEF SameEngine, SameFlow
  <2> QED BY <1>3, <1>4, <1>5, <2>1, OtherStep
<1>7. PausesLifted(r.m, r.o, r.d) /\ FreezeLifted(r.m, r.o, r.d)
  <2>1. /\ PausesLifted(s.m, s.o, s.d) /\ FreezeLifted(s.m, s.o, s.d)
        /\ r.d = s.d
    BY <1>3, <1>5 DEF PauseInv
  <2>2. \A i \in 1..Len(r.d) : ~(i > Len(s.d))
    BY <1>1, <2>1
  <2>3. \A t, p : HeldPause(s.m, s.o, t, p) => HeldPause(r.m, r.o, t, p)
    BY <1>3, <1>5 DEF HeldPause
  <2>4. Len(s.d) <= Len(r.d) /\ \A i \in 1..Len(s.d) : r.d[i] = s.d[i]
    BY <1>1, <2>1
  <2> QED BY <1>1, <1>4, <2>1, <2>2, <2>3, <2>4, LiftedStill
<1>8. VerdictFits(r.m)
  BY <1>5 DEF VerdictFits
<1> QED BY <1>2, <1>3, <1>5, <1>6, <1>7, <1>8 DEF PauseInv

-------------------------------------------------------------------------------
(* Speech                                                                    *)

Safe(s) == Fits(s, 0) /\ PauseInv(s)

\* A step that touches no pause needs to keep Fits alone; no verdict comes.
LEMMA SafeKept ==
    ASSUME NEW s, NEW r, Safe(s), Fits(r, 0), Keeps(s, r)
    PROVE  Safe(r) /\ r.m.asked = s.m.asked
<1>1. s \in Servers /\ r \in Servers
  BY DEF Safe, Fits
<1>2. Safe(r)
  BY <1>1, PauseKept DEF Safe
<1>3. r.m.asked = s.m.asked
  BY DEF Keeps, PauseOf
<1> QED BY <1>2, <1>3

\* The active turn is changed where the client does not see it.
LEMMA LastMarked ==
    ASSUME NEW s, NEW k, Fits(s, k), s.e.active # Nil, NEW v \in TurnStates,
           v.begun = s.e.turns[s.e.active].begun,
           v.done = s.e.turns[s.e.active].done
    PROVE  LET us == [s.e.turns EXCEPT ![s.e.active] = v]
           IN  /\ us \in Seq(TurnStates) /\ us[s.e.active] = v
               /\ Marks(s.e.turns, us) /\ LastDiffers(s.e.turns, us)
<1> DEFINE ts == s.e.turns
           n == s.e.active
           us == [ts EXCEPT ![n] = v]
<1>1. /\ ts \in Seq(TurnStates) /\ n = Len(ts) /\ n \in 1..Len(ts)
      /\ Len(ts) \in Nat /\ v.begun = ts[n].begun /\ v.done = ts[n].done
  BY ActiveTurn, ServerParts DEF Fits
<1> HIDE DEF ts, n
<1>2. us \in Seq(TurnStates) /\ Len(us) = Len(ts) /\ us[n] = v
      /\ \A t \in 1..Len(ts) : t # n => us[t] = ts[t]
  BY <1>1
<1> HIDE DEF us
<1>3. Marks(ts, us) /\ LastDiffers(ts, us)
  BY <1>1, <1>2 DEF Marks, LastDiffers
<1> QED BY <1>2, <1>3 DEF us, ts, n

\* The jobs of the speech service change, and nothing else.
LEMMA JobsStep ==
    ASSUME NEW s, NEW r \in Servers, Safe(s),
           r.m = s.m, r.o = s.o, r.d = s.d, r.e.turns = s.e.turns,
           r.e.active = s.e.active, r.e.paused = s.e.paused,
           r.e.kept = s.e.kept, r.e.deferred = s.e.deferred,
           r.e.interrupted = s.e.interrupted,
           JobsFit(s.e.turns, r.e.jobs, s.e.kept)
    PROVE  Safe(r)
<1>1. Fits(r, 0)
  BY DEF Safe, Fits
<1>2. Keeps(s, r)
  <2>1. s \in Servers
    BY DEF Safe, Fits
  <2> QED BY <2>1, KeepsSelf DEF Keeps
<1> QED BY <1>1, <1>2, SafeKept

\* The speech service has a sentence more, ...
LEMMA SayStep ==
    ASSUME NEW s, Safe(s), s.e.active # Nil, NEW r,
           r = [s EXCEPT !.e.said = @ + 1,
                         !.e.jobs = Append(@, [turn |-> s.e.active,
                                               spoken |-> FALSE])]
    PROVE  Safe(r)
<1> DEFINE job == [turn |-> s.e.active, spoken |-> FALSE]
           q == s.e.jobs
           jobs == Append(q, job)
           n == s.e.active
           ts == s.e.turns
           said == s.e.said + 1
<1>1. /\ s \in Servers /\ q \in Seq(JobStates) /\ job \in JobStates
      /\ said \in Nat /\ n = Len(ts) /\ n \in 1..Len(ts)
      /\ Len(ts) \in Nat /\ JobsFit(ts, q, s.e.kept) /\ job.turn = n
  <2>1. Fits(s, 0) /\ s \in Servers
    BY DEF Safe, Fits
  <2>2. s.e.said \in Nat
    BY <2>1 DEF Servers, Engines
  <2> QED BY <2>1, <2>2, ActiveTurn, ServerParts DEF Fits, JobStates
<1>2. r = [s EXCEPT !.e.said = said, !.e.jobs = jobs]
  OBVIOUS
<1> HIDE DEF job, q, n, ts, said
<1>3. /\ jobs \in Seq(JobStates) /\ Len(jobs) = Len(q) + 1 /\ Len(q) \in Nat
      /\ \A i \in 1..Len(q) : jobs[i] = q[i]
      /\ jobs[Len(jobs)] = job
      /\ \A i \in 1..Len(jobs) : i \in 1..Len(q) \/ i = Len(jobs)
  BY <1>1
<1> HIDE DEF jobs
<1>4. JobsFit(ts, jobs, s.e.kept)
  <2>1. \A i \in 1..Len(jobs) : jobs[i].turn \in 1..Len(ts)
    BY <1>1, <1>3 DEF JobsFit
  <2>2. \A i, j \in 1..Len(jobs) : i <= j => jobs[i].turn <= jobs[j].turn
    <3> SUFFICES ASSUME NEW i \in 1..Len(jobs), NEW j \in 1..Len(jobs), i <= j
                 PROVE  jobs[i].turn <= jobs[j].turn
      OBVIOUS
    <3>1. CASE j = Len(jobs)
      BY <3>1, <2>1, <1>1, <1>3
    <3>2. CASE j \in 1..Len(q)
      <4>1. i \in 1..Len(q)
        BY <3>2, <1>3
      <4> QED BY <3>2, <4>1, <1>1, <1>3 DEF JobsFit
    <3> QED BY <3>1, <3>2, <1>3
  <2>3. \A t \in 1..Len(ts), i \in 1..Len(jobs) :
          ts[t].begun => t <= jobs[i].turn
    BY <1>1, <1>3 DEF JobsFit
  <2>4. s.e.kept > 0 => \A i \in 1..Len(jobs) : jobs[i].turn = Len(ts)
    BY <1>1, <1>3 DEF JobsFit
  <2> QED BY <2>1, <2>2, <2>3, <2>4 DEF JobsFit
<1> DEFINE y == [s EXCEPT !.e.said = said, !.e.jobs = jobs]
<1>5. y \in Servers
  BY <1>1, <1>3, Zenon DEF Servers, Engines
<1>6. /\ y.m = s.m /\ y.o = s.o /\ y.d = s.d /\ y.e.turns = s.e.turns
      /\ y.e.active = s.e.active /\ y.e.paused = s.e.paused
      /\ y.e.kept = s.e.kept /\ y.e.deferred = s.e.deferred
      /\ y.e.interrupted = s.e.interrupted /\ y.e.jobs = jobs
  BY <1>1, Zenon DEF Servers, Engines
<1>7. r = y
  BY <1>2
<1> HIDE DEF y
<1>8. Safe(y)
  BY <1>4, <1>5, <1>6, JobsStep DEF ts
<1> QED BY <1>7, <1>8

\* ... has begun the first, ...
LEMMA SpokenStep ==
    ASSUME NEW s, Safe(s), s.e.jobs # <<>>, NEW r,
           r = [s EXCEPT !.e.jobs[1].spoken = TRUE]
    PROVE  Safe(r) /\ r.e.turns = s.e.turns /\ r.m = s.m
           /\ r.e.jobs # <<>> /\ r.e.jobs[1].turn = s.e.jobs[1].turn
<1> DEFINE q == s.e.jobs
           v == [q[1] EXCEPT !.spoken = TRUE]
           jobs == [q EXCEPT ![1] = v]
           ts == s.e.turns
<1>1. /\ s \in Servers /\ q \in Seq(JobStates) /\ q # <<>>
      /\ Len(ts) \in Nat /\ JobsFit(ts, q, s.e.kept)
  BY ServerParts DEF Safe, Fits
<1>2. r = [s EXCEPT !.e.jobs = jobs]
  BY <1>1, Zenon DEF Servers, Engines
<1> HIDE DEF q, ts
<1>3. 1 \in 1..Len(q) /\ q[1] \in JobStates
  BY <1>1
<1>4. v \in JobStates /\ v.turn = q[1].turn
  BY <1>3 DEF JobStates
<1> HIDE DEF v
<1>5. /\ jobs \in Seq(JobStates) /\ Len(jobs) = Len(q) /\ jobs # <<>>
      /\ \A i \in 1..Len(q) : jobs[i].turn = q[i].turn
  BY <1>1, <1>3, <1>4
<1> HIDE DEF jobs
<1>6. JobsFit(ts, jobs, s.e.kept)
  BY <1>1, <1>5 DEF JobsFit
<1>7. r \in Servers
  <2> DEFINE e == [s.e EXCEPT !.jobs = jobs]
  <2>1. s.e \in Engines
    BY <1>1 DEF Servers
  <2>2. jobs \in Seq(JobStates)
    BY <1>5
  <2>3. e \in Engines
    BY <2>1, <2>2, Zenon DEF Engines
  <2>4. r = [s EXCEPT !.e = e]
    BY <1>2, Zenon
  <2> HIDE DEF e
  <2> QED BY <1>1, <2>3, <2>4, Zenon DEF Servers
<1>8. /\ r.m = s.m /\ r.o = s.o /\ r.d = s.d /\ r.e.turns = s.e.turns
      /\ r.e.active = s.e.active /\ r.e.paused = s.e.paused
      /\ r.e.kept = s.e.kept /\ r.e.deferred = s.e.deferred
      /\ r.e.interrupted = s.e.interrupted /\ r.e.jobs = jobs
  BY <1>1, <1>2, ZenonT(30) DEF Servers, Engines
<1>9. Safe(r)
  BY <1>6, <1>7, <1>8, JobsStep DEF ts
<1> QED BY <1>3, <1>5, <1>8, <1>9 DEF q

\* ... or is done with it.
LEMMA SpokenOutStep ==
    ASSUME NEW s, Safe(s), s.e.jobs # <<>>, NEW r,
           r = [s EXCEPT !.e.jobs = Tail(@)]
    PROVE  Safe(r) /\ r.e.active = s.e.active /\ r.m = s.m
<1> DEFINE q == s.e.jobs
           jobs == Tail(q)
           ts == s.e.turns
<1>1. /\ s \in Servers /\ q \in Seq(JobStates) /\ q # <<>>
      /\ Len(ts) \in Nat /\ JobsFit(ts, q, s.e.kept)
      /\ r = [s EXCEPT !.e.jobs = jobs]
  BY ServerParts DEF Safe, Fits
<1> HIDE DEF q, ts
<1>2. /\ jobs \in Seq(JobStates) /\ Len(jobs) = Len(q) - 1
      /\ \A i \in 1..Len(jobs) : i + 1 \in 1..Len(q) /\ jobs[i] = q[i + 1]
  BY <1>1
<1> HIDE DEF jobs
<1>3. JobsFit(ts, jobs, s.e.kept)
  <2>1. \A i, j \in 1..Len(jobs) : i <= j => jobs[i].turn <= jobs[j].turn
    <3> SUFFICES ASSUME NEW i \in 1..Len(jobs), NEW j \in 1..Len(jobs), i <= j
                 PROVE  jobs[i].turn <= jobs[j].turn
      OBVIOUS
    <3>1. i + 1 <= j + 1
      BY <1>1, <1>2
    <3> QED BY <3>1, <1>1, <1>2, SMTT(20) DEF JobsFit
  <2> QED BY <2>1, <1>1, <1>2 DEF JobsFit
<1>4. r \in Servers
  <2>1. s.e \in Engines
    BY <1>1 DEF Servers
  <2>2. [s.e EXCEPT !.jobs = jobs] \in Engines
    BY <2>1, <1>2 DEF Engines
  <2> QED BY <2>2, <1>1, Zenon DEF Servers
<1>5. /\ r.m = s.m /\ r.o = s.o /\ r.d = s.d /\ r.e.turns = s.e.turns
      /\ r.e.active = s.e.active /\ r.e.paused = s.e.paused
      /\ r.e.kept = s.e.kept /\ r.e.deferred = s.e.deferred
      /\ r.e.interrupted = s.e.interrupted /\ r.e.jobs = jobs
  BY <1>1, Zenon DEF Servers, Engines
<1> QED BY <1>3, <1>4, <1>5, JobsStep DEF ts

\* A job is over: its turn may be.
LEMMA FinishedStep ==
    ASSUME NEW s, NEW t, Safe(s), t # Nil
    PROVE  Safe(Finished(s, t)) /\ Finished(s, t).m.asked = s.m.asked
<1>1. CASE t = s.e.active
  BY <1>1, MaybeFireStep, SafeKept DEF Finished, Safe
<1>2. CASE t # s.e.active
  BY <1>2 DEF Finished
<1> QED BY <1>1, <1>2

\* The first sentence is made audio.
LEMMA SynthesisedStep ==
    ASSUME PlayerFits, NEW s, NEW t, Safe(s), s.e.jobs # <<>>,
           t = s.e.jobs[1].turn
    PROVE  Safe(Synthesised(s, t)) /\ Synthesised(s, t).m.asked = s.m.asked
<1> DEFINE r == Synthesised(s, t)
<1>1. /\ Fits(s, 0) /\ s \in Servers /\ Chunks \in Nat /\ Chunks > 0
      /\ s.e.turns \in Seq(TurnStates) /\ s.e.jobs \in Seq(JobStates)
      /\ Len(s.e.turns) \in Nat /\ s.e.kept \in Nat
  BY ServerParts, LoopBounds DEF Safe, Fits
<1>2. /\ t \in 1..Len(s.e.turns)
      /\ \A u \in 1..Len(s.e.turns) : s.e.turns[u].begun => u <= t
  <2>1. JobsFit(s.e.turns, s.e.jobs, s.e.kept) /\ 1 \in 1..Len(s.e.jobs)
    BY <1>1 DEF Fits
  <2> QED BY <2>1 DEF JobsFit
<1>3. CASE s.e.interrupted
  BY <1>3 DEF Synthesised
<1>4. CASE ~s.e.interrupted /\ (t # s.e.active \/ s.e.turns[t].failed)
  <2>1. ~Owes(s.e.turns, t)
    <3>1. ASSUME Owes(s.e.turns, t) PROVE FALSE
      <4>1. t = Len(s.e.turns) /\ s.e.turns[t].done = "no" /\ ~s.e.turns[t].failed
        BY <3>1 DEF Owes, Good
      <4>2. s.e.active = t
        BY <4>1, <1>1, <1>2 DEF Fits, TurnsFit
      <4> QED BY <4>1, <4>2, <1>4
    <3> QED BY <3>1
  <2>2. Fits(AudioOut(s, t, Chunks), 0) /\ Keeps(s, AudioOut(s, t, Chunks))
    BY <2>1, <1>1, <1>2, AudioOutStep, SMTT(20)
  <2>3. r = AudioOut(s, t, Chunks)
    BY <1>4 DEF Synthesised
  <2> QED BY <2>2, <2>3, SafeKept
<1>5. CASE ~s.e.interrupted /\ t = s.e.active /\ ~s.e.turns[t].failed
  <2> DEFINE ts == s.e.turns
             v == [ts[t] EXCEPT !.made = @ + Chunks]
             us == [ts EXCEPT ![t] = v]
             kept == s.e.kept + Chunks
  <2>1. /\ t # Nil /\ ts[t] \in TurnStates /\ t = s.e.active
        /\ t = Len(s.e.turns) /\ Len(ts) > 0
    BY <1>1, <1>2, <1>5, ActiveTurn DEF Nil
  <2>2. \A i \in 1..Len(s.e.jobs) : s.e.jobs[i].turn = t
    BY <1>1, <2>1, LastJobs
  <2>3. /\ v \in TurnStates /\ v.made = ts[t].made + Chunks
        /\ v.begun = ts[t].begun /\ v.done = ts[t].done
        /\ v.failed = ts[t].failed /\ ts[t].made \in Int
    <3>1. ts[t] \in TurnStates /\ Chunks \in Nat
      BY <2>1, <1>1
    <3> HIDE DEF ts
    <3> QED BY <3>1 DEF TurnStates
  <2>4. us = [ts EXCEPT ![t] = v]
    OBVIOUS
  <2>0. ts = s.e.turns
    OBVIOUS
  <2>5. kept \in Nat /\ kept = s.e.kept + Chunks
    BY <1>1
  <2>6. r = IF s.e.paused # Nil
            THEN [s EXCEPT !.e.turns = us, !.e.kept = kept]
            ELSE SendTurnAudio([s EXCEPT !.e.turns = us], t, Chunks)
    <3>1. [s EXCEPT !.e.turns[t].made = @ + Chunks, !.e.kept = @ + Chunks]
          = [s EXCEPT !.e.turns = us, !.e.kept = kept]
      BY <1>1, Zenon DEF Servers, Engines
    <3>2. [s EXCEPT !.e.turns[t].made = @ + Chunks] = [s EXCEPT !.e.turns = us]
      BY <1>1, Zenon DEF Servers, Engines
    <3> HIDE DEF us, kept
    <3> QED BY <3>1, <3>2, <1>5, <2>0 DEF Synthesised
  <2> HIDE DEF v
  <2>7. /\ us \in Seq(TurnStates) /\ us[t] = v
        /\ Marks(ts, us) /\ LastDiffers(ts, us)
    <3>1. /\ v.begun = s.e.turns[s.e.active].begun
          /\ v.done = s.e.turns[s.e.active].done
      BY <2>1, <2>3
    <3>2. us = [s.e.turns EXCEPT ![s.e.active] = v] /\ s.e.active # Nil
      BY <2>1, SMTT(20)
    <3> HIDE DEF us
    <3>3. /\ us \in Seq(TurnStates) /\ us[s.e.active] = v
          /\ Marks(s.e.turns, us) /\ LastDiffers(s.e.turns, us)
      BY <1>1, <2>3, <3>1, <3>2, LastMarked
    <3> QED BY <3>3, <2>1
  <2> HIDE DEF us, kept, ts
  <2>8. CASE s.e.paused # Nil
    <3> DEFINE y == [s EXCEPT !.e.turns = us, !.e.kept = kept]
    <3>1. y \in Servers
      BY <1>1, <2>5, <2>7, Zenon DEF Servers, Engines
    <3>2. /\ y.m = s.m /\ y.o = s.o /\ y.d = s.d
          /\ y.e.turns = us /\ y.e.active = s.e.active
          /\ y.e.paused = s.e.paused /\ y.e.kept = kept
          /\ y.e.deferred = s.e.deferred /\ y.e.jobs = s.e.jobs
          /\ y.e.interrupted = s.e.interrupted
      BY <1>1, Zenon DEF Servers, Engines
    <3> HIDE DEF y
    <3>3. PauseFits(y.e.turns, y.e.active, y.e.paused, y.e.kept, y.e.deferred)
      <4>1. s.e.paused = t
        BY <1>1, <2>1, <2>8, NothingPaused
      <4> QED BY <4>1, <1>5, <2>1, <2>3, <2>7, <2>8, <3>2, <2>0 DEF PauseFits
    <3>4. JobsFit(s.e.turns, y.e.jobs, y.e.kept)
      <4>1. JobsFit(s.e.turns, s.e.jobs, s.e.kept)
        BY <1>1 DEF Fits
      <4> QED BY <4>1, <2>1, <2>2, <3>2 DEF JobsFit
    <3>5. /\ y.e.turns[t].failed = s.e.turns[t].failed
          /\ y.e.turns[t].made - (y.e.kept + 0)
                = s.e.turns[t].made - (s.e.kept + 0)
      <4>1. /\ y.e.turns[t].failed = ts[t].failed
            /\ y.e.turns[t].made = ts[t].made + Chunks
            /\ y.e.kept = s.e.kept + Chunks
        BY <2>3, <2>5, <2>7, <3>2
      <4>2. ts[t].made \in Int
        BY <2>3
      <4> DEFINE m == ts[t].made
                 k == s.e.kept
                 mm == y.e.turns[t].made
                 kk == y.e.kept
      <4>3. /\ m \in Int /\ k \in Nat /\ Chunks \in Nat
            /\ mm = m + Chunks /\ kk = k + Chunks
        BY <4>1, <4>2, <1>1
      <4> HIDE DEF m, k, mm, kk
      <4>4. mm - (kk + 0) = m - (k + 0)
        BY <4>3
      <4> QED BY <4>1, <4>4, <2>0 DEF m, k, mm, kk
    <3>6. /\ Marks(s.e.turns, y.e.turns) /\ LastDiffers(s.e.turns, y.e.turns)
          /\ SameFlow(s, y) /\ y.d = s.d
          /\ y.e.interrupted => y.e.paused = Nil
      BY <1>5, <2>0, <2>7, <3>2 DEF SameFlow
    <3>7. Fits(y, 0)
      BY <1>1, <2>1, <3>1, <3>2, <3>3, <3>4, <3>5, <3>6, EngineStep
    <3>8. Keeps(s, y)
      BY <1>1, <3>2, KeepsSelf DEF Keeps
    <3> QED BY <2>6, <2>8, <3>7, <3>8, SafeKept DEF y
  <2>9. CASE s.e.paused = Nil
    <3> DEFINE y == [s EXCEPT !.e.turns = us]
               z == SendTurnAudio(y, t, Chunks)
    <3>1. y \in Servers
      BY <1>1, <2>7, Zenon DEF Servers, Engines
    <3>2. /\ y.m = s.m /\ y.o = s.o /\ y.d = s.d
          /\ y.e.turns = us /\ y.e.active = s.e.active
          /\ y.e.paused = s.e.paused /\ y.e.kept = s.e.kept
          /\ y.e.deferred = s.e.deferred /\ y.e.jobs = s.e.jobs
          /\ y.e.interrupted = s.e.interrupted
      BY <1>1, Zenon DEF Servers, Engines
    <3> HIDE DEF y
    <3>3. PauseFits(y.e.turns, y.e.active, y.e.paused, y.e.kept, y.e.deferred)
      <4>1. s.e.kept = 0 /\ s.e.deferred = "no"
        BY <1>1, <2>9, NothingPaused
      <4> QED BY <4>1, <2>9, <3>2 DEF PauseFits
    <3>4. JobsFit(s.e.turns, y.e.jobs, y.e.kept)
      BY <1>1, <3>2 DEF Fits
    <3>5. /\ y.e.turns[t].failed = s.e.turns[t].failed
          /\ y.e.turns[t].made - (y.e.kept + Chunks)
                = s.e.turns[t].made - (s.e.kept + 0)
      <4>1. /\ y.e.turns[t].failed = ts[t].failed
            /\ y.e.turns[t].made = ts[t].made + Chunks
            /\ y.e.kept = s.e.kept
        BY <2>3, <2>7, <3>2
      <4>2. ts[t].made \in Int
        BY <2>3
      <4> DEFINE m == ts[t].made
                 k == s.e.kept
                 mm == y.e.turns[t].made
                 kk == y.e.kept
      <4>3. /\ m \in Int /\ k \in Nat /\ Chunks \in Nat
            /\ mm = m + Chunks /\ kk = k
        BY <4>1, <4>2, <1>1, SMTT(20)
      <4> HIDE DEF m, k, mm, kk
      <4>4. mm - (kk + Chunks) = m - (k + 0)
        BY <4>3, SMTT(20)
      <4> QED BY <4>1, <4>4, <2>0 DEF m, k, mm, kk
    <3>6. /\ Marks(s.e.turns, y.e.turns) /\ LastDiffers(s.e.turns, y.e.turns)
          /\ SameFlow(s, y) /\ y.d = s.d
          /\ y.e.interrupted => y.e.paused = Nil
      BY <1>5, <2>0, <2>7, <3>2, SMTT(20) DEF SameFlow
    <3>7. Fits(y, Chunks)
      BY <1>1, <2>1, <3>1, <3>2, <3>3, <3>4, <3>5, <3>6, EngineStep
    <3>8. Keeps(s, y)
      BY <1>1, <3>2, KeepsSelf DEF Keeps
    <3>9. Fits(z, 0) /\ Keeps(y, z)
      BY <1>1, <2>1, <2>2, <3>2, <3>7, SendStep
    <3>10. r = z
      BY <2>6, <2>9 DEF y
    <3> HIDE DEF z
    <3>11. Keeps(s, z)
      <4>1. z \in Servers
        BY <3>9 DEF Fits
      <4> QED BY <4>1, <1>1, <3>1, <3>8, <3>9, KeepsTwice
    <3> QED BY <3>9, <3>10, <3>11, SafeKept
  <2> QED BY <2>8, <2>9
<1> QED BY <1>3, <1>4, <1>5

-------------------------------------------------------------------------------
(* The other steps of the server                                             *)

\* The model returns, and its turn may be over.
LEMMA ReturnsStep ==
    ASSUME NEW s, Safe(s), s.e.active # Nil, NEW n, n = s.e.active
    PROVE  LET r == MaybeFireAiDone([s EXCEPT !.e.turns[n].returned = TRUE], n)
           IN  Safe(r) /\ r.m.asked = s.m.asked
<1> DEFINE v == [s.e.turns[n] EXCEPT !.returned = TRUE]
           us == [s.e.turns EXCEPT ![n] = v]
           r == [s EXCEPT !.e.turns = us]
<1>1. /\ Fits(s, 0) /\ s \in Servers /\ s.e.turns[n] \in TurnStates
  BY ActiveTurn DEF Safe, Fits
<1>2. /\ v \in TurnStates /\ v.begun = s.e.turns[n].begun
      /\ v.done = s.e.turns[n].done /\ v.failed = s.e.turns[n].failed
      /\ v.made = s.e.turns[n].made
  BY <1>1 DEF TurnStates
<1>3. [s EXCEPT !.e.turns[n].returned = TRUE] = r
  BY <1>1, Zenon DEF Servers, Engines
<1>4. us = [s.e.turns EXCEPT ![s.e.active] = v]
  OBVIOUS
<1> HIDE DEF v, us
<1>5. /\ us \in Seq(TurnStates) /\ us[n] = v
      /\ Marks(s.e.turns, us) /\ LastDiffers(s.e.turns, us)
  BY <1>1, <1>2, <1>4, LastMarked
<1>6. r \in Servers
  BY <1>1, <1>5, Zenon DEF Servers, Engines
<1>7. /\ r.m = s.m /\ r.o = s.o /\ r.d = s.d
      /\ r.e.turns = us /\ r.e.active = s.e.active
      /\ r.e.paused = s.e.paused /\ r.e.kept = s.e.kept
      /\ r.e.deferred = s.e.deferred /\ r.e.jobs = s.e.jobs
      /\ r.e.interrupted = s.e.interrupted
  BY <1>1, Zenon DEF Servers, Engines
<1> HIDE DEF r
<1>8. PauseFits(r.e.turns, r.e.active, r.e.paused, r.e.kept, r.e.deferred)
  <2>1. PauseFits(s.e.turns, s.e.active, s.e.paused, s.e.kept, s.e.deferred)
        /\ (s.e.paused # Nil => s.e.paused = n)
    BY <1>1, NothingPaused DEF Fits
  <2>2. s.e.deferred = "full" => s.e.paused # Nil
    BY <2>1 DEF PauseFits
  <2> QED BY <2>1, <2>2, <1>2, <1>5, <1>7 DEF PauseFits
<1>9. /\ JobsFit(s.e.turns, r.e.jobs, r.e.kept) /\ SameFlow(s, r)
      /\ r.e.interrupted => r.e.paused = Nil
  BY <1>1, <1>7 DEF Fits, SameFlow
<1>10. /\ r.e.turns[s.e.active].failed = s.e.turns[s.e.active].failed
       /\ r.e.turns[s.e.active].made - (r.e.kept + 0)
            = s.e.turns[s.e.active].made - (s.e.kept + 0)
  BY <1>2, <1>5, <1>7, SMTT(20)
<1>11. Fits(r, 0)
  BY <1>1, <1>5, <1>6, <1>7, <1>8, <1>9, <1>10, EngineStep
<1>12. Keeps(s, r)
  BY <1>1, <1>7, KeepsSelf DEF Keeps
<1>13. Safe(r)
  BY <1>11, <1>12, SafeKept
<1>14. Safe(MaybeFireAiDone(r, n))
       /\ MaybeFireAiDone(r, n).m.asked = s.m.asked
  BY <1>7, <1>13, MaybeFireStep, SafeKept DEF Safe
<1> QED BY <1>3, <1>14

\* The model fails: of what a pause kept nothing is owed.
LEMMA FailStep ==
    ASSUME NEW s, Safe(s), s.e.active # Nil, NEW n, n = s.e.active
    PROVE  LET r == FireAiDone([s EXCEPT !.e.turns[n] =
                        [@ EXCEPT !.failed = TRUE, !.returned = TRUE]],
                               n, FALSE)
           IN  Safe(r) /\ r.m.asked = s.m.asked
<1> DEFINE v == [s.e.turns[n] EXCEPT !.failed = TRUE, !.returned = TRUE]
           us == [s.e.turns EXCEPT ![n] = v]
           r == [s EXCEPT !.e.turns = us]
           z == [r EXCEPT !.e.deferred = "partial"]
<1>1. /\ Fits(s, 0) /\ s \in Servers /\ s.e.turns[n] \in TurnStates
      /\ s.e.turns[n].done = "no" /\ s.e.turns \in Seq(TurnStates)
      /\ n \in 1..Len(s.e.turns)
  BY ActiveTurn, ServerParts DEF Safe, Fits
<1>2. /\ v \in TurnStates /\ v.begun = s.e.turns[n].begun
      /\ v.done = s.e.turns[n].done /\ v.failed
  BY <1>1 DEF TurnStates
<1>3. [s EXCEPT !.e.turns[n] = [@ EXCEPT !.failed = TRUE, !.returned = TRUE]] = r
  BY <1>1, Zenon DEF Servers, Engines
<1>4. us = [s.e.turns EXCEPT ![s.e.active] = v]
  OBVIOUS
<1> HIDE DEF v, us
<1>5. /\ us \in Seq(TurnStates) /\ us[n] = v
      /\ Marks(s.e.turns, us) /\ LastDiffers(s.e.turns, us)
  BY <1>1, <1>2, <1>4, LastMarked
<1>6. r \in Servers
  BY <1>1, <1>5, Zenon DEF Servers, Engines
<1>7. /\ r.m = s.m /\ r.o = s.o /\ r.d = s.d
      /\ r.e.turns = us /\ r.e.active = s.e.active
      /\ r.e.paused = s.e.paused /\ r.e.kept = s.e.kept
      /\ r.e.deferred = s.e.deferred /\ r.e.jobs = s.e.jobs
      /\ r.e.interrupted = s.e.interrupted
  BY <1>1, Zenon DEF Servers, Engines
<1> HIDE DEF r
<1>8. CASE s.e.paused = n
  <2>1. FireAiDone(r, n, FALSE) = z
    BY <1>1, <1>2, <1>5, <1>7, <1>8 DEF FireAiDone
  <2>2. z \in Servers
    BY <1>6, Zenon DEF Servers, Engines, Endings
  <2>3. /\ z.m = r.m /\ z.o = r.o /\ z.d = r.d
        /\ z.e.turns = r.e.turns /\ z.e.active = r.e.active
        /\ z.e.paused = r.e.paused /\ z.e.kept = r.e.kept
        /\ z.e.deferred = "partial" /\ z.e.jobs = r.e.jobs
        /\ z.e.interrupted = r.e.interrupted
    BY <1>6, Zenon DEF Servers, Engines
  <2> HIDE DEF z
  <2>4. PauseFits(z.e.turns, z.e.active, z.e.paused, z.e.kept, z.e.deferred)
    BY <1>7, <1>8, <2>3 DEF PauseFits
  <2>5. /\ JobsFit(s.e.turns, z.e.jobs, z.e.kept) /\ SameFlow(s, z)
        /\ z.e.interrupted => z.e.paused = Nil
    BY <1>1, <1>7, <2>3 DEF Fits, SameFlow
  <2>6. z.e.turns[s.e.active].failed
    BY <1>2, <1>5, <1>7, <2>3
  <2>7. Fits(z, 0)
    BY <1>1, <1>5, <1>7, <2>2, <2>3, <2>4, <2>5, <2>6, EngineStep
  <2>8. Keeps(s, z)
    BY <1>1, <1>7, <2>3, KeepsSelf DEF Keeps
  <2> QED BY <1>3, <2>1, <2>7, <2>8, SafeKept
<1>9. CASE s.e.paused # n
  <2>1. s.e.paused = Nil /\ s.e.kept = 0 /\ s.e.deferred = "no"
    BY <1>1, <1>9, NothingPaused
  <2>2. PauseFits(r.e.turns, r.e.active, r.e.paused, r.e.kept, r.e.deferred)
    BY <1>7, <2>1 DEF PauseFits
  <2>3. /\ JobsFit(s.e.turns, r.e.jobs, r.e.kept) /\ SameFlow(s, r)
        /\ r.e.interrupted => r.e.paused = Nil
    BY <1>1, <1>7 DEF Fits, SameFlow
  <2>4. r.e.turns[s.e.active].failed
    BY <1>2, <1>5, <1>7
  <2>5. Fits(r, 0)
    BY <1>1, <1>5, <1>6, <1>7, <2>2, <2>3, <2>4, EngineStep
  <2>6. Keeps(s, r)
    BY <1>1, <1>7, KeepsSelf DEF Keeps
  <2>7. Safe(r)
    BY <2>5, <2>6, SafeKept
  <2>8. Safe(FireAiDone(r, n, FALSE))
        /\ FireAiDone(r, n, FALSE).m.asked = s.m.asked
    <3>1. Fits(r, 0) /\ n = r.e.active /\ n # Nil
      BY <1>7, <2>7 DEF Safe
    <3>2. Fits(FireAiDone(r, n, FALSE), 0) /\ Keeps(r, FireAiDone(r, n, FALSE))
      BY <3>1, FireAiDoneStep
    <3>3. FireAiDone(r, n, FALSE).m.asked = s.m.asked
      BY <1>7, <3>2 DEF Keeps, PauseOf
    <3> QED BY <2>7, <3>2, <3>3, SafeKept
  <2> QED BY <1>3, <2>8
<1> QED BY <1>8, <1>9

\* A turn of the user ends.
LEMMA TurnEndStep ==
    ASSUME NEW s, Safe(s), NEW text \in BOOLEAN
    PROVE  LET r == Answer(ResetTurn(PauseDropped(
                        [s EXCEPT !.e.interrupted = FALSE, !.e.text = text])))
           IN  Safe(r) /\ r.m.asked = s.m.asked
<1> DEFINE a == [s EXCEPT !.e.interrupted = FALSE, !.e.text = text]
           b == PauseDropped(a)
           c == ResetTurn(b)
           z == [c EXCEPT !.e.text = FALSE]
<1>1. Fits(s, 0) /\ s \in Servers
  BY DEF Safe, Fits
<1>2. a \in Servers
  BY <1>1, Zenon DEF Servers, Engines
<1>3. /\ a.m = s.m /\ a.o = s.o /\ a.d = s.d
      /\ a.e.turns = s.e.turns /\ a.e.active = s.e.active
      /\ a.e.paused = s.e.paused /\ a.e.kept = s.e.kept
      /\ a.e.deferred = s.e.deferred /\ a.e.jobs = s.e.jobs
      /\ a.e.interrupted = FALSE
  BY <1>1, Zenon DEF Servers, Engines
<1> HIDE DEF a
<1>4. Fits(a, 0)
  BY <1>1, <1>2, <1>3 DEF Fits
<1>5. Safe(a)
  <2>1. Keeps(s, a)
    BY <1>1, <1>3, KeepsSelf DEF Keeps
  <2> QED BY <2>1, <1>4, SafeKept
<1>6. Fits(b, 0) /\ Keeps(a, b) /\ b.e.paused = Nil
  BY <1>4, PauseDroppedStep
<1> HIDE DEF b
<1>7. Fits(c, 0) /\ PauseInv(c) /\ c.e = b.e /\ c.m.asked = s.m.asked
  BY <1>3, <1>5, <1>6, SafeKept, ResetTurnStep DEF Safe
<1> HIDE DEF c
<1>8. c \in Servers
  BY <1>7 DEF Fits
<1>9. z \in Servers
  BY <1>8, Zenon DEF Servers, Engines
<1>10. /\ z.m = c.m /\ z.o = c.o /\ z.d = c.d
       /\ z.e.turns = c.e.turns /\ z.e.active = c.e.active
       /\ z.e.paused = c.e.paused /\ z.e.kept = c.e.kept
       /\ z.e.deferred = c.e.deferred /\ z.e.jobs = c.e.jobs
       /\ z.e.interrupted = c.e.interrupted
  BY <1>8, Zenon DEF Servers, Engines
<1>11. Answer(c) = IF c.e.active # Nil /\ ~c.e.turns[c.e.active].returned THEN c
                   ELSE IF c.e.text THEN NewTurn(z, TRUE) ELSE c
  BY DEF Answer
<1> HIDE DEF z
<1>12. Safe(z) /\ z.e.paused = Nil
  <2>1. Fits(z, 0)
    BY <1>7, <1>9, <1>10 DEF Fits
  <2>2. Keeps(c, z)
    BY <1>8, <1>10, KeepsSelf DEF Keeps
  <2> QED BY <2>1, <2>2, <1>6, <1>7, <1>10, SafeKept DEF Safe
<1>13. Safe(NewTurn(z, TRUE)) /\ NewTurn(z, TRUE).m.asked = s.m.asked
  <2>1. Fits(NewTurn(z, TRUE), 0) /\ Keeps(z, NewTurn(z, TRUE))
    BY <1>12, NewTurnStep DEF Safe
  <2>2. NewTurn(z, TRUE).m.asked = s.m.asked
    BY <1>7, <1>10, <2>1 DEF Keeps, PauseOf
  <2> QED BY <1>12, <2>1, <2>2, SafeKept
<1> QED BY <1>7, <1>11, <1>13 DEF Safe, a, b, c

\* kickoff, nudge and the next question.
LEMMA SystemTurnStep ==
    ASSUME NEW s, Safe(s), s.e.active = Nil
    PROVE  Safe(NewTurn(s, FALSE)) /\ NewTurn(s, FALSE).m.asked = s.m.asked
<1>1. Fits(s, 0) /\ s.e.paused = Nil
  BY NothingPaused DEF Safe
<1>2. Fits(NewTurn(s, FALSE), 0) /\ Keeps(s, NewTurn(s, FALSE))
  BY <1>1, NewTurnStep
<1> QED BY <1>2, SafeKept

\* What changes of the media session alone: the watchdog, the question whose
\* voice it is and the answer that changes nothing.
LEMMA MediaStep ==
    ASSUME NEW s, NEW r \in Servers, Safe(s), r.e = s.e, r.o = s.o, r.d = s.d,
           SameFlow(s, r), r.m.pausing = s.m.pausing,
           r.m.paused = s.m.paused, r.m.pauses = s.m.pauses,
           VerdictFits(r.m)
    PROVE  Safe(r)
<1>1. Fits(s, 0) /\ s \in Servers /\ Len(s.d) \in Nat
  BY ServerParts DEF Safe, Fits
<1>2. SameEngine(s, r)
  BY DEF SameEngine
<1>3. Fits(r, 0)
  BY <1>1, <1>2, OtherStep
<1>4. PausesLifted(r.m, r.o, r.d) /\ FreezeLifted(r.m, r.o, r.d)
  <2>1. PausesLifted(s.m, s.o, s.d) /\ FreezeLifted(s.m, s.o, s.d)
    BY DEF Safe, PauseInv
  <2>2. \A i \in 1..Len(r.d) : ~(i > Len(s.d))
    BY <1>1
  <2>3. \A t, p : HeldPause(s.m, s.o, t, p) => HeldPause(r.m, r.o, t, p)
    BY DEF HeldPause
  <2>4. Len(s.d) <= Len(r.d) /\ \A i \in 1..Len(s.d) : r.d[i] = s.d[i]
    BY <1>1
  <2> QED BY <1>1, <2>1, <2>2, <2>3, <2>4, LiftedStill
<1> QED BY <1>3, <1>4 DEF Safe, PauseInv

\* Output that waited too long is thrown away.
LEMMA FailPendingStep ==
    ASSUME NEW s, Safe(s), s.m.pending # <<>>
    PROVE  LET r == FailPending(s, s.m.pending[1].turn)
           IN  Safe(r) /\ r.m.asked = s.m.asked
<1> DEFINE t == s.m.pending[1].turn
           ts == s.e.turns
           r == [s EXCEPT !.m.pending = <<>>, !.m.flow = Nil,
                          !.m.retired = s.m.retired \cup {t}]
<1>1. /\ Fits(s, 0) /\ s \in Servers /\ s.m.pending \in Seq(Outputs)
      /\ ts \in Seq(TurnStates) /\ s.m.retired \in SUBSET Nat
      /\ Len(ts) \in Nat /\ s.d \in Seq(Frames)
  <2>1. Fits(s, 0) /\ s \in Servers
    BY DEF Safe, Fits
  <2>2. s.m.pending \in Seq(Outputs) /\ s.m.retired \in SUBSET Nat
    BY <2>1 DEF Servers, Medias
  <2> QED BY <2>1, <2>2, ServerParts
<1>2. FailPending(s, t) = r
  BY Zenon DEF FailPending
<1>3. Len(s.m.pending) # 0 /\ 1 \in 1..Len(s.m.pending)
  BY <1>1
<1>4. FlowFits(ts, s.m.flow, s.m.retired, s.m.pending)
  BY <1>1 DEF Fits
<1>5. t \in 1..Len(ts) /\ ~(Len(ts) > 0 /\ Clean(ts, Len(ts)))
  BY <1>3, <1>4 DEF FlowFits
<1> HIDE DEF t, ts
<1>6. <<>> \in Seq(Outputs) /\ Nil \in Nat
      /\ s.m.retired \cup {t} \in SUBSET Nat
  BY <1>1, <1>5 DEF Nil
<1>7. r \in Servers
  BY <1>1, <1>6, Zenon DEF Servers, Medias
<1>8. /\ r.e = s.e /\ r.o = s.o /\ r.d = s.d /\ r.m.pending = <<>>
      /\ r.m.flow = Nil /\ r.m.retired = s.m.retired \cup {t}
      /\ r.m.pausing = s.m.pausing /\ r.m.pauses = s.m.pauses
      /\ r.m.paused = s.m.paused /\ r.m.asked = s.m.asked
      /\ r.m.checking = s.m.checking
  BY <1>1, Zenon DEF Servers, Medias
<1> HIDE DEF r
<1>9. FlowFits(ts, r.m.flow, r.m.retired, r.m.pending)
  BY <1>1, <1>4, <1>5, <1>8 DEF FlowFits, Nil
<1>10. Follows(ts, r.m.flow, r.d)
  <2>1. Follows(ts, s.m.flow, s.d)
    BY <1>1 DEF Fits, ts
  <2>2. ~Reported(Nil)
    BY DEF Reported, AiTurns, Nil
  <2>3. r.m.flow = Nil /\ r.d = s.d
    BY <1>8
  <2> QED BY <2>1, <2>2, <2>3 DEF Follows
<1>11. Fits(r, 0)
  <2>1. r.e.turns = ts
    BY <1>8 DEF ts
  <2> QED BY <1>1, <1>7, <1>8, <1>9, <1>10, <2>1 DEF Fits
<1>12. Keeps(s, r)
  BY <1>1, <1>8, KeepsSelf DEF Keeps, PauseOf
<1> QED BY <1>2, <1>11, <1>12, SafeKept DEF t

-------------------------------------------------------------------------------
(* The first frame is taken                                                  *)

\* What is left of the frames under way when the first arrives.
LEMMA HasTail ==
    ASSUME NEW d \in Seq(Frames), d # <<>>
    PROVE  /\ Tail(d) \in Seq(Frames) /\ Head(d) = d[1] /\ d[1] \in Frames
           /\ Len(d) \in Nat \ {0} /\ Len(Tail(d)) = Len(d) - 1
           /\ \A i \in 1..Len(Tail(d)) : i + 1 \in 1..Len(d)
                                         /\ Tail(d)[i] = d[i + 1]
           /\ \A i \in 1..Len(d) : i # 1 =>
                 i - 1 \in 1..Len(Tail(d)) /\ Tail(d)[i - 1] = d[i]
           /\ \A kind, t : Has(d, kind, t) <=>
                 Has(Tail(d), kind, t) \/ (d[1].kind = kind /\ d[1].turn = t)
<1> DEFINE q == Tail(d)
<1>1. /\ q \in Seq(Frames) /\ Head(d) = d[1] /\ d[1] \in Frames
      /\ Len(d) \in Nat \ {0} /\ Len(q) = Len(d) - 1
      /\ \A i \in 1..Len(q) : i + 1 \in 1..Len(d) /\ q[i] = d[i + 1]
  OBVIOUS
<1> HIDE DEF q
<1>2. \A i \in 1..Len(d) : i # 1 => i - 1 \in 1..Len(q) /\ q[i - 1] = d[i]
  <2> SUFFICES ASSUME NEW i \in 1..Len(d), i # 1
               PROVE  i - 1 \in 1..Len(q) /\ q[i - 1] = d[i]
    OBVIOUS
  <2>1. i - 1 \in 1..Len(q) /\ (i - 1) + 1 = i
    BY <1>1
  <2> QED BY <2>1, <1>1
<1>3. 1 \in 1..Len(d)
  BY <1>1
<1>4. \A kind, t : Has(d, kind, t) <=>
         Has(q, kind, t) \/ (d[1].kind = kind /\ d[1].turn = t)
  BY <1>1, <1>2, <1>3 DEF Has
<1> QED BY <1>1, <1>2, <1>4 DEF q

\* The frames behind the first are in order, ...
LEMMA WireTail ==
    ASSUME NEW d \in Seq(Frames), d # <<>>, NEW ts, WireFits(ts, d)
    PROVE  /\ WireFits(ts, Tail(d))
           /\ \A i \in 1..Len(Tail(d)) : d[1].kind = "start" =>
                 /\ Tail(d)[i].kind = "start" => d[1].turn < Tail(d)[i].turn
                 /\ Tail(d)[i].kind \in {"audio", "end"} =>
                       d[1].turn <= Tail(d)[i].turn
           /\ \A i \in 1..Len(Tail(d)) :
                 d[1].kind = "end" /\ Tail(d)[i].kind \in TurnKinds =>
                     d[1].turn # Tail(d)[i].turn
<1> DEFINE q == Tail(d)
<1>1. /\ Len(d) \in Nat \ {0} /\ Len(q) = Len(d) - 1 /\ 1 \in 1..Len(d)
      /\ \A i \in 1..Len(q) : i + 1 \in 1..Len(d) /\ q[i] = d[i + 1] /\ 1 < i + 1
  BY HasTail
<1> HIDE DEF q
<1>2. \A i \in 1..Len(q) :
          /\ q[i].kind \in TurnKinds => q[i].turn \in 1..Len(ts)
          /\ q[i].kind \in {"start", "end"} => ts[q[i].turn].begun
          /\ q[i].kind = "end" => ts[q[i].turn].done = "full"
  <2> SUFFICES ASSUME NEW i \in 1..Len(q)
               PROVE  /\ q[i].kind \in TurnKinds => q[i].turn \in 1..Len(ts)
                      /\ q[i].kind \in {"start", "end"} => ts[q[i].turn].begun
                      /\ q[i].kind = "end" => ts[q[i].turn].done = "full"
    OBVIOUS
  <2>1. i + 1 \in 1..Len(d) /\ q[i] = d[i + 1]
    BY <1>1
  <2> QED BY <2>1 DEF WireFits
<1>3. \A i, j \in 1..Len(q) : i < j => i + 1 < j + 1
  BY <1>1
<1>4. \A i, j \in 1..Len(q) : i < j /\ q[i].kind = "start" =>
          /\ q[j].kind = "start" => q[i].turn < q[j].turn
          /\ q[j].kind \in {"audio", "end"} => q[i].turn <= q[j].turn
  <2> SUFFICES ASSUME NEW i \in 1..Len(q), NEW j \in 1..Len(q),
                      i < j, q[i].kind = "start"
               PROVE  /\ q[j].kind = "start" => q[i].turn < q[j].turn
                      /\ q[j].kind \in {"audio", "end"} => q[i].turn <= q[j].turn
    OBVIOUS
  <2>1. \A k, l \in 1..Len(d) : k < l /\ d[k].kind = "start" =>
          /\ d[l].kind = "start" => d[k].turn < d[l].turn
          /\ d[l].kind \in {"audio", "end"} => d[k].turn <= d[l].turn
    BY DEF WireFits
  <2>2. /\ i + 1 \in 1..Len(d) /\ j + 1 \in 1..Len(d) /\ i + 1 < j + 1
        /\ q[i] = d[i + 1] /\ q[j] = d[j + 1]
    BY <1>1, <1>3
  <2> QED BY <2>1, <2>2
<1>5. \A i, j \in 1..Len(q) :
          i < j /\ q[i].kind = "end" /\ q[j].kind \in TurnKinds =>
              q[i].turn # q[j].turn
  BY <1>1, <1>3, SMTT(20) DEF WireFits
<1>6. \A i \in 1..Len(q) : d[1].kind = "start" =>
          /\ q[i].kind = "start" => d[1].turn < q[i].turn
          /\ q[i].kind \in {"audio", "end"} => d[1].turn <= q[i].turn
  BY <1>1 DEF WireFits
<1>7. \A i \in 1..Len(q) : d[1].kind = "end" /\ q[i].kind \in TurnKinds =>
          d[1].turn # q[i].turn
  BY <1>1 DEF WireFits
<1>8. WireFits(ts, q)
  BY <1>2, <1>4, <1>5 DEF WireFits
<1> QED BY <1>6, <1>7, <1>8 DEF q

\* A pause behind the first frame is lifted by what comes later.
LEMMA PausesTail ==
    ASSUME NEW d \in Seq(Frames), d # <<>>, NEW m, NEW o, PausesLifted(m, o, d)
    PROVE  /\ PausesLifted(m, o, Tail(d))
           /\ d[1].kind = "pause" =>
                 \/ HeldPause(m, o, d[1].turn, d[1].pause)
                 \/ \E j \in 1..Len(Tail(d)) :
                       LiftsPause(Tail(d)[j], d[1].turn, d[1].pause)
           /\ FreezeLifted(m, o, d) =>
                 \/ LiftsPause(d[1], control.turn, control.pause)
                 \/ FreezeLifted(m, o, Tail(d))
<1> DEFINE q == Tail(d)
<1>1. /\ Len(d) \in Nat \ {0} /\ 1 \in 1..Len(d)
      /\ \A i \in 1..Len(q) : i + 1 \in 1..Len(d) /\ q[i] = d[i + 1] /\ 1 < i + 1
      /\ \A i \in 1..Len(d) : i # 1 => i - 1 \in 1..Len(q) /\ q[i - 1] = d[i]
  BY HasTail
<1> HIDE DEF q
<1>2. ASSUME NEW i \in 1..Len(q), q[i].kind = "pause"
      PROVE  \/ HeldPause(m, o, q[i].turn, q[i].pause)
             \/ \E j \in 1..Len(q) :
                   j > i /\ LiftsPause(q[j], q[i].turn, q[i].pause)
  <2>1. i + 1 \in 1..Len(d) /\ q[i] = d[i + 1]
    BY <1>1
  <2>2. \/ HeldPause(m, o, q[i].turn, q[i].pause)
        \/ \E j \in 1..Len(d) :
              j > i + 1 /\ LiftsPause(d[j], q[i].turn, q[i].pause)
    BY <2>1, <1>2 DEF PausesLifted
  <2>3. ASSUME NEW j \in 1..Len(d), j > i + 1,
               LiftsPause(d[j], q[i].turn, q[i].pause)
        PROVE  j - 1 \in 1..Len(q) /\ j - 1 > i /\ q[j - 1] = d[j]
    BY <2>3, <1>1
  <2> QED BY <2>2, <2>3
<1>3. PausesLifted(m, o, q)
  BY <1>2 DEF PausesLifted
<1>4. d[1].kind = "pause" =>
         \/ HeldPause(m, o, d[1].turn, d[1].pause)
         \/ \E j \in 1..Len(q) : LiftsPause(q[j], d[1].turn, d[1].pause)
  <2>1. \A j \in 1..Len(d) : j > 1 => j - 1 \in 1..Len(q) /\ q[j - 1] = d[j]
    BY <1>1
  <2> QED BY <2>1, <1>1 DEF PausesLifted
<1>5. FreezeLifted(m, o, d) =>
         \/ LiftsPause(d[1], control.turn, control.pause)
         \/ FreezeLifted(m, o, q)
  BY <1>1 DEF FreezeLifted
<1> QED BY <1>3, <1>4, <1>5 DEF q

\* A frame that neither starts nor ends a turn.
LEMMA FollowsTail ==
    ASSUME NEW d \in Seq(Frames), d # <<>>, NEW ts, NEW flow,
           d[1].kind \notin {"start", "end"}, Follows(ts, flow, d)
    PROVE  Follows(ts, flow, Tail(d))
<1> DEFINE q == Tail(d)
<1>1. /\ \A i \in 1..Len(q) : i + 1 \in 1..Len(d) /\ q[i] = d[i + 1]
      /\ \A kind, t : Has(q, kind, t) => Has(d, kind, t)
      /\ \A kind : kind \in {"start", "end"} =>
            \A t : Has(d, kind, t) => Has(q, kind, t)
  BY HasTail
<1> HIDE DEF q
<1>2. \A t \in AiTurns : Known(t) => Begun(ts, t)
  BY DEF Follows
<1>3. \A i \in 1..Len(q) : q[i].kind = "audio" /\ Reported(q[i].turn) => shut
  BY <1>1 DEF Follows
<1>4. \A i \in 1..Len(q), t \in AiTurns :
          q[i].kind = "start" /\ Known(t) => t < q[i].turn
  BY <1>1 DEF Follows
<1>5. \A i \in 1..Len(q), t \in AiTurns :
          q[i].kind = "audio" /\ InLedger(t) => t <= q[i].turn
  BY <1>1 DEF Follows
<1>6. \A t \in AiTurns : ClosedIn(t) =>
          ts[t].done = "full" /\ ~Has(q, "audio", t) /\ ~Has(q, "end", t)
  BY <1>1 DEF Follows
<1>7. Reported(flow) /\ (\A u \in 1..Len(ts) : ts[u].begun => u <= flow) => shut
  BY DEF Follows
<1>8. \A t \in 1..Len(ts) : ts[t].begun => Known(t) \/ Has(q, "start", t)
  BY <1>1 DEF Follows
<1>9. \A t \in 1..Len(ts) : ts[t].begun /\ ts[t].done = "full" =>
          Reported(t) \/ ClosedIn(t) \/ Has(q, "end", t)
  BY <1>1 DEF Follows
<1>10. Follows(ts, flow, q)
  BY <1>2, <1>3, <1>4, <1>5, <1>6, <1>7, <1>8, <1>9 DEF Follows
<1> QED BY <1>10 DEF q

\* What comes in order still does.
LEMMA OrderTail ==
    ASSUME NEW d \in Seq(Frames), d # <<>>, NEW t \in Nat
    PROVE  /\ (\A i, j \in 1..Len(d) :
                  d[i].kind = "start" /\ d[i].turn = t /\ Chunk(d[j], t)
                  => i < j)
              => \A i, j \in 1..Len(Tail(d)) :
                    /\ Tail(d)[i].kind = "start" /\ Tail(d)[i].turn = t
                    /\ Chunk(Tail(d)[j], t)
                    => i < j
           /\ /\ ~(d[1].kind = "end" /\ d[1].turn = t)
              /\ \A i \in 1..Len(d) : d[i].kind = "audio" /\ d[i].turn > t =>
                    \E j \in 1..(i - 1) : d[j].kind = "end" /\ d[j].turn = t
              => \A i \in 1..Len(Tail(d)) :
                    Tail(d)[i].kind = "audio" /\ Tail(d)[i].turn > t =>
                       \E j \in 1..(i - 1) : Tail(d)[j].kind = "end"
                                             /\ Tail(d)[j].turn = t
<1> DEFINE q == Tail(d)
<1>1. /\ Len(d) \in Nat \ {0} /\ 1 \in 1..Len(d)
      /\ \A i \in 1..Len(q) : i + 1 \in 1..Len(d) /\ q[i] = d[i + 1] /\ 1 < i + 1
      /\ \A i \in 1..Len(d) : i # 1 => i - 1 \in 1..Len(q) /\ q[i - 1] = d[i]
      /\ Len(q) = Len(d) - 1
  BY HasTail
<1> HIDE DEF q
<1>2. ASSUME \A i, j \in 1..Len(d) :
                d[i].kind = "start" /\ d[i].turn = t /\ Chunk(d[j], t) => i < j,
             NEW i \in 1..Len(q), NEW j \in 1..Len(q),
             q[i].kind = "start", q[i].turn = t, Chunk(q[j], t)
      PROVE  i < j
  <2>1. i + 1 < j + 1
    BY <1>1, <1>2
  <2> QED BY <2>1, <1>1
<1>3. ASSUME ~(d[1].kind = "end" /\ d[1].turn = t),
             \A i \in 1..Len(d) : d[i].kind = "audio" /\ d[i].turn > t =>
                    \E j \in 1..(i - 1) : d[j].kind = "end" /\ d[j].turn = t,
             NEW i \in 1..Len(q), q[i].kind = "audio", q[i].turn > t
      PROVE  \E j \in 1..(i - 1) : q[j].kind = "end" /\ q[j].turn = t
  <2>1. i + 1 \in 1..Len(d) /\ d[i + 1] = q[i]
    BY <1>1
  <2>2. PICK j \in 1..((i + 1) - 1) : d[j].kind = "end" /\ d[j].turn = t
    BY <2>1, <1>3
  <2>3. j # 1
    BY <2>2, <1>3
  <2>4. j \in 1..Len(d) /\ j - 1 \in 1..(i - 1)
    BY <2>1, <2>2, <2>3, <1>1
  <2>5. q[j - 1] = d[j]
    BY <2>3, <2>4, <1>1
  <2> QED BY <2>2, <2>4, <2>5
<1>4. (\A i, j \in 1..Len(d) :
          d[i].kind = "start" /\ d[i].turn = t /\ Chunk(d[j], t) => i < j)
      => \A i, j \in 1..Len(q) :
            q[i].kind = "start" /\ q[i].turn = t /\ Chunk(q[j], t) => i < j
  BY <1>2
<1>5. /\ ~(d[1].kind = "end" /\ d[1].turn = t)
      /\ \A i \in 1..Len(d) : d[i].kind = "audio" /\ d[i].turn > t =>
            \E j \in 1..(i - 1) : d[j].kind = "end" /\ d[j].turn = t
      => \A i \in 1..Len(q) : q[i].kind = "audio" /\ q[i].turn > t =>
            \E j \in 1..(i - 1) : q[j].kind = "end" /\ q[j].turn = t
  BY <1>3
<1> QED BY <1>4, <1>5 DEF q

\* A frame of no turn.
LEMMA CountsTail ==
    ASSUME NEW d \in Seq(Frames), d # <<>>, NEW ts, NEW unsent,
           d[1].kind \in OtherKinds, CountsFit(ts, d, unsent)
    PROVE  CountsFit(ts, Tail(d), unsent)
<1> DEFINE q == Tail(d)
<1>1. /\ q \in Seq(Frames) /\ Head(d) = d[1]
      /\ d[1].kind \notin {"start", "audio", "end"}
      /\ \A t : Has(q, "start", t) <=> Has(d, "start", t)
  BY HasTail DEF OtherKinds
<1>2. ASSUME NEW t PROVE Count(q, t) = Count(d, t)
  <2>1. ~Chunk(Head(d), t) /\ Count(q, t) \in Nat
    BY <1>1, CountType DEF Chunk
  <2> QED BY <2>1, CountTail
<1>3. SUFFICES ASSUME NEW t \in 1..Len(ts), Good(ts, t)
               PROVE  CountFits(ts, q, unsent, t)
  BY DEF CountsFit
<1>4. CountFits(ts, d, unsent, t)
  BY <1>3 DEF CountsFit
<1>5. t \in Nat
  OBVIOUS
<1>6. \A i, j \in 1..Len(q) :
          q[i].kind = "start" /\ q[i].turn = t /\ Chunk(q[j], t) => i < j
  BY <1>4, <1>5, OrderTail DEF CountFits
<1>7. Has(d, "start", t) \/ OpenIn(t) =>
          \A i \in 1..Len(q) : q[i].kind = "audio" /\ q[i].turn > t =>
              \E j \in 1..(i - 1) : q[j].kind = "end" /\ q[j].turn = t
  BY <1>1, <1>4, <1>5, OrderTail DEF CountFits
<1> HIDE DEF q
<1> QED BY <1>1, <1>2, <1>4, <1>6, <1>7 DEF CountFits

-------------------------------------------------------------------------------
(* The player does not move                                                  *)

Still == UNCHANGED <<ring, written, ledger, shut, started, reported, heard>>

\* What is on its way means the same to it, ...
LEMMA StillFollows ==
    ASSUME Still, NEW ts, NEW flow, NEW d
    PROVE  Follows(ts, flow, d)' <=> Follows(ts, flow, d)
BY DEF Still, Follows, Known, Reported, InLedger, ClosedIn, Has, Begun

\* ... the counts are the same, ...
LEMMA StillCounts ==
    ASSUME Still, NEW ts, NEW d, NEW unsent
    PROVE  CountsFit(ts, d, unsent)' <=> CountsFit(ts, d, unsent)
<1>1. ASSUME NEW t
      PROVE  CountFits(ts, d, unsent, t)' <=> CountFits(ts, d, unsent, t)
  BY DEF Still, CountFits, Known, Reported, InLedger, OpenIn, Past
<1> QED BY <1>1 DEF Still, CountsFit

\* ... its own invariant holds under another control, ...
LEMMA StillPlayer ==
    ASSUME Still, PlayerFits,
           control' \in [turn : AiTurns \cup {Nil}, pause : Nat, last : Nat]
    PROVE  PlayerFits'
<1>1. ClientTypeOK'
  BY DEF Still, PlayerFits, ClientTypeOK, Segments
<1> QED BY <1>1 DEF Still, PlayerFits, Reported, Past

\* ... and so does what lifts its pause, when the control stays too.
LEMMA StillFreeze ==
    ASSUME UNCHANGED clientVars, NEW m, NEW o, NEW d
    PROVE  FreezeLifted(m, o, d)' <=> FreezeLifted(m, o, d)
BY DEF clientVars, FreezeLifted, Frozen

\* The server moves to r, and the player does not.
LEMMA ServerMoves ==
    ASSUME NEW r, Becomes(r), UNCHANGED clientVars, PlayerFits, Safe(r)
    PROVE  LoopInv'
<1>1. r \in Servers /\ r = [e |-> r.e, m |-> r.m, o |-> r.o, d |-> r.d]
  BY Zenon DEF Safe, Fits, Servers
<1>2. Server' = r
  BY <1>1 DEF Becomes, Server
<1>3. Still /\ control' = control
  BY DEF Still, clientVars
<1>4. PlayerFits'
  BY <1>3, StillPlayer DEF PlayerFits, ClientTypeOK
<1>5. Fits(r, 0)'
  <2>1. Follows(r.e.turns, r.m.flow, r.d)'
    BY <1>3, StillFollows DEF Safe, Fits
  <2>2. CountsFit(r.e.turns, r.d, r.e.kept + 0)'
    BY <1>3, StillCounts DEF Safe, Fits
  <2> QED BY <2>1, <2>2 DEF Safe, Fits
<1>6. PauseInv(r)'
  <2>1. FreezeLifted(r.m, r.o, r.d)'
    BY StillFreeze DEF Safe, PauseInv
  <2> QED BY <2>1 DEF Safe, PauseInv
<1> QED BY <1>2, <1>4, <1>5, <1>6 DEF LoopInv

-------------------------------------------------------------------------------
(* The player throws everything away                                         *)

\* Everything is thrown away: what was open is aborted, and chunks of it on
\* their way are refused.
LEMMA FlushStep ==
    ASSUME PlayerFits, Flush,
           NEW ts \in Seq(TurnStates), NEW flow, NEW d, NEW unsent,
           Follows(ts, flow, d), CountsFit(ts, d, unsent)
    PROVE  /\ PlayerFits' /\ ~Frozen'
           /\ Follows(ts, flow, d)' /\ CountsFit(ts, d, unsent)'
<1>1. /\ ledger' = {} /\ ring' = <<>> /\ shut' = (shut \/ ledger # {})
      /\ control' = NoControl /\ started' = FALSE
      /\ written' = written /\ heard' = heard
  BY DEF Flush
<1>2. reported' = [t \in AiTurns |->
                    IF reported[t] # "no" \/ ~(\E s \in ledger : s.turn = t)
                    THEN reported[t] ELSE "aborted"]
  BY DEF Flush, Report
<1>3. ClientTypeOK
  BY DEF PlayerFits
<1>4. /\ \A t : Reported(t)' <=> t \in AiTurns /\ Known(t)
      /\ \A t : ~InLedger(t)' /\ ~ClosedIn(t)' /\ ~OpenIn(t)'
      /\ \A t \in AiTurns : Known(t)' <=> Known(t)
      /\ \A t \in AiTurns : reported'[t] = "played" => reported[t] = "played"
      /\ \A t : Known(t) => Reported(t) \/ shut'
  BY <1>1, <1>2 DEF Reported, Known, InLedger, ClosedIn, OpenIn
<1>5. ClientTypeOK'
  <2>1. /\ control' \in [turn : AiTurns \cup {Nil}, pause : Nat, last : Nat]
        /\ ring' \in Seq(AiTurns) /\ Len(ring') <= Capacity
        /\ written' \in Nat /\ ledger' \subseteq Segments
        /\ shut' \in BOOLEAN /\ started' \in BOOLEAN /\ heard' \in [AiTurns -> Nat]
    <3>1. NoControl \in [turn : AiTurns \cup {Nil}, pause : Nat, last : Nat]
      BY DEF NoControl, Nil
    <3>2. <<>> \in Seq(AiTurns) /\ Len(<<>>) = 0 /\ 0 <= Capacity
      BY PlayerBounds
    <3>3. /\ written \in Nat /\ heard \in [AiTurns -> Nat] /\ shut \in BOOLEAN
      BY <1>3 DEF ClientTypeOK
    <3> QED BY <1>1, <3>1, <3>2, <3>3
  <2>2. reported' \in [AiTurns -> {"no", "played", "aborted"}]
    BY <1>2, <1>3 DEF ClientTypeOK
  <2> QED BY <2>1, <2>2 DEF ClientTypeOK
<1>6. PlayerFits'
  <2>1. Len(ring') = 0 /\ written' \in Nat
    BY <1>1, <1>5 DEF ClientTypeOK
  <2> QED BY <1>1, <1>5, <2>1 DEF PlayerFits
<1>7. Follows(ts, flow, d)'
  <2>1. \A t \in AiTurns : Known(t)' => Begun(ts, t)
    BY <1>4 DEF Follows
  <2>2. \A i \in 1..Len(d) :
          d[i].kind = "audio" /\ Reported(d[i].turn)' => shut'
    BY <1>1, <1>4 DEF Follows
  <2>3. Reported(flow)' /\ (\A u \in 1..Len(ts) : ts[u].begun => u <= flow)
          => shut'
    BY <1>1, <1>4 DEF Follows
  <2>4. \A i \in 1..Len(d), t \in AiTurns :
          d[i].kind = "start" /\ Known(t)' => t < d[i].turn
    BY <1>4 DEF Follows
  <2>5. \A t \in AiTurns : ~ClosedIn(t)' /\ ~InLedger(t)'
    BY <1>4
  <2>6. \A t \in 1..Len(ts) : ts[t].begun => Known(t)' \/ Has(d, "start", t)
    <3> SUFFICES ASSUME NEW t \in 1..Len(ts), ts[t].begun, Known(t)
                 PROVE  Known(t)'
      BY DEF Follows
    <3>1. t \in AiTurns
      BY <1>3 DEF Known, Reported, InLedger, ClientTypeOK, Segments
    <3> QED BY <3>1, <1>4
  <2>7. \A t \in 1..Len(ts) : ts[t].begun /\ ts[t].done = "full" =>
          Reported(t)' \/ ClosedIn(t)' \/ Has(d, "end", t)
    <3> SUFFICES ASSUME NEW t \in 1..Len(ts), Reported(t) \/ ClosedIn(t)
                 PROVE  Reported(t)'
      BY DEF Follows
    <3>1. t \in AiTurns /\ Known(t)
      BY <1>3 DEF Known, Reported, InLedger, ClosedIn, ClientTypeOK, Segments
    <3> QED BY <3>1, <1>4
  <2> QED BY <2>1, <2>2, <2>3, <2>4, <2>5, <2>6, <2>7 DEF Follows, Has
<1>8. CountsFit(ts, d, unsent)'
  <2>1. ASSUME NEW t \in 1..Len(ts), Good(ts, t)
        PROVE  CountFits(ts, d, unsent, t)'
    <3>1. CountFits(ts, d, unsent, t)
      BY <2>1 DEF CountsFit
    <3>2. Known(t) => Known(t)'
      BY <1>3, <1>4 DEF Known, Reported, InLedger, ClientTypeOK, Segments
    <3> QED BY <1>1, <1>4, <3>1, <3>2 DEF CountFits
  <2>2. \A t \in AiTurns : t > Len(ts) =>
          heard'[t] = 0 /\ \A i \in 1..Len(ring') : ring'[i] # t
    BY <1>1 DEF CountsFit
  <2>3. \A t \in AiTurns : reported'[t] = "played" =>
          /\ t \in 1..Len(ts) /\ ts[t].done = "full"
          /\ Clean(ts, t) => heard'[t] = ts[t].made
    BY <1>1, <1>4 DEF CountsFit
  <2> QED BY <2>1, <2>2, <2>3 DEF CountsFit
<1> QED BY <1>1, <1>6, <1>7, <1>8 DEF Frozen, NoControl

-------------------------------------------------------------------------------
(* A turn starts at the player                                               *)

\* ai_audio_start opens the segment of a turn the player did not know.
LEMMA StartStep ==
    ASSUME PlayerFits, NEW ts \in Seq(TurnStates), Len(ts) <= MaxTurns,
           NEW flow, NEW d \in Seq(Frames), d # <<>>, NEW unsent,
           d[1].kind = "start", AudioStart(d[1].turn),
           WireFits(ts, d), Follows(ts, flow, d), CountsFit(ts, d, unsent)
    PROVE  /\ PlayerFits'
           /\ Follows(ts, flow, Tail(d))' /\ CountsFit(ts, Tail(d), unsent)'
<1> DEFINE q == Tail(d)
           t == d[1].turn
           g == Segment(t)
<1>1. /\ q \in Seq(Frames) /\ 1 \in 1..Len(d)
      /\ \A i \in 1..Len(q) : i + 1 \in 1..Len(d) /\ q[i] = d[i + 1]
      /\ \A kind, u : Has(d, kind, u) <=>
            Has(q, kind, u) \/ (kind = "start" /\ u = t)
  BY HasTail
<1>2. /\ t \in 1..Len(ts) /\ ts[t].begun /\ Begun(ts, t)
      /\ t \in AiTurns /\ t \in Nat
  BY <1>1, PlayerBounds DEF WireFits, TurnKinds, Begun, AiTurns
<1>3. ~Known(t)
  BY <1>1, <1>2 DEF Follows
<1>4. \A i \in 1..Len(q) :
          /\ q[i].kind = "start" => t < q[i].turn
          /\ q[i].kind \in {"audio", "end"} => t <= q[i].turn
  BY WireTail
<1>5. /\ control' = IF t > control.turn
                    THEN [NoControl EXCEPT !.turn = t] ELSE control
      /\ shut' = FALSE /\ ring' = ring /\ written' = written
      /\ started' = started /\ reported' = reported /\ heard' = heard
  BY DEF AudioStart
<1>6. ledger' = ledger \cup {g}
  BY <1>3 DEF AudioStart, Known, InLedger
<1>7. /\ g.turn = t /\ g.first = written /\ g.end = Open /\ g.tainted = FALSE
      /\ g \in Segments
  <2>1. written \in Nat
    BY DEF PlayerFits, ClientTypeOK
  <2> QED BY <1>2, <2>1 DEF Segment, Segments
<1>8. /\ ClientTypeOK /\ written \in Nat /\ ledger \subseteq Segments
      /\ Len(ring) \in Nat
  BY DEF PlayerFits, ClientTypeOK
<1> HIDE DEF q, t, g
<1>10. /\ \A u : Reported(u)' <=> Reported(u)
       /\ \A u : InLedger(u)' <=> InLedger(u) \/ u = t
       /\ \A u : ClosedIn(u)' <=> ClosedIn(u)
       /\ \A u : OpenIn(u)' <=> OpenIn(u) \/ u = t
       /\ \A u : Known(u)' <=> Known(u) \/ u = t
  BY <1>5, <1>6, <1>7 DEF Reported, InLedger, ClosedIn, OpenIn, Known
<1>11. Past' = Past /\ Past \in Int
  BY <1>5, <1>8 DEF Past
<1>12. ClientTypeOK'
  <2>1. control' \in [turn : AiTurns \cup {Nil}, pause : Nat, last : Nat]
    <3>1. [NoControl EXCEPT !.turn = t]
             \in [turn : AiTurns \cup {Nil}, pause : Nat, last : Nat]
      BY <1>2 DEF NoControl, Nil
    <3>2. control \in [turn : AiTurns \cup {Nil}, pause : Nat, last : Nat]
      BY <1>8 DEF ClientTypeOK
    <3> QED BY <3>1, <3>2, <1>5
  <2>2. ledger' \subseteq Segments
    BY <1>6, <1>7, <1>8
  <2> QED BY <2>1, <2>2, <1>5, <1>8 DEF ClientTypeOK
<1>13. PlayerFits'
  <2>1. ~Reported(t) /\ \A h \in ledger : h.turn # t
    BY <1>3 DEF Known, InLedger
  <2>2. \A h \in ledger' : h \in ledger \/ h = g
    BY <1>6
  <2>3. /\ Len(ring') <= written'
        /\ \A i \in 1..Len(ring') : ~Reported(ring[i])'
    <3>1. \A i \in 1..Len(ring) : ~Reported(ring[i])
      BY DEF PlayerFits
    <3> QED BY <3>1, <1>5 DEF PlayerFits, Reported
  <2>4. \A h \in ledger' : ~Reported(h.turn)'
    BY <2>1, <2>2, <1>7, <1>10 DEF PlayerFits
  <2>5. \A h, k \in ledger' : h.turn = k.turn => h = k
    BY <2>1, <2>2, <1>7 DEF PlayerFits
  <2>6. \A h \in ledger' : h.first <= written'
    BY <2>2, <1>5, <1>7, <1>8 DEF PlayerFits
  <2>7. \A h \in ledger' : h.end # Open =>
          /\ h.first <= h.end /\ h.end <= written'
          /\ Past' < h.end
          /\ \A i \in 1..Len(ring') : ring'[i] = h.turn => Past' + i <= h.end
    BY <2>2, <1>5, <1>7, <1>11 DEF PlayerFits
  <2>8. ~started' => \A h \in ledger' :
          \/ Len(ring') >= Preroll
          \/ h.end = Open /\ written' - h.first <= Len(ring')
    BY <2>2, <1>5, <1>7, <1>8 DEF PlayerFits
  <2> QED BY <2>3, <2>4, <2>5, <2>6, <2>7, <2>8, <1>5, <1>12 DEF PlayerFits
<1>14. Follows(ts, flow, q)'
  <2>1. \A u \in AiTurns : Known(u) => u < t
    BY <1>1 DEF Follows, t
  <2>2. \A u \in AiTurns : Known(u)' => Begun(ts, u)
    BY <1>2, <1>10 DEF Follows
  <2>3. \A i \in 1..Len(q) : ~(q[i].kind = "audio" /\ Reported(q[i].turn)')
    <3> SUFFICES ASSUME NEW i \in 1..Len(q), q[i].kind = "audio",
                        Reported(q[i].turn)
                 PROVE  FALSE
      BY <1>10
    <3>1. t <= q[i].turn /\ q[i].turn \in AiTurns /\ Known(q[i].turn)
      BY <1>4 DEF Reported, Known
    <3>2. q[i].turn < t
      BY <2>1, <3>1
    <3> QED BY <3>1, <3>2, <1>2 DEF AiTurns
  <2>4. ~(Reported(flow)' /\ \A u \in 1..Len(ts) : ts[u].begun => u <= flow)
    <3> SUFFICES ASSUME Reported(flow),
                        \A u \in 1..Len(ts) : ts[u].begun => u <= flow
                 PROVE  FALSE
      BY <1>10
    <3>1. flow \in AiTurns /\ Known(flow) /\ t <= flow
      BY <1>2 DEF Reported, Known
    <3>2. flow < t
      BY <2>1, <3>1
    <3> QED BY <3>1, <3>2, <1>2 DEF AiTurns
  <2>5. \A i \in 1..Len(q), u \in AiTurns :
          q[i].kind = "start" /\ Known(u)' => u < q[i].turn
    BY <1>1, <1>4, <1>10 DEF Follows
  <2>6. \A u \in AiTurns : ClosedIn(u)' =>
          ts[u].done = "full" /\ ~Has(q, "audio", u) /\ ~Has(q, "end", u)
    BY <1>1, <1>10 DEF Follows
  <2>7. \A i \in 1..Len(q), u \in AiTurns :
          q[i].kind = "audio" /\ InLedger(u)' => u <= q[i].turn
    BY <1>1, <1>4, <1>10 DEF Follows
  <2>8. \A u \in 1..Len(ts) : ts[u].begun => Known(u)' \/ Has(q, "start", u)
    BY <1>1, <1>10 DEF Follows
  <2>9. \A u \in 1..Len(ts) : ts[u].begun /\ ts[u].done = "full" =>
          Reported(u)' \/ ClosedIn(u)' \/ Has(q, "end", u)
    BY <1>1, <1>10 DEF Follows
  <2> QED BY <2>2, <2>3, <2>4, <2>5, <2>6, <2>7, <2>8, <2>9 DEF Follows, Has
<1>15. CountsFit(ts, q, unsent)'
  <2>1. ASSUME NEW u PROVE Count(q, u) = Count(d, u)
    <3>1. ~Chunk(Head(d), u) /\ Count(q, u) \in Nat
      BY <1>1, HasTail, CountType DEF Chunk
    <3> QED BY <3>1, CountTail DEF q
  <2>2. ASSUME NEW u \in 1..Len(ts), Good(ts, u)
        PROVE  CountFits(ts, q, unsent, u)'
    <3>1. CountFits(ts, d, unsent, u) /\ u \in Nat
      BY <2>2 DEF CountsFit
    <3>2. \A i, j \in 1..Len(q) :
            q[i].kind = "start" /\ q[i].turn = u /\ Chunk(q[j], u) => i < j
      BY <3>1, OrderTail DEF CountFits, q
    <3>3. Has(q, "start", u) \/ OpenIn(u)' =>
            \A i \in 1..Len(q) : q[i].kind = "audio" /\ q[i].turn > u =>
              \E j \in 1..(i - 1) : q[j].kind = "end" /\ q[j].turn = u
      BY <3>1, <1>1, <1>10, OrderTail DEF CountFits, q
    <3>4. CASE u = t
      <4>1. ~Has(q, "start", u)
        BY <3>4, <1>2, <1>4 DEF Has
      <4>2. Count(q, u) = Sent(ts, unsent, u) /\ Has(d, "start", u)
        BY <3>1, <3>4, <1>1, <2>1 DEF CountFits
      <4>3. heard[u] = 0 /\ \A i \in 1..Len(ring) : ring[i] # u
        BY <3>1, <3>4, <1>3 DEF CountFits
      <4>4. \A h \in ledger' : h.turn = u => h = g
        BY <3>4, <1>3, <1>6 DEF Known, InLedger
      <4>5. \A i \in 1..Len(ring) : ~(written < Past + i)
        BY <1>8 DEF Past
      <4>6. Count(q, u) \in Nat
        BY <1>1, CountType
      <4>7. g.end = Open /\ written' - g.first + Count(q, u) = Sent(ts, unsent, u)
        BY <4>2, <4>6, <1>5, <1>7, <1>8
      <4>8. /\ \A i \in 1..Len(ring') :
                  ring'[i] = u <=> /\ g.first < Past' + i
                                   /\ g.end # Open => Past' + i <= g.end
            /\ heard'[u] = IF g.first <= Past' THEN Past' - g.first ELSE 0
        <5>1. written <= Past => Past - written = 0
          BY <1>8 DEF Past
        <5> QED BY <5>1, <4>3, <4>5, <1>5, <1>7, <1>11
      <4>9. ts[u].begun /\ Known(u)'
        BY <3>4, <1>2, <1>10
      <4> QED BY <4>1, <4>4, <4>7, <4>8, <4>9, <3>2, <3>3 DEF CountFits, Has
    <3>5. CASE u # t
      <4>1. \A h \in ledger' : h.turn = u => h \in ledger
        BY <3>5, <1>6, <1>7
      <4>2. Has(q, "start", u) <=> Has(d, "start", u)
        BY <3>5, <1>1
      <4>3. Known(u)' <=> Known(u)
        BY <3>5, <1>10
      <4>4. Count(q, u) = Count(d, u)
        BY <2>1
      <4> QED BY <4>1, <4>2, <4>3, <4>4, <3>1, <3>2, <3>3, <1>5, <1>11
              DEF CountFits, Has
    <3> QED BY <3>4, <3>5
  <2>3. \A u \in AiTurns : reported'[u] = "played" =>
          /\ u \in 1..Len(ts) /\ ts[u].done = "full"
          /\ Clean(ts, u) => heard'[u] = ts[u].made
    BY <1>5 DEF CountsFit
  <2>4. \A u \in AiTurns : u > Len(ts) =>
          heard'[u] = 0 /\ \A i \in 1..Len(ring') : ring'[i] # u
    BY <1>5 DEF CountsFit
  <2> QED BY <2>2, <2>3, <2>4 DEF CountsFit
<1> QED BY <1>13, <1>14, <1>15 DEF q

-------------------------------------------------------------------------------
(* Segments are complete                                                     *)

\* What CheckCompletions does: each turn of a complete segment is reported as
\* what the segment is, the other segments stay.
LEMMA Completions ==
    ASSUME ClientTypeOK, NEW segs, NEW at, segs \subseteq Segments,
           \A s, x \in segs : s.turn = x.turn => s = x,
           \A s \in segs : reported[s.turn] = "no",
           CheckCompletions(segs, at)
    PROVE  /\ reported' \in [AiTurns -> {"no", "played", "aborted"}]
           /\ ledger' = {s \in segs : ~IsOver(s, at)}
           /\ \A s \in segs : IsOver(s, at) => reported'[s.turn] = Outcome(s)
           /\ \A t \in AiTurns :
                 \/ reported'[t] = reported[t]
                 \/ \E s \in segs : s.turn = t /\ IsOver(s, at)
<1> DEFINE over == {s \in segs : IsOver(s, at)}
<1>1. reported' = [t \in AiTurns |->
                    IF reported[t] # "no" \/ ~(\E s \in over : s.turn = t)
                    THEN reported[t] ELSE Outcome(CHOOSE s \in over : s.turn = t)]
      /\ ledger' = segs \ over
  BY DEF CheckCompletions, Report
<1>2. \A s \in over : /\ s \in segs /\ IsOver(s, at) /\ s.turn \in AiTurns
                      /\ (CHOOSE x \in over : x.turn = s.turn) = s
  <2> SUFFICES ASSUME NEW s \in over
               PROVE  /\ s.turn \in AiTurns
                      /\ (CHOOSE x \in over : x.turn = s.turn) = s
    OBVIOUS
  <2>1. (CHOOSE x \in over : x.turn = s.turn) \in over
        /\ (CHOOSE x \in over : x.turn = s.turn).turn = s.turn
    OBVIOUS
  <2> QED BY <2>1 DEF Segments
<1>3. ledger' = {s \in segs : ~IsOver(s, at)}
  BY <1>1
<1> HIDE DEF over
<1>4. \A s \in over : reported'[s.turn] = Outcome(s)
  <2> SUFFICES ASSUME NEW s \in over PROVE reported'[s.turn] = Outcome(s)
    OBVIOUS
  <2>1. reported[s.turn] = "no" /\ s.turn \in AiTurns
        /\ (CHOOSE x \in over : x.turn = s.turn) = s
    BY <1>2
  <2> QED BY <2>1, <1>1
<1>5. \A t \in AiTurns : reported'[t] = reported[t] \/ \E s \in over : s.turn = t
  BY <1>1
<1>6. reported' \in [AiTurns -> {"no", "played", "aborted"}]
  <2>1. \A s : Outcome(s) \in {"no", "played", "aborted"}
    BY DEF Outcome
  <2>2. reported \in [AiTurns -> {"no", "played", "aborted"}]
    BY DEF ClientTypeOK
  <2>3. \A t \in AiTurns : reported'[t] \in {"no", "played", "aborted"}
    BY <1>2, <1>4, <1>5, <2>1, <2>2
  <2> QED BY <1>1, <2>3
<1>7. \A s \in segs : IsOver(s, at) => s \in over
  BY DEF over
<1> QED BY <1>2, <1>3, <1>4, <1>5, <1>6, <1>7

-------------------------------------------------------------------------------
(* The end of a turn reaches the player                                      *)

\* A segment that is closed.
LEMMA ClosedSegment ==
    ASSUME NEW g \in Segments, written \in Nat
    PROVE  /\ Closed(g) \in Segments
           /\ Closed(g).turn = g.turn /\ Closed(g).first = g.first
           /\ Closed(g).end = written /\ Closed(g).tainted = g.tainted
           /\ Closed(g).rendered = g.rendered
<1>1. Closed(g).turn = g.turn /\ Closed(g).first = g.first
      /\ Closed(g).end = written /\ Closed(g).tainted = g.tainted
      /\ Closed(g).rendered = g.rendered
  BY DEF Closed, Segments
<1>2. Closed(g) \in Segments
  BY DEF Closed, Segments
<1> QED BY <1>1, <1>2

\* What becomes of the segments.
LEMMA EndEffect ==
    ASSUME PlayerFits, NEW t \in AiTurns, AudioEnd(t), ~ClosedIn(t)
    PROVE  /\ ClientTypeOK'
           /\ UNCHANGED <<ring, written, shut, heard>>
           /\ Past \in Int /\ Past <= written
           /\ \A g \in ledger : g.turn = t =>
                 /\ g.end = Open
                 /\ Past < written => Closed(g) \in ledger'
                 /\ ~(Past < written) => reported'[t] = Outcome(g)
           /\ \A g \in ledger : g.turn # t => g \in ledger'
           /\ \A h \in ledger' :
                 \/ h \in ledger /\ h.turn # t
                 \/ Past < written /\ \E g \in ledger : g.turn = t /\ h = Closed(g)
           /\ \A u \in AiTurns :
                 \/ reported'[u] = reported[u]
                 \/ u = t /\ InLedger(t) /\ ~(Past < written)
<1>1. /\ control' = IF t = control.turn THEN NoControl ELSE control
      /\ CheckCompletions({IF s.turn = t THEN Closed(s) ELSE s : s \in ledger},
                        Position(ring, written))
      /\ started' = (started \/ \E s \in ledger : s.turn = t /\ IsShort(s))
      /\ UNCHANGED <<ring, written, shut, heard>>
  BY DEF AudioEnd
<1>2. PICK segs : segs = {IF s.turn = t THEN Closed(s) ELSE s : s \in ledger}
  OBVIOUS
<1>3. PICK at : at = Past
  OBVIOUS
<1>4. CheckCompletions(segs, at)
  BY <1>1, <1>2, <1>3 DEF Position, Past
<1>5. /\ ClientTypeOK /\ ledger \subseteq Segments /\ written \in Nat
      /\ Len(ring) \in Nat /\ Past \in Int /\ Past <= written
  BY DEF PlayerFits, ClientTypeOK, Past
<1>6. \A g \in ledger : /\ Closed(g) \in Segments /\ g \in Segments
                        /\ Closed(g).turn = g.turn /\ Closed(g).end = written
                        /\ Closed(g).tainted = g.tainted
                        /\ Closed(g).rendered = g.rendered
  BY <1>5, ClosedSegment
<1>7. \A g \in ledger : g.turn = t => g.end = Open
  BY DEF ClosedIn
<1>8. /\ \A g \in ledger : g.turn # t => g \in segs
      /\ \A g \in ledger : g.turn = t => Closed(g) \in segs
      /\ \A s \in segs : \/ s \in ledger /\ s.turn # t
                         \/ \E g \in ledger : g.turn = t /\ s = Closed(g)
  BY <1>2
<1>9. /\ segs \subseteq Segments
      /\ \A s \in segs : reported[s.turn] = "no"
  <2>1. \A g \in ledger : reported[g.turn] = "no"
    BY <1>5 DEF PlayerFits, Reported, Segments
  <2> QED BY <2>1, <1>6, <1>8
<1>10. \A s, x \in segs : s.turn = x.turn => s = x
  <2>1. \A g, h \in ledger : g.turn = h.turn => g = h
    BY DEF PlayerFits
  <2> QED BY <2>1, <1>6, <1>8
<1>11. /\ reported' \in [AiTurns -> {"no", "played", "aborted"}]
       /\ ledger' = {s \in segs : ~IsOver(s, at)}
       /\ \A s \in segs : IsOver(s, at) => reported'[s.turn] = Outcome(s)
       /\ \A u \in AiTurns :
             \/ reported'[u] = reported[u]
             \/ \E s \in segs : s.turn = u /\ IsOver(s, at)
  BY <1>4, <1>5, <1>9, <1>10, Completions
<1>12. \A g \in ledger : ~IsOver(g, at)
  <2>1. \A g \in ledger : g.end # Open => Past < g.end /\ g.end \in Int
    BY <1>5 DEF PlayerFits, Segments, Open
  <2> QED BY <2>1, <1>3, <1>5 DEF IsOver
<1>13. \A g \in ledger : IsOver(Closed(g), at) <=> ~(Past < written)
  BY <1>3, <1>5, <1>6 DEF IsOver, Open
<1>14. \A g \in ledger : Outcome(Closed(g)) = Outcome(g)
  BY <1>6 DEF Outcome
<1>15. ClientTypeOK'
  <2>1. control' \in [turn : AiTurns \cup {Nil}, pause : Nat, last : Nat]
    <3>1. NoControl \in [turn : AiTurns \cup {Nil}, pause : Nat, last : Nat]
      BY DEF NoControl, Nil
    <3> QED BY <3>1, <1>1, <1>5 DEF ClientTypeOK
  <2>2. ledger' \subseteq Segments
    BY <1>9, <1>11
  <2>3. started' \in BOOLEAN
    BY <1>1
  <2> QED BY <2>1, <2>2, <2>3, <1>1, <1>5, <1>11 DEF ClientTypeOK
<1>16. \A g \in ledger : g.turn = t =>
                 /\ g.end = Open
                 /\ Past < written => Closed(g) \in ledger'
                 /\ ~(Past < written) => reported'[t] = Outcome(g)
  BY <1>6, <1>7, <1>8, <1>11, <1>13, <1>14
<1>17. \A g \in ledger : g.turn # t => g \in ledger'
  BY <1>8, <1>11, <1>12
<1>18. \A h \in ledger' :
          \/ h \in ledger /\ h.turn # t
          \/ Past < written /\ \E g \in ledger : g.turn = t /\ h = Closed(g)
  BY <1>8, <1>11, <1>13
<1>19. \A u \in AiTurns :
          \/ reported'[u] = reported[u]
          \/ u = t /\ InLedger(t) /\ ~(Past < written)
  BY <1>6, <1>8, <1>11, <1>12, <1>13 DEF InLedger
<1> QED BY <1>1, <1>5, <1>15, <1>16, <1>17, <1>18, <1>19

\* ai_audio_end closes the segment; it is acknowledged now or when the ring
\* has passed it.
LEMMA StopStep ==
    ASSUME PlayerFits, NEW ts \in Seq(TurnStates), Len(ts) <= MaxTurns,
           NEW flow, NEW d \in Seq(Frames), d # <<>>, NEW unsent,
           d[1].kind = "end", AudioEnd(d[1].turn),
           WireFits(ts, d), Follows(ts, flow, d), CountsFit(ts, d, unsent),
           flow = Nil \/ ts[flow].done = "no",
           \A t \in 1..Len(ts) : ts[t].done = "full" => ~ts[t].failed,
           Len(ts) > 0 /\ ts[Len(ts)].done = "full" => unsent = 0
    PROVE  /\ PlayerFits'
           /\ Follows(ts, flow, Tail(d))' /\ CountsFit(ts, Tail(d), unsent)'
<1> DEFINE q == Tail(d)
           t == d[1].turn
<1>1. /\ q \in Seq(Frames) /\ 1 \in 1..Len(d) /\ Head(d) = d[1]
      /\ \A i \in 1..Len(q) : i + 1 \in 1..Len(d) /\ q[i] = d[i + 1]
      /\ \A i \in 1..Len(d) : i # 1 => i - 1 \in 1..Len(q) /\ q[i - 1] = d[i]
      /\ \A kind, u : Has(d, kind, u) <=>
            Has(q, kind, u) \/ (kind = "end" /\ u = t)
  BY HasTail
<1>2. /\ t \in 1..Len(ts) /\ ts[t].begun /\ Begun(ts, t)
      /\ t \in AiTurns /\ t \in Nat /\ ts[t].done = "full"
  BY <1>1, PlayerBounds DEF WireFits, TurnKinds, Begun, AiTurns
<1>3. \A i \in 1..Len(q) : q[i].kind \in TurnKinds => t # q[i].turn
  BY WireTail
<1>4. ~Has(q, "start", t) /\ ~Has(q, "audio", t) /\ ~Has(q, "end", t)
  BY <1>3 DEF Has, TurnKinds
<1>5. Known(t) /\ ~ClosedIn(t)
  BY <1>1, <1>2, <1>4 DEF Follows
<1>6. AudioEnd(t)
  OBVIOUS
<1> HIDE DEF q, t
<1>7. /\ ClientTypeOK'
      /\ ring' = ring /\ written' = written /\ shut' = shut /\ heard' = heard
      /\ Past \in Int /\ Past <= written
      /\ \A g \in ledger : g.turn = t =>
            /\ g.end = Open
            /\ Past < written => Closed(g) \in ledger'
            /\ ~(Past < written) => reported'[t] = Outcome(g)
      /\ \A g \in ledger : g.turn # t => g \in ledger'
      /\ \A h \in ledger' :
            \/ h \in ledger /\ h.turn # t
            \/ Past < written /\ \E g \in ledger : g.turn = t /\ h = Closed(g)
      /\ \A u \in AiTurns :
            \/ reported'[u] = reported[u]
            \/ u = t /\ InLedger(t) /\ ~(Past < written)
  BY <1>2, <1>5, <1>6, EndEffect
<1>8. /\ ClientTypeOK /\ written \in Nat /\ ledger \subseteq Segments
      /\ Len(ring) \in Nat /\ ring \in Seq(AiTurns)
      /\ Past' = Past /\ Past = written - Len(ring)
  BY <1>7 DEF PlayerFits, ClientTypeOK, Past
<1>9. \A g \in ledger : /\ g \in Segments
                        /\ Closed(g).turn = g.turn /\ Closed(g).end = written
                        /\ Closed(g).first = g.first
                        /\ Closed(g).tainted = g.tainted
  BY <1>8, ClosedSegment
<1>10. Open = -1 /\ written # Open
  BY <1>8 DEF Open
<1>11. \A s : Outcome(s) # "no" /\ (Outcome(s) = "played" => ~s.tainted)
  BY DEF Outcome
<1>12. /\ \A u : Reported(u)' <=>
             Reported(u) \/ (u = t /\ InLedger(t) /\ ~(Past < written))
       /\ \A u : InLedger(u)' <=> InLedger(u) /\ (u # t \/ Past < written)
       /\ \A u : ClosedIn(u)' <=> \/ ClosedIn(u) /\ u # t
                                  \/ u = t /\ InLedger(t) /\ Past < written
       /\ \A u : OpenIn(u)' <=> OpenIn(u) /\ u # t
  <2>1. ASSUME NEW u
        PROVE  Reported(u)' <=>
                  Reported(u) \/ (u = t /\ InLedger(t) /\ ~(Past < written))
    <3>1. ASSUME InLedger(t), ~(Past < written) PROVE reported'[t] # "no"
      BY <3>1, <1>7, <1>11 DEF InLedger
    <3>2. InLedger(t) => reported[t] = "no"
      BY <1>2 DEF PlayerFits, InLedger, Reported
    <3> QED BY <3>1, <3>2, <1>2, <1>7 DEF Reported
  <2>2. ASSUME NEW u
        PROVE  InLedger(u)' <=> InLedger(u) /\ (u # t \/ Past < written)
    BY <1>7, <1>9 DEF InLedger
  <2>3. ASSUME NEW u
        PROVE  ClosedIn(u)' <=> \/ ClosedIn(u) /\ u # t
                                \/ u = t /\ InLedger(t) /\ Past < written
    BY <1>7, <1>9, <1>10 DEF InLedger, ClosedIn
  <2>4. ASSUME NEW u PROVE OpenIn(u)' <=> OpenIn(u) /\ u # t
    BY <1>7, <1>9, <1>10 DEF OpenIn
  <2> QED BY <2>1, <2>2, <2>3, <2>4
<1>13. \A u : Known(u)' <=> Known(u)
  BY <1>12 DEF Known
<1>14. PlayerFits'
  <2>1. Len(ring') <= written'
    BY <1>7 DEF PlayerFits
  <2>2. \A i \in 1..Len(ring') : ~Reported(ring[i])'
    <3> SUFFICES ASSUME NEW i \in 1..Len(ring) PROVE ~Reported(ring[i])'
      BY <1>7
    <3>1. PICK u : u = ring[i]
      OBVIOUS
    <3>2. Past < written /\ ~Reported(u)
      BY <3>1, <1>8 DEF PlayerFits
    <3>3. ~Reported(u)'
      BY <3>2, <1>12
    <3> QED BY <3>1, <3>3, <1>7 DEF Reported
  <2>3. \A g \in ledger' : ~Reported(g.turn)'
    <3> SUFFICES ASSUME NEW g \in ledger' PROVE ~Reported(g.turn)'
      OBVIOUS
    <3>1. ~Reported(g.turn) /\ (g.turn # t \/ Past < written)
      BY <1>7, <1>9 DEF PlayerFits
    <3> QED BY <3>1, <1>12
  <2>4. \A g, h \in ledger' : g.turn = h.turn => g = h
    BY <1>7, <1>9 DEF PlayerFits
  <2>5. ledger' # {} => ~shut'
    BY <1>7 DEF PlayerFits
  <2>6. \A g \in ledger' : g.first <= written'
    BY <1>7, <1>9 DEF PlayerFits
  <2>7. \A h \in ledger' : h.end # Open =>
          /\ h.first <= h.end /\ h.end <= written'
          /\ Past' < h.end
          /\ \A i \in 1..Len(ring') : ring'[i] = h.turn => Past' + i <= h.end
    <3> SUFFICES ASSUME NEW h \in ledger', h.end # Open
                 PROVE  /\ h.first <= h.end /\ h.end <= written
                        /\ Past < h.end
                        /\ \A i \in 1..Len(ring) :
                              ring[i] = h.turn => Past + i <= h.end
      BY <1>7, <1>8
    <3>1. CASE h \in ledger
      BY <3>1 DEF PlayerFits
    <3>2. CASE h \notin ledger
      <4>1. PICK g \in ledger : g.turn = t /\ h = Closed(g) /\ Past < written
        BY <3>2, <1>7
      <4>2. h.end = written /\ h.first = g.first /\ g.first <= written
        BY <4>1, <1>9 DEF PlayerFits
      <4>3. \A i \in 1..Len(ring) : Past + i <= written
        BY <1>8
      <4> QED BY <4>1, <4>2, <4>3, <1>8
    <3> QED BY <3>1, <3>2
  <2>8. ~started' => \A h \in ledger' :
          \/ Len(ring') >= Preroll
          \/ h.end = Open /\ written' - h.first <= Len(ring')
    <3> SUFFICES ASSUME ~started', NEW h \in ledger'
                 PROVE  \/ Len(ring) >= Preroll
                        \/ h.end = Open /\ written - h.first <= Len(ring)
      BY <1>7
    <3>1. ~started /\ \A s \in ledger : s.turn = t => ~IsShort(s)
      BY <1>6 DEF AudioEnd
    <3>2. CASE h \in ledger
      BY <3>1, <3>2 DEF PlayerFits
    <3>3. CASE h \notin ledger
      <4>1. PICK g \in ledger : g.turn = t /\ h = Closed(g)
        BY <3>3, <1>7
      <4>2. ~(written - g.first < Preroll)
        BY <4>1, <3>1 DEF IsShort
      <4>3. \/ Len(ring) >= Preroll
            \/ written - g.first <= Len(ring)
        BY <3>1 DEF PlayerFits
      <4>4. g.first \in Nat /\ Preroll \in Nat
        BY <1>9, PlayerBounds DEF Segments
      <4> QED BY <4>2, <4>3, <4>4, <1>8
    <3> QED BY <3>2, <3>3
  <2> QED BY <2>1, <2>2, <2>3, <2>4, <2>5, <2>6, <2>7, <2>8, <1>7 DEF PlayerFits
<1>15. Follows(ts, flow, q)'
  <2>1. \A u \in AiTurns : Known(u)' => Begun(ts, u)
    BY <1>13 DEF Follows
  <2>2. \A i \in 1..Len(q) :
          q[i].kind = "audio" /\ Reported(q[i].turn)' => shut'
    <3> SUFFICES ASSUME NEW i \in 1..Len(q), q[i].kind = "audio",
                        Reported(q[i].turn)'
                 PROVE  shut
      BY <1>7
    <3>1. q[i].turn # t
      BY <1>3 DEF TurnKinds
    <3>2. Reported(q[i].turn)
      BY <3>1, <1>12
    <3> QED BY <3>2, <1>1 DEF Follows
  <2>3. Reported(flow)' /\ (\A u \in 1..Len(ts) : ts[u].begun => u <= flow)
          => shut'
    <3>1. flow # t
      BY <1>2 DEF Nil
    <3> QED BY <3>1, <1>7, <1>12 DEF Follows
  <2>4. \A i \in 1..Len(q), u \in AiTurns :
          q[i].kind = "start" /\ Known(u)' => u < q[i].turn
    <3>1. \A i \in 1..Len(d), u \in AiTurns :
             d[i].kind = "start" /\ Known(u) => u < d[i].turn
      BY DEF Follows
    <3>2. \A i \in 1..Len(q) : i + 1 \in 1..Len(d) /\ q[i] = d[i + 1]
      BY <1>1
    <3> QED BY <3>1, <3>2, <1>13
  <2>5. \A u \in AiTurns : ClosedIn(u)' =>
          ts[u].done = "full" /\ ~Has(q, "audio", u) /\ ~Has(q, "end", u)
    BY <1>1, <1>2, <1>4, <1>12 DEF Follows
  <2>6. \A i \in 1..Len(q), u \in AiTurns :
          q[i].kind = "audio" /\ InLedger(u)' => u <= q[i].turn
    <3>1. \A i \in 1..Len(d), u \in AiTurns :
             d[i].kind = "audio" /\ InLedger(u) => u <= d[i].turn
      BY DEF Follows
    <3>2. \A i \in 1..Len(q) : i + 1 \in 1..Len(d) /\ q[i] = d[i + 1]
      BY <1>1
    <3> QED BY <3>1, <3>2, <1>12
  <2>7. \A u \in 1..Len(ts) : ts[u].begun => Known(u)' \/ Has(q, "start", u)
    <3>1. \A u : Has(d, "start", u) => Has(q, "start", u)
      BY <1>1
    <3>2. \A u \in 1..Len(ts) : ts[u].begun => Known(u) \/ Has(d, "start", u)
      BY DEF Follows
    <3> QED BY <3>1, <3>2, <1>13
  <2>8. \A u \in 1..Len(ts) : ts[u].begun /\ ts[u].done = "full" =>
          Reported(u)' \/ ClosedIn(u)' \/ Has(q, "end", u)
    BY <1>1, <1>5, <1>12 DEF Follows, Known
  <2> QED BY <2>1, <2>2, <2>3, <2>4, <2>5, <2>6, <2>7, <2>8 DEF Follows, Has
<1>16. CountsFit(ts, q, unsent)'
  <2>1. ASSUME NEW u PROVE Count(q, u) = Count(d, u) /\ Count(q, u) \in Nat
    <3>1. ~Chunk(Head(d), u) /\ Count(q, u) \in Nat
      BY <1>1, CountType DEF Chunk
    <3> QED BY <3>1, CountTail DEF q
  <2>2. Count(q, t) = 0
    <3>1. \A i \in 1..Len(q) : ~Chunk(q[i], t)
      BY <1>3 DEF Chunk, TurnKinds
    <3> QED BY <3>1, <1>1, CountType
  <2>3. \A h \in ledger' : h.turn # t => h \in ledger
    BY <1>7, <1>9
  <2>4. ASSUME NEW u \in 1..Len(ts), Good(ts, u)
        PROVE  CountFits(ts, q, unsent, u)'
    <3>1. CountFits(ts, d, unsent, u) /\ u \in Nat
      BY <2>4 DEF CountsFit
    <3>2. \A i, j \in 1..Len(q) :
            q[i].kind = "start" /\ q[i].turn = u /\ Chunk(q[j], u) => i < j
      BY <3>1, OrderTail DEF CountFits, q
    <3>3. CASE u = t
      <4>1. ~Has(q, "start", u) /\ ~OpenIn(u)'
        BY <3>3, <1>4, <1>12
      <4>2. ts[u].begun /\ Known(u)'
        BY <3>3, <1>2, <1>5, <1>13
      <4>3. ASSUME NEW h \in ledger', h.turn = u
            PROVE  /\ h.end # Open /\ h.end - h.first = Sent(ts, unsent, u)
                   /\ \A i \in 1..Len(ring') :
                         ring'[i] = u <=> /\ h.first < Past' + i
                                          /\ h.end # Open => Past' + i <= h.end
                   /\ ~h.tainted => heard'[u] =
                         IF h.first <= Past' THEN Past' - h.first ELSE 0
        <5>1. PICK g \in ledger : g.turn = u /\ h = Closed(g)
          BY <4>3, <3>3, <1>7
        <5>2. /\ g.end = Open /\ h.end = written /\ h.first = g.first
              /\ h.tainted = g.tainted
          BY <5>1, <3>3, <1>7, <1>9
        <5>3. /\ written - g.first + Count(d, u) = Sent(ts, unsent, u)
              /\ \A i \in 1..Len(ring) : ring[i] = u <=> g.first < Past + i
              /\ ~g.tainted => heard[u] =
                    IF g.first <= Past THEN Past - g.first ELSE 0
          BY <5>1, <5>2, <3>1 DEF CountFits
        <5>4. written - g.first = Sent(ts, unsent, u)
          <6>1. Count(d, u) = 0 /\ g.first \in Nat
            BY <3>3, <2>1, <2>2, <1>9 DEF Segments
          <6> QED BY <6>1, <5>3, <1>8
        <5>5. \A i \in 1..Len(ring) : Past + i <= written
          BY <1>8
        <5> QED BY <5>2, <5>3, <5>4, <5>5, <1>7, <1>8, <1>10
      <4> QED BY <4>1, <4>2, <4>3, <3>2 DEF CountFits, Has
    <3>4. CASE u # t
      <4>1. \A h \in ledger' : h.turn = u => h \in ledger
        BY <3>4, <2>3
      <4>2. Has(q, "start", u) <=> Has(d, "start", u)
        BY <1>1
      <4>3. (Known(u)' <=> Known(u)) /\ (OpenIn(u)' => OpenIn(u))
        BY <1>12, <1>13
      <4>4. Count(q, u) = Count(d, u)
        BY <2>1
      <4>5. Has(q, "start", u) \/ OpenIn(u)' =>
            \A i \in 1..Len(q) : q[i].kind = "audio" /\ q[i].turn > u =>
              \E j \in 1..(i - 1) : q[j].kind = "end" /\ q[j].turn = u
        <5>1. ~(d[1].kind = "end" /\ d[1].turn = u)
          BY <3>4 DEF t
        <5> QED BY <5>1, <4>2, <4>3, <3>1, OrderTail DEF CountFits, q
      <4> QED BY <4>1, <4>2, <4>3, <4>4, <4>5, <3>1, <3>2, <1>7, <1>8
              DEF CountFits, Has
    <3> QED BY <3>3, <3>4
  <2>5. ASSUME NEW u \in AiTurns, reported'[u] = "played"
        PROVE  /\ u \in 1..Len(ts) /\ ts[u].done = "full"
               /\ Clean(ts, u) => heard'[u] = ts[u].made
    <3>1. CASE reported[u] = "played"
      BY <3>1, <1>7 DEF CountsFit
    <3>2. CASE reported[u] # "played"
      <4>1. u = t /\ InLedger(t) /\ ~(Past < written)
        BY <3>2, <2>5, <1>7
      <4>2. PICK g \in ledger : g.turn = t
        BY <4>1 DEF InLedger
      <4>3. g.end = Open /\ ~g.tainted
        BY <4>1, <4>2, <2>5, <1>7, <1>11
      <4>4. ASSUME Clean(ts, t) PROVE heard[t] = ts[t].made
        <5>1. Good(ts, t)
          BY <4>4, <1>2 DEF Good
        <5>2. /\ written - g.first + Count(d, t) = Sent(ts, unsent, t)
              /\ heard[t] = IF g.first <= Past THEN Past - g.first ELSE 0
          BY <5>1, <4>2, <4>3, <1>2 DEF CountsFit, CountFits
        <5>3. Count(d, t) = 0 /\ g.first \in Nat /\ g.first <= written
          BY <2>1, <2>2, <1>9 DEF Segments, PlayerFits
        <5>4. Sent(ts, unsent, t) = ts[t].made
          <6>1. ts[t] \in TurnStates
            BY <1>2
          <6>2. ts[t].made \in Int
            BY <6>1 DEF TurnStates
          <6>3. t = Len(ts) => unsent = 0
            BY <1>2
          <6> QED BY <6>2, <6>3 DEF Sent
        <5>5. Past = written
          BY <4>1, <1>7, <1>8
        <5> QED BY <5>2, <5>3, <5>4, <5>5, <1>8
      <4> QED BY <4>1, <4>4, <1>2, <1>7
    <3> QED BY <3>1, <3>2
  <2>6. \A u \in AiTurns : u > Len(ts) =>
          heard'[u] = 0 /\ \A i \in 1..Len(ring') : ring'[i] # u
    BY <1>7 DEF CountsFit
  <2> QED BY <2>4, <2>5, <2>6 DEF CountsFit
<1> QED BY <1>14, <1>15, <1>16 DEF q

-------------------------------------------------------------------------------
(* The player passes a chunk                                                 *)

\* h is the segment g, with marks.
MarkedAs(g, h) ==
    /\ h \in Segments
    /\ h.turn = g.turn /\ h.first = g.first /\ h.end = g.end
    /\ g.tainted => h.tainted

\* The segments, marked, of the player that passed a chunk.
Passes(segs) ==
    /\ \A g \in ledger : \E h \in segs : MarkedAs(g, h)
    /\ \A h \in segs : \E g \in ledger : MarkedAs(g, h)
    /\ \A g, h \in segs : g.turn = h.turn => g = h
    /\ CheckCompletions(segs, Past + 1)

\* A segment goes on behind the next chunk.
Lasts(g) == g.end = Open \/ Past + 1 < g.end

\* The segments that end with the chunk are acknowledged, the others last.
LEMMA PassedSegments ==
    ASSUME PlayerFits, NEW segs, Passes(segs)
    PROVE  /\ Past \in Int
           /\ reported' \in [AiTurns -> {"no", "played", "aborted"}]
           /\ ledger' \subseteq Segments
           /\ \A g \in ledger : Lasts(g) =>
                 \E h \in ledger' : h \in segs /\ MarkedAs(g, h)
           /\ \A h \in ledger' : h \in segs /\ Lasts(h)
                 /\ \E g \in ledger : MarkedAs(g, h)
           /\ \A g \in ledger : ~Lasts(g) =>
                 /\ g.end = Past + 1
                 /\ reported'[g.turn] # "no"
           /\ \A u \in AiTurns :
                 \/ reported'[u] = reported[u]
                 \/ \E g \in ledger, h \in segs :
                       /\ g.turn = u /\ g.end = Past + 1 /\ ~Lasts(g)
                       /\ MarkedAs(g, h) /\ reported'[u] = Outcome(h)
<1>1. /\ ClientTypeOK /\ ledger \subseteq Segments /\ written \in Nat
      /\ Len(ring) \in Nat /\ Past \in Int /\ Open = -1
  BY DEF PlayerFits, ClientTypeOK, Past, Open
<1>2. PICK at : at = Past + 1
  OBVIOUS
<1>3. CheckCompletions(segs, at)
  BY <1>2 DEF Passes
<1>4. segs \subseteq Segments
  BY DEF Passes, MarkedAs
<1>5. \A s \in segs : reported[s.turn] = "no"
  <2> SUFFICES ASSUME NEW s \in segs PROVE reported[s.turn] = "no"
    OBVIOUS
  <2>1. PICK g \in ledger : MarkedAs(g, s)
    BY DEF Passes
  <2>2. ~Reported(g.turn) /\ s.turn = g.turn /\ s.turn \in AiTurns
    BY <2>1, <1>4 DEF PlayerFits, MarkedAs, Segments
  <2> QED BY <2>2 DEF Reported
<1>6. \A s, x \in segs : s.turn = x.turn => s = x
  BY DEF Passes
<1>7. /\ reported' \in [AiTurns -> {"no", "played", "aborted"}]
      /\ ledger' = {s \in segs : ~IsOver(s, at)}
      /\ \A s \in segs : IsOver(s, at) => reported'[s.turn] = Outcome(s)
      /\ \A t \in AiTurns :
            \/ reported'[t] = reported[t]
            \/ \E s \in segs : s.turn = t /\ IsOver(s, at)
  BY <1>1, <1>3, <1>4, <1>5, <1>6, Completions
<1>8. \A s \in Segments : Lasts(s) <=> ~IsOver(s, at)
  BY <1>1, <1>2 DEF Lasts, IsOver, Segments
<1>9. \A g, h : MarkedAs(g, h) => (Lasts(g) <=> Lasts(h)) /\ h \in Segments
  BY DEF MarkedAs, Lasts
<1>10. ASSUME NEW g \in ledger, Lasts(g)
       PROVE  \E h \in ledger' : h \in segs /\ MarkedAs(g, h)
  <2>1. PICK h \in segs : MarkedAs(g, h)
    BY DEF Passes
  <2> QED BY <2>1, <1>7, <1>8, <1>9, <1>10
<1>11. ASSUME NEW h \in ledger'
       PROVE  h \in segs /\ Lasts(h) /\ \E g \in ledger : MarkedAs(g, h)
  <2>1. h \in segs /\ ~IsOver(h, at) /\ h \in Segments
    BY <1>4, <1>7
  <2> QED BY <2>1, <1>8 DEF Passes
<1>12. ASSUME NEW g \in ledger, ~Lasts(g)
       PROVE  g.end = Past + 1 /\ reported'[g.turn] # "no"
  <2>1. g.end # Open /\ Past < g.end /\ g.end \in Int /\ ~(Past + 1 < g.end)
    BY <1>1, <1>12 DEF Lasts, PlayerFits, Segments
  <2>2. PICK h \in segs : MarkedAs(g, h)
    BY DEF Passes
  <2>3. IsOver(h, at) /\ h.turn = g.turn
    BY <2>2, <1>8, <1>9, <1>12 DEF MarkedAs
  <2>4. reported'[g.turn] = Outcome(h)
    BY <2>3, <1>7
  <2> QED BY <2>1, <2>4, <1>1 DEF Outcome
<1>13. ASSUME NEW u \in AiTurns, reported'[u] # reported[u]
       PROVE  \E g \in ledger, h \in segs :
                  /\ g.turn = u /\ g.end = Past + 1 /\ ~Lasts(g)
                  /\ MarkedAs(g, h) /\ reported'[u] = Outcome(h)
  <2>1. PICK h \in segs : h.turn = u /\ IsOver(h, at)
    BY <1>7, <1>13
  <2>2. PICK g \in ledger : MarkedAs(g, h)
    BY DEF Passes
  <2>3. ~Lasts(g) /\ g.turn = u
    BY <2>1, <2>2, <1>8, <1>9 DEF MarkedAs
  <2> QED BY <2>1, <2>2, <2>3, <1>7, <1>12
<1>14. ledger' \subseteq Segments
  BY <1>4, <1>7
<1> QED BY <1>1, <1>7, <1>10, <1>11, <1>12, <1>13, <1>14

\* What is known of a turn stays known.
LEMMA PassedTurns ==
    ASSUME PlayerFits, NEW segs, Passes(segs)
    PROVE  /\ \A u : Known(u)' <=> Known(u)
           /\ \A u : OpenIn(u)' <=> OpenIn(u)
           /\ \A u : Reported(u) => Reported(u)'
           /\ \A u : Reported(u)' => Reported(u) \/ ClosedIn(u)
           /\ \A u : ClosedIn(u)' => ClosedIn(u)
           /\ \A u : ClosedIn(u) => ClosedIn(u)' \/ Reported(u)'
           /\ \A u : InLedger(u)' => InLedger(u)
<1>1. /\ \A g \in ledger : Lasts(g) => \E h \in ledger' : MarkedAs(g, h)
      /\ \A h \in ledger' : \E g \in ledger : MarkedAs(g, h)
      /\ \A g \in ledger : ~Lasts(g) =>
            g.end = Past + 1 /\ reported'[g.turn] # "no"
      /\ \A u \in AiTurns :
            \/ reported'[u] = reported[u]
            \/ \E g \in ledger : g.turn = u /\ g.end = Past + 1 /\ ~Lasts(g)
  BY PassedSegments
<1>2. /\ \A g \in ledger : g \in Segments /\ g.turn \in AiTurns
      /\ \A g \in ledger : reported[g.turn] = "no"
  <2>1. \A g \in ledger : g \in Segments /\ g.turn \in AiTurns
    BY DEF PlayerFits, ClientTypeOK, Segments
  <2> QED BY <2>1 DEF PlayerFits, Reported
<1>3. \A g, h : MarkedAs(g, h) => h.turn = g.turn /\ h.end = g.end
  BY DEF MarkedAs
<1>4. \A g : ~Lasts(g) => g.end # Open
  BY DEF Lasts
<1>5. ASSUME NEW u PROVE Reported(u) => Reported(u)'
  <2> SUFFICES ASSUME Reported(u) PROVE Reported(u)'
    OBVIOUS
  <2>1. u \in AiTurns /\ reported[u] # "no"
    BY DEF Reported
  <2>2. reported'[u] = reported[u]
    BY <2>1, <1>1, <1>2
  <2> QED BY <2>1, <2>2 DEF Reported
<1>6. ASSUME NEW u PROVE Reported(u)' => Reported(u) \/ ClosedIn(u)
  BY <1>1, <1>4 DEF Reported, ClosedIn
<1>7. ASSUME NEW u PROVE /\ ClosedIn(u)' => ClosedIn(u)
                         /\ InLedger(u)' => InLedger(u)
                         /\ OpenIn(u)' => OpenIn(u)
  BY <1>1, <1>3 DEF ClosedIn, InLedger, OpenIn
<1>8. ASSUME NEW u PROVE ClosedIn(u) => ClosedIn(u)' \/ Reported(u)'
  BY <1>1, <1>2, <1>3 DEF ClosedIn, Reported
<1>9. ASSUME NEW u PROVE OpenIn(u) => OpenIn(u)'
  BY <1>1, <1>3, <1>4 DEF OpenIn
<1>10. ASSUME NEW u PROVE Known(u)' <=> Known(u)
  <2>1. InLedger(u) <=> ClosedIn(u) \/ OpenIn(u)
    BY DEF InLedger, ClosedIn, OpenIn
  <2>2. InLedger(u)' <=> ClosedIn(u)' \/ OpenIn(u)'
    BY DEF InLedger, ClosedIn, OpenIn
  <2> QED BY <2>1, <2>2, <1>5, <1>6, <1>7, <1>8, <1>9 DEF Known
<1> QED BY <1>5, <1>6, <1>7, <1>8, <1>9, <1>10

\* What is on its way still follows.
LEMMA PassedFollows ==
    ASSUME PlayerFits, NEW segs, Passes(segs), shut' = shut,
           NEW ts, NEW flow, NEW d, Follows(ts, flow, d),
           flow = Nil \/ ts[flow].done = "no"
    PROVE  Follows(ts, flow, d)'
<1>1. /\ \A u : Known(u)' <=> Known(u)
      /\ \A u : Reported(u) => Reported(u)'
      /\ \A u : Reported(u)' => Reported(u) \/ ClosedIn(u)
      /\ \A u : ClosedIn(u)' => ClosedIn(u)
      /\ \A u : ClosedIn(u) => ClosedIn(u)' \/ Reported(u)'
      /\ \A u : InLedger(u)' => InLedger(u)
  BY PassedTurns
<1>2. \A u \in AiTurns : Known(u)' => Begun(ts, u)
  BY <1>1 DEF Follows
<1>3. ASSUME NEW i \in 1..Len(d), d[i].kind = "audio", Reported(d[i].turn)'
      PROVE  shut'
  <2>1. CASE Reported(d[i].turn)
    BY <2>1, <1>3 DEF Follows
  <2>2. CASE ClosedIn(d[i].turn)
    <3>1. d[i].turn \in AiTurns /\ Has(d, "audio", d[i].turn)
      BY <1>3 DEF Reported, Has
    <3> QED BY <3>1, <2>2 DEF Follows
  <2> QED BY <2>1, <2>2, <1>1, <1>3
<1>4. Reported(flow)' /\ (\A u \in 1..Len(ts) : ts[u].begun => u <= flow)
        => shut'
  <2>1. Reported(flow)' => flow \in AiTurns /\ flow # Nil
    BY DEF Reported, AiTurns, Nil
  <2>2. Reported(flow)' => ~ClosedIn(flow)
    BY <2>1 DEF Follows
  <2> QED BY <2>2, <1>1 DEF Follows
<1>5. \A i \in 1..Len(d), u \in AiTurns :
          d[i].kind = "start" /\ Known(u)' => u < d[i].turn
  BY <1>1 DEF Follows
<1>6. \A u \in AiTurns : ClosedIn(u)' =>
          ts[u].done = "full" /\ ~Has(d, "audio", u) /\ ~Has(d, "end", u)
  BY <1>1 DEF Follows
<1>7. \A i \in 1..Len(d), u \in AiTurns :
          d[i].kind = "audio" /\ InLedger(u)' => u <= d[i].turn
  BY <1>1 DEF Follows
<1>8. \A u \in 1..Len(ts) : ts[u].begun => Known(u)' \/ Has(d, "start", u)
  BY <1>1 DEF Follows
<1>9. \A u \in 1..Len(ts) : ts[u].begun /\ ts[u].done = "full" =>
          Reported(u)' \/ ClosedIn(u)' \/ Has(d, "end", u)
  BY <1>1 DEF Follows
<1> QED BY <1>2, <1>3, <1>4, <1>5, <1>6, <1>7, <1>8, <1>9 DEF Follows, Has

\* The ring behind the chunk that was passed, with one of turn t more.
RingMoves(t) ==
    \A i \in 1..Len(ring') :
        \/ i + 1 \in 1..Len(ring) /\ ring'[i] = ring[i + 1]
        \/ ring'[i] = t /\ Past + 1 + i = written'

\* The player's own invariant, behind the chunk that was passed.
LEMMA PassedPlayer ==
    ASSUME PlayerFits, NEW segs, Passes(segs), ClientTypeOK',
           NEW t, ~Reported(t), ~ClosedIn(t), RingMoves(t),
           Past' = Past + 1, Len(ring') <= written', written <= written',
           shut' = shut, started' \/ (~started /\ Len(ring') >= Preroll)
    PROVE  PlayerFits'
<1>1. /\ \A h \in ledger' : Lasts(h) /\ \E g \in ledger : MarkedAs(g, h)
      /\ \A h \in ledger' : h \in segs
      /\ Past \in Int
  BY PassedSegments
<1>2. /\ \A u : Reported(u)' => Reported(u) \/ ClosedIn(u)
      /\ \A u : Reported(u) => Reported(u)'
  BY PassedTurns
<1>3. /\ Len(ring') \in Nat /\ written' \in Nat /\ written \in Nat
      /\ Len(ring) \in Nat
  BY DEF PlayerFits, ClientTypeOK
<1>4. \A u \in AiTurns :
            \/ reported'[u] = reported[u]
            \/ \E g \in ledger : g.turn = u /\ g.end = Past + 1 /\ ~Lasts(g)
  BY PassedSegments
<1>5. ASSUME NEW u, ~Reported(u), Reported(u)'
      PROVE  \E g \in ledger : g.turn = u /\ g.end = Past + 1 /\ ~Lasts(g)
  BY <1>4, <1>5 DEF Reported
<1>6. ASSUME NEW i \in 1..Len(ring') PROVE ~Reported(ring[i])'
  <2>1. PICK u : u = ring'[i]
    OBVIOUS
  <2>2. SUFFICES ASSUME Reported(u)' PROVE FALSE
    BY <2>1 DEF Reported
  <2>3. CASE i + 1 \in 1..Len(ring) /\ ring'[i] = ring[i + 1]
    <3>1. ~Reported(u)
      BY <2>1, <2>3 DEF PlayerFits
    <3>2. PICK g \in ledger : g.turn = u /\ g.end = Past + 1 /\ ~Lasts(g)
      BY <3>1, <2>2, <1>5
    <3>3. Past + (i + 1) <= g.end
      BY <3>2, <2>1, <2>3 DEF PlayerFits, Lasts
    <3> QED BY <3>2, <3>3, <1>1, <1>3
  <2>4. CASE ring'[i] = t
    BY <2>1, <2>2, <2>4, <1>2
  <2> QED BY <2>3, <2>4 DEF RingMoves
<1>7. ASSUME NEW h \in ledger' PROVE ~Reported(h.turn)'
  <2>1. PICK g \in ledger : MarkedAs(g, h)
    BY <1>1
  <2>2. ~Reported(g.turn) /\ g.turn = h.turn /\ Lasts(h)
    BY <2>1, <1>1 DEF PlayerFits, MarkedAs
  <2>3. SUFFICES ASSUME Reported(g.turn)' PROVE FALSE
    BY <2>2
  <2>4. PICK x \in ledger : x.turn = g.turn /\ ~Lasts(x)
    BY <2>2, <2>3, <1>5
  <2>5. x = g
    BY <2>4 DEF PlayerFits
  <2> QED BY <2>1, <2>2, <2>4, <2>5 DEF Lasts, MarkedAs
<1>8. \A g, h \in ledger' : g.turn = h.turn => g = h
  BY <1>1 DEF Passes
<1>9. ledger' # {} => ~shut'
  BY <1>1 DEF PlayerFits
<1>10. ASSUME NEW h \in ledger'
       PROVE  /\ h.first <= written'
              /\ h.end # Open =>
                    /\ h.first <= h.end /\ h.end <= written'
                    /\ Past' < h.end
                    /\ \A i \in 1..Len(ring') :
                          ring'[i] = h.turn => Past' + i <= h.end
              /\ ~started' => \/ Len(ring') >= Preroll
                              \/ h.end = Open /\ written' - h.first <= Len(ring')
  <2>1. PICK g \in ledger : MarkedAs(g, h)
    BY <1>1
  <2>2. /\ h.first = g.first /\ h.end = g.end /\ h.turn = g.turn
        /\ h.first \in Nat /\ h.end \in Int /\ Lasts(h)
    BY <2>1, <1>1 DEF MarkedAs, Segments, Open
  <2>3. g.first <= written
    BY DEF PlayerFits
  <2>4. g.end # Open =>
          /\ g.first <= g.end /\ g.end <= written
          /\ \A i \in 1..Len(ring) : ring[i] = g.turn => Past + i <= g.end
    BY DEF PlayerFits
  <2>5. ASSUME h.end # Open, NEW i \in 1..Len(ring'), ring'[i] = h.turn
        PROVE  Past' + i <= h.end
    <3>1. CASE i + 1 \in 1..Len(ring) /\ ring'[i] = ring[i + 1]
      <4>1. Past + (i + 1) <= h.end
        BY <3>1, <2>2, <2>4, <2>5
      <4> QED BY <4>1, <1>1
    <3>2. CASE ring'[i] = t
      BY <3>2, <2>2, <2>5 DEF ClosedIn
    <3> QED BY <3>1, <3>2 DEF RingMoves
  <2>6. h.first <= written' /\ (h.end # Open => h.end <= written')
    BY <2>2, <2>3, <2>4, <1>3
  <2>7. h.end # Open => Past' < h.end
    BY <2>2 DEF Lasts
  <2> QED BY <2>2, <2>4, <2>5, <2>6, <2>7
<1> QED BY <1>6, <1>7, <1>8, <1>9, <1>10 DEF PlayerFits

-------------------------------------------------------------------------------
(* The counts behind a chunk                                                 *)

\* Nothing was written, or a chunk of turn t that is the first of the frames d.
Writes(ts, d, q, t) ==
    \/ t = Nil /\ written' = written /\ q = d
    \/ /\ t \in 1..Len(ts) /\ t \in AiTurns /\ written' = written + 1
       /\ d # <<>> /\ q = Tail(d) /\ d[1].kind = "audio" /\ d[1].turn = t
       /\ ~ClosedIn(t)
       /\ Good(ts, t) => Known(t) /\ ~Has(d, "start", t)
       /\ \A u : OpenIn(u) /\ Good(ts, u) => u = t

\* The order of the frames of turn u.
StartsFirst(d, u) ==
    \A i, j \in 1..Len(d) :
        d[i].kind = "start" /\ d[i].turn = u /\ Chunk(d[j], u) => i < j
EndsFirst(d, u) ==
    \A i \in 1..Len(d) : d[i].kind = "audio" /\ d[i].turn > u =>
        \E j \in 1..(i - 1) : d[j].kind = "end" /\ d[j].turn = u

\* What writing does to the frames.
LEMMA WrittenFrames ==
    ASSUME NEW ts, NEW d \in Seq(Frames), NEW q, NEW t, Writes(ts, d, q, t),
           written \in Nat, NEW u \in 1..Len(ts)
    PROVE  /\ q \in Seq(Frames)
           /\ Has(q, "start", u) <=> Has(d, "start", u)
           /\ Count(q, u) \in Nat /\ Count(d, u) \in Nat
           /\ Count(d, u) =
                 Count(q, u) + IF u = t THEN written' - written ELSE 0
           /\ t = u /\ Good(ts, u) => ~Has(d, "start", u)
           /\ StartsFirst(d, u) => StartsFirst(q, u)
           /\ EndsFirst(d, u) => EndsFirst(q, u)
<1>1. CASE t = Nil /\ written' = written /\ q = d
  <2>1. u # t /\ Count(d, u) \in Nat
    BY <1>1, CountType DEF Nil
  <2> QED BY <1>1, <2>1
<1>2. CASE ~(t = Nil /\ written' = written /\ q = d)
  <2>1. /\ d # <<>> /\ q = Tail(d) /\ d[1].kind = "audio" /\ d[1].turn = t
        /\ written' = written + 1
        /\ Good(ts, t) => ~Has(d, "start", t)
    BY <1>2 DEF Writes
  <2>2. q \in Seq(Frames) /\ Head(d) = d[1] /\ u \in Nat
    BY <2>1, HasTail
  <2>3. Has(q, "start", u) <=> Has(d, "start", u)
    BY <2>1, HasTail
  <2>4. Count(q, u) \in Nat /\ Count(d, u) \in Nat
    BY <2>2, CountType
  <2>5. Count(d, u) = Count(q, u) + IF Chunk(Head(d), u) THEN 1 ELSE 0
    BY <2>1, CountTail
  <2>6. Chunk(Head(d), u) <=> u = t
    BY <2>1, <2>2 DEF Chunk
  <2>7. u = t => written' - written = 1
    BY <2>1 DEF Writes
  <2>8. ~(d[1].kind = "end" /\ d[1].turn = u)
    BY <2>1
  <2>9. StartsFirst(d, u) => StartsFirst(q, u)
    BY <2>1, <2>2, OrderTail DEF StartsFirst
  <2>10. EndsFirst(d, u) => EndsFirst(q, u)
    <3> SUFFICES ASSUME EndsFirst(d, u) PROVE EndsFirst(q, u)
      OBVIOUS
    <3>1. d # <<>> /\ u \in Nat
      BY <2>1, <2>2
    <3>2. \A i \in 1..Len(Tail(d)) :
             Tail(d)[i].kind = "audio" /\ Tail(d)[i].turn > u =>
                \E j \in 1..(i - 1) : Tail(d)[j].kind = "end"
                                      /\ Tail(d)[j].turn = u
      BY <3>1, <2>8, OrderTail DEF EndsFirst
    <3> QED BY <3>2, <2>1 DEF EndsFirst
  <2> QED BY <2>1, <2>2, <2>3, <2>4, <2>5, <2>6, <2>7, <2>9, <2>10
<1> QED BY <1>1, <1>2

\* The counts, behind the chunk that was passed: it was heard, or its
\* segment is marked.
LEMMA PassedCounts ==
    ASSUME PlayerFits, NEW segs, Passes(segs), ClientTypeOK',
           NEW ts \in Seq(TurnStates), Len(ts) <= MaxTurns, NEW unsent,
           NEW flow, NEW d \in Seq(Frames), NEW q, NEW t,
           Writes(ts, d, q, t), RingMoves(t), Past' = Past + 1,
           Follows(ts, flow, d), CountsFit(ts, d, unsent),
           \A u \in 1..Len(ts) : ts[u].done = "full" => ~ts[u].failed,
           Len(ts) > 0 /\ ts[Len(ts)].done = "full" => unsent = 0,
           \A u \in AiTurns : \/ heard'[u] = heard[u]
                              \/ \E i \in 1..Len(ring) : ring[i] = u,
           \A g \in ledger, h \in segs :
              MarkedAs(g, h) /\ ~h.tainted /\ Good(ts, g.turn) =>
                 heard'[g.turn] =
                    heard[g.turn] + IF g.first <= Past THEN 1 ELSE 0
    PROVE  CountsFit(ts, q, unsent)'
<1>1. /\ \A h \in ledger' : Lasts(h) /\ h \in segs /\ h \in Segments
                            /\ \E g \in ledger : MarkedAs(g, h)
      /\ Past \in Int
      /\ \A u \in AiTurns :
            \/ reported'[u] = reported[u]
            \/ \E g \in ledger, h \in segs :
                  /\ g.turn = u /\ g.end = Past + 1
                  /\ MarkedAs(g, h) /\ reported'[u] = Outcome(h)
  BY PassedSegments
<1>2. /\ \A u : Known(u)' <=> Known(u)
      /\ \A u : OpenIn(u)' <=> OpenIn(u)
      /\ \A u : Reported(u) => Reported(u)'
  BY PassedTurns
<1>3. /\ written \in Nat /\ written' \in Nat /\ Open = -1
      /\ ledger \subseteq Segments
      /\ ring \in Seq(AiTurns) /\ ring' \in Seq(AiTurns)
      /\ heard \in [AiTurns -> Nat]
  BY DEF PlayerFits, ClientTypeOK, Open
<1>4. \A u \in 1..Len(ts) : u \in AiTurns /\ u \in Nat
  BY PlayerBounds DEF AiTurns
<1>5. \A i \in 1..Len(ring') : ring'[i] \in AiTurns /\ ring'[i] # Nil /\ i \in Nat
  <2> SUFFICES ASSUME NEW i \in 1..Len(ring') PROVE ring'[i] \in AiTurns
    BY DEF AiTurns, Nil
  <2> QED BY <1>3
<1>6. \A g \in ledger :
         /\ g.first \in Nat /\ g.end \in Int /\ g.turn \in AiTurns
         /\ g.first <= written
         /\ g.end # Open => g.first <= g.end /\ g.end <= written
  BY <1>3 DEF PlayerFits, Segments, Open
<1>7. ASSUME NEW u \in 1..Len(ts), Good(ts, u)
      PROVE  CountFits(ts, q, unsent, u)'
  <2>1. CountFits(ts, d, unsent, u) /\ u \in AiTurns /\ u \in Nat
    BY <1>4, <1>7 DEF CountsFit
  <2>2. /\ q \in Seq(Frames)
        /\ Has(q, "start", u) <=> Has(d, "start", u)
        /\ Count(q, u) \in Nat /\ Count(d, u) \in Nat
        /\ Count(d, u) = Count(q, u) + IF u = t THEN written' - written ELSE 0
        /\ t = u => ~Has(d, "start", u)
        /\ StartsFirst(d, u) => StartsFirst(q, u)
        /\ EndsFirst(d, u) => EndsFirst(q, u)
    BY <1>3, <1>7, WrittenFrames
  <2>3. written' = written \/ (written' = written + 1 /\ t # Nil)
    BY DEF Writes, Nil
  <2>4. OpenIn(u) => u = t \/ written' = written
    BY <1>7 DEF Writes
  <2>5. ClosedIn(u) => u # t
    BY <2>1 DEF Writes, Nil, AiTurns
  <2>6. \A i, j \in 1..Len(q) :
           q[i].kind = "start" /\ q[i].turn = u /\ Chunk(q[j], u) => i < j
    BY <2>1, <2>2 DEF CountFits, StartsFirst
  <2>7. Has(q, "start", u) \/ OpenIn(u)' =>
           \A i \in 1..Len(q) : q[i].kind = "audio" /\ q[i].turn > u =>
              \E j \in 1..(i - 1) : q[j].kind = "end" /\ q[j].turn = u
    <3>1. Has(d, "start", u) \/ OpenIn(u) => EndsFirst(d, u)
      BY <2>1 DEF CountFits, EndsFirst
    <3> QED BY <3>1, <2>2, <1>2 DEF EndsFirst
  <2>8. Has(q, "start", u) => Count(q, u) = Sent(ts, unsent, u)
    <3>1. Has(d, "start", u) => Count(d, u) = Sent(ts, unsent, u) /\ u # t
      BY <2>1, <2>2 DEF CountFits
    <3> QED BY <3>1, <2>2
  <2>9. ~ts[u].begun => Sent(ts, unsent, u) = 0 /\ Count(q, u) = 0
    <3>1. ~ts[u].begun => Sent(ts, unsent, u) = 0 /\ Count(d, u) = 0
      BY <2>1 DEF CountFits
    <3> QED BY <3>1, <2>2, <2>3, <1>3
  <2>10. ~Known(u)' =>
            heard'[u] = 0 /\ \A i \in 1..Len(ring') : ring'[i] # u
    <3> SUFFICES ASSUME ~Known(u)
                 PROVE  heard'[u] = 0 /\ \A i \in 1..Len(ring') : ring'[i] # u
      BY <1>2
    <3>1. heard[u] = 0 /\ \A i \in 1..Len(ring) : ring[i] # u
      BY <2>1 DEF CountFits
    <3>2. u # t
      BY <2>1, <1>7 DEF Writes, Nil, AiTurns
    <3> QED BY <3>1, <3>2, <2>1, ZenonT(30) DEF RingMoves
  <2>11. ASSUME NEW h \in ledger', h.turn = u
         PROVE  /\ IF h.end = Open
                   THEN written' - h.first + Count(q, u) = Sent(ts, unsent, u)
                   ELSE h.end - h.first = Sent(ts, unsent, u)
                /\ \A i \in 1..Len(ring') :
                      ring'[i] = u <=> /\ h.first < Past' + i
                                       /\ h.end # Open => Past' + i <= h.end
                /\ ~h.tainted =>
                      heard'[u] = IF h.first <= Past' THEN Past' - h.first ELSE 0
    <3>1. PICK g \in ledger : MarkedAs(g, h)
      BY <1>1
    <3>2. /\ g.turn = u /\ h.first = g.first /\ h.end = g.end
          /\ g.tainted => h.tainted
          /\ g.first \in Nat /\ g.end \in Int /\ g.first <= written
          /\ g.end # Open => g.first <= g.end /\ g.end <= written
          /\ h \in segs
      BY <3>1, <2>11, <1>1, <1>6 DEF MarkedAs
    <3>3. /\ IF g.end = Open
             THEN written - g.first + Count(d, u) = Sent(ts, unsent, u)
             ELSE g.end - g.first = Sent(ts, unsent, u)
          /\ \A i \in 1..Len(ring) :
                ring[i] = u <=> /\ g.first < Past + i
                                /\ g.end # Open => Past + i <= g.end
          /\ ~g.tainted =>
                heard[u] = IF g.first <= Past THEN Past - g.first ELSE 0
      BY <3>2, <2>1 DEF CountFits
    <3>4. g.end = Open => OpenIn(u)
      BY <3>2 DEF OpenIn
    <3>5. g.end # Open => ClosedIn(u)
      BY <3>2 DEF ClosedIn
    <3>6. IF h.end = Open
          THEN written' - h.first + Count(q, u) = Sent(ts, unsent, u)
          ELSE h.end - h.first = Sent(ts, unsent, u)
      <4>1. CASE g.end = Open
        <5>1. u = t \/ written' = written
          BY <4>1, <3>4, <2>4
        <5>2. written - g.first + Count(d, u)
                 = written' - g.first + Count(q, u)
          BY <5>1, <3>2, <2>2, <1>3, SMTT(20)
        <5> QED BY <4>1, <5>2, <3>2, <3>3
      <4>2. CASE g.end # Open
        BY <4>2, <3>2, <3>3
      <4> QED BY <4>1, <4>2
    <3>7. ASSUME NEW i \in 1..Len(ring')
          PROVE  ring'[i] = u <=> /\ h.first < Past' + i
                                  /\ h.end # Open => Past' + i <= h.end
      <4>1. CASE i + 1 \in 1..Len(ring) /\ ring'[i] = ring[i + 1]
        <5>1. ring[i + 1] = u <=> /\ g.first < Past + (i + 1)
                                  /\ g.end # Open => Past + (i + 1) <= g.end
          BY <4>1, <3>3
        <5>2. Past + (i + 1) = Past' + i
          BY <1>1, <1>5
        <5> QED BY <4>1, <5>1, <5>2, <3>2
      <4>2. CASE ring'[i] = t
        <5>1. CASE i + 1 \in 1..Len(ring) /\ ring'[i] = ring[i + 1]
          BY <4>1, <5>1
        <5>2. CASE ~(i + 1 \in 1..Len(ring) /\ ring'[i] = ring[i + 1])
          <6>1. t # Nil /\ Past' + i = written' /\ written' = written + 1
            BY <5>2, <4>2, <1>5 DEF RingMoves, Writes
          <6>2. CASE u = t
            BY <6>1, <6>2, <4>2, <3>2, <3>5, <2>5, <1>3, SMTT(20)
          <6>3. CASE u # t
            <7>1. g.end # Open
              BY <6>1, <6>3, <3>4, <2>4, <1>3, SMTT(20)
            <7> QED BY <7>1, <6>1, <6>3, <4>2, <3>2, <1>3
          <6> QED BY <6>2, <6>3
        <5> QED BY <5>1, <5>2
      <4> QED BY <4>1, <4>2 DEF RingMoves
    <3>8. ASSUME ~h.tainted
          PROVE  heard'[u] = IF h.first <= Past' THEN Past' - h.first ELSE 0
      <4>1. heard'[u] = heard[u] + IF g.first <= Past THEN 1 ELSE 0
        BY <3>1, <3>2, <3>8, <1>7
      <4>2. heard[u] = IF g.first <= Past THEN Past - g.first ELSE 0
        BY <3>2, <3>3, <3>8
      <4> QED BY <4>1, <4>2, <3>2, <1>1
    <3> QED BY <3>6, <3>7, <3>8
  <2> QED BY <2>6, <2>7, <2>8, <2>9, <2>10, <2>11 DEF CountFits, Has
<1>8. ASSUME NEW u \in AiTurns, reported'[u] = "played"
      PROVE  /\ u \in 1..Len(ts) /\ ts[u].done = "full"
             /\ Clean(ts, u) => heard'[u] = ts[u].made
  <2>1. CASE reported[u] = "played"
    <3>1. Reported(u)
      BY <2>1 DEF Reported
    <3>2. heard'[u] = heard[u]
      BY <3>1 DEF PlayerFits
    <3> QED BY <3>2, <2>1 DEF CountsFit
  <2>2. CASE reported[u] # "played"
    <3>1. PICK g \in ledger, h \in segs :
              /\ g.turn = u /\ g.end = Past + 1
              /\ MarkedAs(g, h) /\ reported'[u] = Outcome(h)
      BY <2>2, <1>1, <1>8
    <3>2. ~h.tainted /\ g.end # Open /\ ~g.tainted
      <4>1. ~h.tainted
        BY <3>1, <1>8 DEF Outcome
      <4>2. Past \in Nat
        BY <1>3 DEF PlayerFits, Past
      <4> QED BY <4>1, <4>2, <3>1, <1>3 DEF MarkedAs
    <3>3. ClosedIn(u)
      BY <3>1, <3>2 DEF ClosedIn
    <3>4. u \in 1..Len(ts) /\ ts[u].done = "full"
      BY <3>3 DEF Follows, Known, InLedger, ClosedIn, Begun
    <3>5. ASSUME Clean(ts, u) PROVE heard'[u] = ts[u].made
      <4>1. Good(ts, u)
        BY <3>4, <3>5 DEF Good
      <4>2. /\ g.end - g.first = Sent(ts, unsent, u)
            /\ heard[u] = IF g.first <= Past THEN Past - g.first ELSE 0
        BY <4>1, <3>1, <3>2, <3>4 DEF CountsFit, CountFits
      <4>3. heard'[u] = heard[u] + IF g.first <= Past THEN 1 ELSE 0
        BY <4>1, <3>1, <3>2
      <4>4. Sent(ts, unsent, u) = ts[u].made
        <5>1. ts[u] \in TurnStates
          BY <3>4
        <5>2. ts[u].made \in Int
          BY <5>1 DEF TurnStates
        <5>3. u = Len(ts) => unsent = 0
          BY <3>4
        <5> QED BY <5>2, <5>3 DEF Sent
      <4>5. g.first \in Nat /\ g.first <= g.end
        BY <3>2, <1>6
      <4> QED BY <4>2, <4>3, <4>4, <4>5, <3>1, <1>1
    <3> QED BY <3>4, <3>5
  <2> QED BY <2>1, <2>2
<1>9. ASSUME NEW u \in AiTurns, u > Len(ts)
      PROVE  heard'[u] = 0 /\ \A i \in 1..Len(ring') : ring'[i] # u
  <2>1. heard[u] = 0 /\ \A i \in 1..Len(ring) : ring[i] # u
    BY <1>9 DEF CountsFit
  <2>2. u # t
    BY <1>9 DEF Writes, AiTurns, Nil
  <2>3. heard'[u] = 0
    BY <1>9, <2>1, <2>2
  <2>4. ASSUME NEW i \in 1..Len(ring')
        PROVE  ring'[i] # u
    <3>1. CASE i + 1 \in 1..Len(ring) /\ ring'[i] = ring[i + 1]
      BY <3>1, <2>1
    <3>2. CASE ~(i + 1 \in 1..Len(ring) /\ ring'[i] = ring[i + 1])
      <4>1. ring'[i] = t
        BY <3>2 DEF RingMoves
      <4> QED BY <4>1, <2>2
    <3> QED BY <3>1, <3>2
  <2> QED BY <2>3, <2>4
<1> QED BY <1>7, <1>8, <1>9 DEF CountsFit

-------------------------------------------------------------------------------
(* A chunk is made sound                                                     *)

Sounded(g) == [g EXCEPT !.rendered = TRUE]

\* A segment that is rendered.
LEMMA SoundedSegment ==
    ASSUME NEW g \in Segments
    PROVE  MarkedAs(g, Sounded(g)) /\ Sounded(g).turn = g.turn
<1>1. /\ Sounded(g).turn = g.turn /\ Sounded(g).first = g.first
      /\ Sounded(g).end = g.end /\ Sounded(g).tainted = g.tainted
  BY DEF Sounded, Segments
<1>2. Sounded(g) \in Segments
  BY DEF Sounded, Segments
<1> QED BY <1>1, <1>2 DEF MarkedAs

\* process: the oldest chunk is heard, and each segment marked.
LEMMA RenderStep ==
    ASSUME PlayerFits, Render,
           NEW ts \in Seq(TurnStates), Len(ts) <= MaxTurns, NEW unsent,
           NEW flow, NEW d \in Seq(Frames),
           Follows(ts, flow, d), CountsFit(ts, d, unsent),
           flow = Nil \/ ts[flow].done = "no",
           \A u \in 1..Len(ts) : ts[u].done = "full" => ~ts[u].failed,
           Len(ts) > 0 /\ ts[Len(ts)].done = "full" => unsent = 0
    PROVE  /\ PlayerFits' /\ control' = control
           /\ Follows(ts, flow, d)' /\ CountsFit(ts, d, unsent)'
<1>1. /\ ring # <<>> /\ started' = TRUE /\ ring' = Tail(ring)
      /\ heard' = [heard EXCEPT ![Head(ring)] = @ + 1]
      /\ CheckCompletions({[s EXCEPT !.rendered = TRUE] : s \in ledger},
                          Position(ring, written) + 1)
      /\ control' = control /\ written' = written /\ shut' = shut
  BY DEF Render
<1>2. /\ ClientTypeOK /\ ledger \subseteq Segments /\ written \in Nat
      /\ ring \in Seq(AiTurns) /\ Len(ring) <= Capacity /\ Len(ring) <= written
      /\ heard \in [AiTurns -> Nat]
  BY DEF PlayerFits, ClientTypeOK
<1>3. /\ Len(ring) \in Nat \ {0} /\ Len(ring') = Len(ring) - 1
      /\ ring' \in Seq(AiTurns) /\ Head(ring) = ring[1] /\ ring[1] \in AiTurns
      /\ 1 \in 1..Len(ring)
      /\ \A i \in 1..Len(ring') : i + 1 \in 1..Len(ring) /\ ring'[i] = ring[i + 1]
  <2>1. ring # <<>> /\ ring \in Seq(AiTurns) /\ ring' = Tail(ring)
    BY <1>1, <1>2
  <2>2. /\ Len(ring) \in Nat \ {0} /\ Len(Tail(ring)) = Len(ring) - 1
        /\ Tail(ring) \in Seq(AiTurns) /\ Head(ring) = ring[1]
        /\ \A i \in 1..Len(Tail(ring)) : Tail(ring)[i] = ring[i + 1]
    BY <2>1
  <2>3. 1 \in 1..Len(ring) /\ ring[1] \in AiTurns
    BY <2>1, <2>2
  <2>4. \A i \in 1..Len(Tail(ring)) : i + 1 \in 1..Len(ring)
    BY <2>2
  <2> QED BY <2>1, <2>2, <2>3, <2>4
<1>4. Past \in Int /\ Past' = Past + 1 /\ Position(ring, written) + 1 = Past + 1
  BY <1>1, <1>2, <1>3 DEF Past, Position
<1>5. PICK segs : segs = {Sounded(s) : s \in ledger}
  OBVIOUS
<1>6. \A g \in ledger : MarkedAs(g, Sounded(g)) /\ Sounded(g).turn = g.turn
  BY <1>2, SoundedSegment
<1>7. Passes(segs)
  <2>1. \A g \in ledger : \E h \in segs : MarkedAs(g, h)
    BY <1>5, <1>6
  <2>2. \A h \in segs : \E g \in ledger : MarkedAs(g, h)
    BY <1>5, <1>6
  <2>3. \A g, h \in segs : g.turn = h.turn => g = h
    <3>1. \A g, h \in ledger : g.turn = h.turn => g = h
      BY DEF PlayerFits
    <3> QED BY <3>1, <1>5, <1>6
  <2>4. PICK at : at = Position(ring, written) + 1
    OBVIOUS
  <2>5. CheckCompletions(segs, at)
    BY <2>4, <1>1, <1>5 DEF Sounded
  <2> QED BY <2>1, <2>2, <2>3, <2>4, <2>5, <1>4 DEF Passes
<1>8. ClientTypeOK'
  <2>1. reported' \in [AiTurns -> {"no", "played", "aborted"}]
        /\ ledger' \subseteq Segments
    BY <1>7, PassedSegments
  <2>2. heard' \in [AiTurns -> Nat]
    BY <1>1, <1>2, <1>3
  <2>3. Len(ring') <= Capacity
    BY <1>2, <1>3, PlayerBounds
  <2>4. /\ control' \in [turn : AiTurns \cup {Nil}, pause : Nat, last : Nat]
        /\ written' \in Nat /\ shut' \in BOOLEAN /\ started' \in BOOLEAN
    BY <1>1, <1>2 DEF ClientTypeOK
  <2> QED BY <2>1, <2>2, <2>3, <2>4, <1>3 DEF ClientTypeOK
<1>9. RingMoves(Nil)
  BY <1>3 DEF RingMoves
<1>10. ~Reported(Nil) /\ ~ClosedIn(Nil)
  BY <1>2 DEF Reported, ClosedIn, Segments, AiTurns, Nil
<1>11. PlayerFits'
  <2>1. Len(ring') <= written' /\ written <= written'
    BY <1>1, <1>2, <1>3
  <2> QED BY <2>1, <1>1, <1>4, <1>7, <1>8, <1>9, <1>10, PassedPlayer
<1>12. Follows(ts, flow, d)'
  BY <1>1, <1>7, PassedFollows
<1>13. Writes(ts, d, d, Nil)
  BY <1>1 DEF Writes
<1>14. \A u \in AiTurns : \/ heard'[u] = heard[u]
                          \/ \E i \in 1..Len(ring) : ring[i] = u
  BY <1>1, <1>2, <1>3
<1>15. ASSUME NEW g \in ledger, Good(ts, g.turn)
       PROVE  heard'[g.turn] =
                 heard[g.turn] + IF g.first <= Past THEN 1 ELSE 0
  <2>1. CountFits(ts, d, unsent, g.turn)
    BY <1>15 DEF CountsFit, Good
  <2>2. ring[1] = g.turn <=> /\ g.first < Past + 1
                             /\ g.end # Open => Past + 1 <= g.end
    BY <2>1, <1>3 DEF CountFits
  <2>3. g.end # Open => Past < g.end
    BY DEF PlayerFits
  <2>4. g.first \in Nat /\ g.end \in Int /\ g.turn \in AiTurns
    BY <1>2 DEF Segments, Open
  <2>5. ring[1] = g.turn <=> g.first <= Past
    BY <2>2, <2>3, <2>4, <1>4
  <2> QED BY <2>4, <2>5, <1>1, <1>2, <1>3
<1>16. CountsFit(ts, d, unsent)'
  BY <1>4, <1>7, <1>8, <1>9, <1>13, <1>14, <1>15, PassedCounts
<1> QED BY <1>1, <1>11, <1>12, <1>16

-------------------------------------------------------------------------------
(* A chunk arrives                                                           *)

\* What the first frame, a chunk of turn t, says of the player.
LEMMA PushedTurn ==
    ASSUME PlayerFits, NEW ts \in Seq(TurnStates), Len(ts) <= MaxTurns,
           NEW unsent, NEW flow, NEW d \in Seq(Frames), d # <<>>,
           d[1].kind = "audio",
           WireFits(ts, d), Follows(ts, flow, d), CountsFit(ts, d, unsent)
    PROVE  LET t == d[1].turn IN
           /\ t \in 1..Len(ts) /\ t \in AiTurns
           /\ ~shut => ~Reported(t)
           /\ ~ClosedIn(t)
           /\ Good(ts, t) => Known(t) /\ ~Has(d, "start", t)
           /\ \A u : OpenIn(u) /\ Good(ts, u) => u = t
<1> DEFINE t == d[1].turn
<1>1. /\ 1 \in 1..Len(d) /\ d[1] \in Frames /\ Len(d) \in Nat
      /\ Has(d, "audio", t)
  BY HasTail
<1>2. t \in 1..Len(ts) /\ t \in AiTurns /\ t \in Nat
  BY <1>1, PlayerBounds DEF WireFits, TurnKinds, AiTurns
<1>3. ~shut => ~Reported(t)
  BY <1>1 DEF Follows
<1>4. ~ClosedIn(t)
  BY <1>1, <1>2 DEF Follows
<1>5. ASSUME Good(ts, t) PROVE Known(t) /\ ~Has(d, "start", t)
  <2>1. CountFits(ts, d, unsent, t) /\ Chunk(d[1], t)
    BY <1>2, <1>5 DEF CountsFit, Chunk
  <2>2. ~Has(d, "start", t)
    <3> SUFFICES ASSUME NEW i \in 1..Len(d), d[i].kind = "start",
                        d[i].turn = t
                 PROVE  FALSE
      BY DEF Has
    <3>1. i < 1
      BY <2>1, <1>1 DEF CountFits
    <3> QED BY <3>1
  <2>3. ts[t].begun
    <3>1. Count(d, t) # 0
      BY <2>1, <1>1, CountType
    <3> QED BY <3>1, <2>1 DEF CountFits
  <2> QED BY <2>2, <2>3, <1>2 DEF Follows
<1>6. ASSUME NEW u, OpenIn(u), Good(ts, u) PROVE u = t
  <2>1. u \in 1..Len(ts) /\ u \in AiTurns /\ InLedger(u)
    BY <1>6, PlayerBounds DEF Good, OpenIn, InLedger, AiTurns
  <2>2. u <= t
    BY <2>1, <1>1 DEF Follows
  <2>3. ~(t > u)
    <3> SUFFICES ASSUME t > u PROVE FALSE
      OBVIOUS
    <3>1. CountFits(ts, d, unsent, u)
      BY <2>1, <1>6 DEF CountsFit
    <3>2. \E j \in 1..(1 - 1) : d[j].kind = "end" /\ d[j].turn = u
      BY <3>1, <1>1, <1>6 DEF CountFits
    <3> QED BY <3>2
  <2> QED BY <2>1, <2>2, <2>3, <1>2
<1> QED BY <1>2, <1>3, <1>4, <1>5, <1>6

\* A segment whose chunk at the given place is dropped.
LEMMA TaintedSegment ==
    ASSUME NEW g \in Segments, NEW at \in Int
    PROVE  /\ MarkedAs(g, Tainted(g, at)) /\ Tainted(g, at).turn = g.turn
           /\ ~Tainted(g, at).tainted =>
                 ~(g.first <= at /\ (g.end = Open \/ at < g.end))
<1>1. /\ Tainted(g, at).turn = g.turn /\ Tainted(g, at).first = g.first
      /\ Tainted(g, at).end = g.end
      /\ Tainted(g, at).tainted =
            (g.tainted \/ (g.first <= at /\ (g.end = Open \/ at < g.end)))
  BY DEF Tainted, Segments
<1>2. Tainted(g, at) \in Segments
  BY DEF Tainted, Segments
<1> QED BY <1>1, <1>2 DEF MarkedAs

\* The player refuses it.
LEMMA RefusedStep ==
    ASSUME PlayerFits, shut, NEW ts \in Seq(TurnStates), Len(ts) <= MaxTurns,
           NEW unsent, NEW flow, NEW d \in Seq(Frames), d # <<>>,
           d[1].kind = "audio",
           WireFits(ts, d), Follows(ts, flow, d), CountsFit(ts, d, unsent)
    PROVE  CountsFit(ts, Tail(d), unsent)
<1> DEFINE q == Tail(d)
           t == d[1].turn
<1>1. /\ q \in Seq(Frames) /\ Head(d) = d[1]
      /\ \A u : Has(q, "start", u) <=> Has(d, "start", u)
  BY HasTail
<1>2. ledger = {}
  BY DEF PlayerFits
<1>3. Good(ts, t) => ~Has(d, "start", t)
  BY PushedTurn
<1> HIDE DEF q
<1>4. ASSUME NEW u \in 1..Len(ts), Good(ts, u)
      PROVE  CountFits(ts, q, unsent, u)
  <2>1. CountFits(ts, d, unsent, u) /\ u \in Nat
    BY <1>4 DEF CountsFit
  <2>2. /\ Count(d, u) = Count(q, u) + IF Chunk(Head(d), u) THEN 1 ELSE 0
        /\ Count(q, u) \in Nat /\ Count(d, u) \in Nat
    BY <1>1, CountTail, CountType DEF q
  <2>3. Has(q, "start", u) => Count(q, u) = Sent(ts, unsent, u)
    <3> SUFFICES ASSUME Has(d, "start", u)
                 PROVE  Count(q, u) = Sent(ts, unsent, u)
      BY <1>1
    <3>1. ~Chunk(Head(d), u)
      BY <1>1, <1>3, <1>4 DEF Chunk
    <3> QED BY <3>1, <2>1, <2>2 DEF CountFits
  <2>4. ~ts[u].begun => Sent(ts, unsent, u) = 0 /\ Count(q, u) = 0
    <3>1. ~ts[u].begun => Sent(ts, unsent, u) = 0 /\ Count(d, u) = 0
      BY <2>1 DEF CountFits
    <3> QED BY <3>1, <2>2
  <2>5. \A i, j \in 1..Len(q) :
            q[i].kind = "start" /\ q[i].turn = u /\ Chunk(q[j], u) => i < j
    BY <2>1, OrderTail DEF CountFits, q
  <2>6. Has(q, "start", u) \/ OpenIn(u) =>
            \A i \in 1..Len(q) : q[i].kind = "audio" /\ q[i].turn > u =>
              \E j \in 1..(i - 1) : q[j].kind = "end" /\ q[j].turn = u
    BY <2>1, <1>1, OrderTail DEF CountFits, q
  <2>7. ~Known(u) =>
            heard[u] = 0 /\ \A i \in 1..Len(ring) : ring[i] # u
    BY <2>1 DEF CountFits
  <2> QED BY <2>3, <2>4, <2>5, <2>6, <2>7, <1>2 DEF CountFits
<1>5. CountsFit(ts, q, unsent)
  BY <1>4 DEF CountsFit
<1> QED BY <1>5 DEF q

\* It goes to the ring, and there is room.
LEMMA RoomStep ==
    ASSUME PlayerFits, ~shut, Len(ring) < Capacity,
           NEW ts \in Seq(TurnStates), Len(ts) <= MaxTurns,
           NEW unsent, NEW flow, NEW d \in Seq(Frames), d # <<>>,
           d[1].kind = "audio", Push(d[1].turn),
           WireFits(ts, d), Follows(ts, flow, d), CountsFit(ts, d, unsent)
    PROVE  /\ PlayerFits' /\ Follows(ts, flow, Tail(d))'
           /\ CountsFit(ts, Tail(d), unsent)'
<1> DEFINE q == Tail(d)
           t == d[1].turn
<1>1. /\ t \in 1..Len(ts) /\ t \in AiTurns
      /\ ~Reported(t) /\ ~ClosedIn(t)
      /\ Good(ts, t) => Known(t) /\ ~Has(d, "start", t)
      /\ \A u : OpenIn(u) /\ Good(ts, u) => u = t
  BY PushedTurn
<1>2. /\ written' = written + 1 /\ ring' = Append(ring, t)
      /\ ledger' = ledger /\ reported' = reported /\ control' = control
      /\ shut' = shut /\ started' = started /\ heard' = heard
  BY DEF Push
<1>3. Writes(ts, d, q, t)
  BY <1>1, <1>2 DEF Writes
<1>4. Follows(ts, flow, q)
  BY FollowsTail
<1> HIDE DEF q, t
<1>5. /\ ClientTypeOK /\ ledger \subseteq Segments /\ written \in Nat
      /\ ring \in Seq(AiTurns) /\ Len(ring) \in Nat /\ Len(ring) <= written
      /\ Past \in Int /\ Past + Len(ring) = written
  <2>1. /\ ClientTypeOK /\ ledger \subseteq Segments /\ written \in Nat
        /\ ring \in Seq(AiTurns) /\ Len(ring) <= written
    BY DEF PlayerFits, ClientTypeOK
  <2>2. Len(ring) \in Nat
    BY <2>1
  <2> QED BY <2>1, <2>2 DEF Past
<1>6. /\ ring' \in Seq(AiTurns) /\ Len(ring') = Len(ring) + 1
      /\ \A i \in 1..Len(ring') :
            \/ i \in 1..Len(ring) /\ ring'[i] = ring[i]
            \/ i = Len(ring) + 1 /\ ring'[i] = t
  BY <1>1, <1>2, <1>5
<1>7. Past' = Past
  BY <1>2, <1>5, <1>6 DEF Past
<1>8. /\ \A u : Reported(u)' <=> Reported(u)
      /\ \A u : InLedger(u)' <=> InLedger(u)
      /\ \A u : ClosedIn(u)' <=> ClosedIn(u)
      /\ \A u : OpenIn(u)' <=> OpenIn(u)
      /\ \A u : Known(u)' <=> Known(u)
  BY <1>2 DEF Reported, InLedger, ClosedIn, OpenIn, Known
<1>9. ClientTypeOK'
  <2>1. Len(ring') <= Capacity
    BY <1>5, <1>6, PlayerBounds
  <2>2. written' \in Nat
    BY <1>2, <1>5
  <2> QED BY <2>1, <2>2, <1>2, <1>5, <1>6 DEF ClientTypeOK
<1>10. \A g \in ledger : /\ g.first \in Nat /\ g.end \in Int
                         /\ g.first <= written /\ (g.end # Open => g.end <= written)
  BY <1>5 DEF PlayerFits, Segments, Open
<1>11. PlayerFits'
  <2>1. Len(ring') <= written'
    BY <1>2, <1>5, <1>6
  <2>2. \A i \in 1..Len(ring') : ~Reported(ring[i])'
    <3> SUFFICES ASSUME NEW i \in 1..Len(ring') PROVE ~Reported(ring[i])'
      OBVIOUS
    <3>1. PICK u : u = ring'[i]
      OBVIOUS
    <3>2. ~Reported(u)
      BY <3>1, <1>1, <1>6 DEF PlayerFits
    <3> QED BY <3>1, <3>2, <1>2 DEF Reported
  <2>3. \A g \in ledger' : ~Reported(g.turn)'
    BY <1>2, <1>8 DEF PlayerFits
  <2>4. \A g, h \in ledger' : g.turn = h.turn => g = h
    BY <1>2 DEF PlayerFits
  <2>5. ledger' # {} => ~shut'
    BY <1>2
  <2>6. \A g \in ledger' : g.first <= written'
    BY <1>2, <1>5, <1>10
  <2>7. \A h \in ledger' : h.end # Open =>
          /\ h.first <= h.end /\ h.end <= written'
          /\ Past' < h.end
          /\ \A i \in 1..Len(ring') : ring'[i] = h.turn => Past' + i <= h.end
    <3> SUFFICES ASSUME NEW h \in ledger, h.end # Open
                 PROVE  /\ h.first <= h.end /\ h.end <= written'
                        /\ Past < h.end
                        /\ \A i \in 1..Len(ring') :
                              ring'[i] = h.turn => Past + i <= h.end
      BY <1>2, <1>7
    <3>1. /\ h.first <= h.end /\ h.end <= written /\ Past < h.end
          /\ \A i \in 1..Len(ring) : ring[i] = h.turn => Past + i <= h.end
      BY DEF PlayerFits
    <3>2. h.turn # t
      BY <1>1 DEF ClosedIn
    <3>3. h.end <= written'
      BY <3>1, <1>2, <1>5, <1>10
    <3> QED BY <3>1, <3>2, <3>3, <1>6
  <2>8. ~started' => \A h \in ledger' :
          \/ Len(ring') >= Preroll
          \/ h.end = Open /\ written' - h.first <= Len(ring')
    <3> SUFFICES ASSUME ~started, NEW h \in ledger
                 PROVE  \/ Len(ring') >= Preroll
                        \/ h.end = Open /\ written' - h.first <= Len(ring')
      BY <1>2
    <3>1. \/ Len(ring) >= Preroll
          \/ h.end = Open /\ written - h.first <= Len(ring)
      BY DEF PlayerFits
    <3> QED BY <3>1, <1>2, <1>5, <1>6, <1>10, PlayerBounds
  <2> QED BY <2>1, <2>2, <2>3, <2>4, <2>5, <2>6, <2>7, <2>8, <1>9 DEF PlayerFits
<1>12. Follows(ts, flow, q)'
  BY <1>2, <1>4 DEF Follows, Known, Reported, InLedger, ClosedIn, Has, Begun
<1>13. CountsFit(ts, q, unsent)'
  <2>1. ASSUME NEW u \in 1..Len(ts), Good(ts, u)
        PROVE  CountFits(ts, q, unsent, u)'
    <3>1. CountFits(ts, d, unsent, u)
      BY <2>1 DEF CountsFit
    <3>2. /\ Has(q, "start", u) <=> Has(d, "start", u)
          /\ Count(q, u) \in Nat /\ Count(d, u) \in Nat
          /\ Count(d, u) = Count(q, u) + IF u = t THEN written' - written ELSE 0
          /\ t = u => ~Has(d, "start", u)
          /\ StartsFirst(d, u) => StartsFirst(q, u)
          /\ EndsFirst(d, u) => EndsFirst(q, u)
      BY <1>3, <1>5, <2>1, WrittenFrames
    <3>3. \A i, j \in 1..Len(q) :
             q[i].kind = "start" /\ q[i].turn = u /\ Chunk(q[j], u) => i < j
      BY <3>1, <3>2 DEF CountFits, StartsFirst
    <3>4. Has(q, "start", u) \/ OpenIn(u)' =>
             \A i \in 1..Len(q) : q[i].kind = "audio" /\ q[i].turn > u =>
                \E j \in 1..(i - 1) : q[j].kind = "end" /\ q[j].turn = u
      <4>1. Has(d, "start", u) \/ OpenIn(u) => EndsFirst(d, u)
        BY <3>1 DEF CountFits, EndsFirst
      <4> QED BY <4>1, <3>2, <1>8 DEF EndsFirst
    <3>5. Has(q, "start", u) => Count(q, u) = Sent(ts, unsent, u)
      <4>1. Has(d, "start", u) => Count(d, u) = Sent(ts, unsent, u) /\ u # t
        BY <3>1, <3>2 DEF CountFits
      <4> QED BY <4>1, <3>2
    <3>6. ~ts[u].begun => Sent(ts, unsent, u) = 0 /\ Count(q, u) = 0
      <4>1. ~ts[u].begun => Sent(ts, unsent, u) = 0 /\ Count(d, u) = 0
        BY <3>1 DEF CountFits
      <4> QED BY <4>1, <3>2, <1>2, <1>5
    <3>7. ~Known(u)' =>
             heard'[u] = 0 /\ \A i \in 1..Len(ring') : ring'[i] # u
      <4>1. ~Known(u) => heard[u] = 0 /\ \A i \in 1..Len(ring) : ring[i] # u
        BY <3>1 DEF CountFits
      <4> QED BY <4>1, <2>1, <1>1, <1>2, <1>6, <1>8
    <3>8. ASSUME NEW h \in ledger', h.turn = u
          PROVE  /\ IF h.end = Open
                    THEN written' - h.first + Count(q, u) = Sent(ts, unsent, u)
                    ELSE h.end - h.first = Sent(ts, unsent, u)
                 /\ \A i \in 1..Len(ring') :
                       ring'[i] = u <=> /\ h.first < Past' + i
                                        /\ h.end # Open => Past' + i <= h.end
                 /\ ~h.tainted => heard'[u] =
                       IF h.first <= Past' THEN Past' - h.first ELSE 0
      <4>1. /\ h \in ledger /\ h.first \in Nat /\ h.end \in Int
            /\ h.first <= written /\ (h.end # Open => h.end <= written)
        BY <3>8, <1>2, <1>10
      <4>2. /\ IF h.end = Open
               THEN written - h.first + Count(d, u) = Sent(ts, unsent, u)
               ELSE h.end - h.first = Sent(ts, unsent, u)
            /\ \A i \in 1..Len(ring) :
                  ring[i] = u <=> /\ h.first < Past + i
                                  /\ h.end # Open => Past + i <= h.end
            /\ ~h.tainted =>
                  heard[u] = IF h.first <= Past THEN Past - h.first ELSE 0
        BY <4>1, <3>1, <3>8 DEF CountFits
      <4>3. h.end = Open <=> u = t
        <5>1. h.end = Open => u = t
          BY <4>1, <3>8, <2>1, <1>1 DEF OpenIn
        <5>2. h.end # Open => u # t
          BY <4>1, <3>8, <1>1 DEF ClosedIn
        <5> QED BY <5>1, <5>2
      <4>4. IF h.end = Open
            THEN written' - h.first + Count(q, u) = Sent(ts, unsent, u)
            ELSE h.end - h.first = Sent(ts, unsent, u)
        <5>1. CASE h.end = Open
          <6>1. written - h.first + Count(d, u)
                   = written' - h.first + Count(q, u)
            <7>1. written' = written + 1
              BY <1>2
            <7>2. Count(d, u) = Count(q, u) + (written' - written)
              BY <5>1, <4>3, <3>2
            <7>3. Count(q, u) \in Int
              BY <3>2
            <7>4. written \in Int /\ written' \in Int /\ h.first \in Int
              BY <7>1, <4>1, <1>5
            <7>5. Count(d, u) \in Int
              BY <3>2
            <7> HIDE DEF Count
            <7> QED BY <7>2, <7>3, <7>4, <7>5
          <6> QED BY <5>1, <6>1, <4>2
        <5>2. CASE h.end # Open
          BY <5>2, <4>2
        <5> QED BY <5>1, <5>2
      <4>5. ASSUME NEW i \in 1..Len(ring')
            PROVE  ring'[i] = u <=> /\ h.first < Past' + i
                                    /\ h.end # Open => Past' + i <= h.end
        <5>1. CASE i \in 1..Len(ring) /\ ring'[i] = ring[i]
          BY <5>1, <4>2, <1>7
        <5>2. CASE i = Len(ring) + 1 /\ ring'[i] = t
          <6>1. Past' + i = written + 1
            BY <5>2, <1>5, <1>7
          <6> QED BY <5>2, <6>1, <4>1, <4>3, <1>5
        <5> QED BY <5>1, <5>2, <1>6
      <4> QED BY <4>2, <4>4, <4>5, <1>2, <1>7
    <3> QED BY <3>3, <3>4, <3>5, <3>6, <3>7, <3>8 DEF CountFits, Has
  <2>2. \A u \in AiTurns : reported'[u] = "played" =>
          /\ u \in 1..Len(ts) /\ ts[u].done = "full"
          /\ Clean(ts, u) => heard'[u] = ts[u].made
    BY <1>2 DEF CountsFit
  <2>3. \A u \in AiTurns : u > Len(ts) =>
          heard'[u] = 0 /\ \A i \in 1..Len(ring') : ring'[i] # u
    <3> SUFFICES ASSUME NEW u \in AiTurns, u > Len(ts)
                 PROVE  heard[u] = 0 /\ \A i \in 1..Len(ring') : ring'[i] # u
      BY <1>2
    <3>1. heard[u] = 0 /\ (\A i \in 1..Len(ring) : ring[i] # u) /\ u # t
      BY <1>1 DEF CountsFit
    <3> QED BY <3>1, <1>6
  <2> QED BY <2>1, <2>2, <2>3 DEF CountsFit
<1> QED BY <1>11, <1>12, <1>13 DEF q

-------------------------------------------------------------------------------
(* A chunk arrives, and the oldest is dropped                                *)

\* It goes to the ring, and the oldest chunk is dropped.
LEMMA DropStep ==
    ASSUME PlayerFits, ~shut, ~(Len(ring) < Capacity),
           NEW ts \in Seq(TurnStates), Len(ts) <= MaxTurns,
           NEW unsent, NEW flow, NEW d \in Seq(Frames), d # <<>>,
           d[1].kind = "audio", Push(d[1].turn),
           WireFits(ts, d), Follows(ts, flow, d), CountsFit(ts, d, unsent),
           flow = Nil \/ ts[flow].done = "no",
           \A u \in 1..Len(ts) : ts[u].done = "full" => ~ts[u].failed,
           Len(ts) > 0 /\ ts[Len(ts)].done = "full" => unsent = 0
    PROVE  /\ PlayerFits' /\ Follows(ts, flow, Tail(d))'
           /\ CountsFit(ts, Tail(d), unsent)'
<1> DEFINE q == Tail(d)
           t == d[1].turn
<1>1. /\ t \in 1..Len(ts) /\ t \in AiTurns
      /\ ~Reported(t) /\ ~ClosedIn(t)
      /\ Good(ts, t) => Known(t) /\ ~Has(d, "start", t)
      /\ \A u : OpenIn(u) /\ Good(ts, u) => u = t
  BY PushedTurn
<1>2. PICK at : at = Position(Append(ring, t), written + 1)
  OBVIOUS
<1>3. PICK segs : segs = {Tainted(s, at) : s \in ledger}
  OBVIOUS
<1>4. /\ written' = written + 1 /\ ring' = Tail(Append(ring, t))
      /\ CheckCompletions(segs, at + 1) /\ control' = control
      /\ shut' = shut /\ started' = started /\ heard' = heard
  BY <1>2, <1>3 DEF Push, DropOldest
<1>5. Writes(ts, d, q, t)
  BY <1>1, <1>4 DEF Writes
<1>6. Follows(ts, flow, q)
  BY FollowsTail
<1> HIDE DEF q, t
<1>7. /\ ClientTypeOK /\ ledger \subseteq Segments /\ written \in Nat
      /\ ring \in Seq(AiTurns) /\ Len(ring) \in Nat /\ Len(ring) <= written
      /\ Len(ring) <= Capacity
      /\ Past \in Int /\ Past + Len(ring) = written
      /\ heard \in [AiTurns -> Nat]
  BY DEF PlayerFits, ClientTypeOK, Past
<1>8. /\ ring' \in Seq(AiTurns) /\ Len(ring') = Len(ring)
      /\ \A i \in 1..Len(ring') :
            \/ i + 1 \in 1..Len(ring) /\ ring'[i] = ring[i + 1]
            \/ i = Len(ring) /\ ring'[i] = t
  <2>1. PICK x : x = Append(ring, t)
    OBVIOUS
  <2>2. /\ x \in Seq(AiTurns) /\ Len(x) = Len(ring) + 1
        /\ \A i \in 1..Len(ring) : x[i] = ring[i]
        /\ x[Len(ring) + 1] = t
    BY <2>1, <1>1, <1>7
  <2>3. /\ Tail(x) \in Seq(AiTurns) /\ Len(Tail(x)) = Len(ring)
        /\ \A i \in 1..Len(ring) : Tail(x)[i] = x[i + 1]
    BY <2>2, <1>7
  <2>4. ring' = Tail(x)
    BY <2>1, <1>4
  <2>5. ASSUME NEW i \in 1..Len(ring)
        PROVE  \/ i + 1 \in 1..Len(ring) /\ Tail(x)[i] = ring[i + 1]
               \/ i = Len(ring) /\ Tail(x)[i] = t
    <3>1. CASE i = Len(ring)
      <4>1. Tail(x)[i] = x[Len(ring) + 1]
        BY <3>1, <2>3
      <4> QED BY <3>1, <4>1, <2>2
    <3>2. CASE i # Len(ring)
      <4> HIDE DEF t
      <4>1. i + 1 \in 1..Len(ring)
        <5>1. Len(ring) \in Nat
          BY <1>7
        <5> QED BY <5>1, <3>2
      <4>2. Tail(x)[i] = x[i + 1] /\ x[i + 1] = ring[i + 1]
        BY <4>1, <2>2, <2>3
      <4> QED BY <4>1, <4>2
    <3> QED BY <3>1, <3>2
  <2> QED BY <2>3, <2>4, <2>5
<1>25. /\ written' = written + 1 /\ Len(ring') = Len(ring)
       /\ written \in Nat /\ Len(ring) \in Nat /\ Len(ring) <= written
       /\ Len(ring) <= Capacity /\ ~(Len(ring) < Capacity)
       /\ Past \in Int /\ Past = written - Len(ring)
  <2>1. Past = written - Len(ring)
    BY DEF Past
  <2> QED BY <2>1, <1>4, <1>7, <1>8
<1>9. at = Past /\ at \in Int
  <2>1. Len(Append(ring, t)) = Len(ring) + 1
    BY <1>7
  <2> QED BY <2>1, <1>2, <1>7 DEF Position
<1>10. Past' = Past + 1
  <2>1. Past' = written' - Len(ring')
    BY DEF Past
  <2> QED BY <2>1, <1>25
<1>11. \A g \in ledger :
          /\ MarkedAs(g, Tainted(g, at)) /\ Tainted(g, at).turn = g.turn
          /\ ~Tainted(g, at).tainted =>
                ~(g.first <= at /\ (g.end = Open \/ at < g.end))
  BY <1>7, <1>9, TaintedSegment
<1>12. \A g, h \in ledger : g.turn = h.turn => g = h
  BY DEF PlayerFits
<1>13. Passes(segs)
  <2>1. \A g \in ledger : \E h \in segs : MarkedAs(g, h)
    BY <1>3, <1>11
  <2>2. \A h \in segs : \E g \in ledger : MarkedAs(g, h)
    BY <1>3, <1>11
  <2>3. \A g, h \in segs : g.turn = h.turn => g = h
    BY <1>3, <1>11, <1>12
  <2> QED BY <2>1, <2>2, <2>3, <1>4, <1>9 DEF Passes
<1>14. ClientTypeOK'
  <2>1. reported' \in [AiTurns -> {"no", "played", "aborted"}]
        /\ ledger' \subseteq Segments
    BY <1>13, PassedSegments
  <2>2. /\ control' \in [turn : AiTurns \cup {Nil}, pause : Nat, last : Nat]
        /\ shut' \in BOOLEAN /\ started' \in BOOLEAN
    BY <1>4, <1>7 DEF ClientTypeOK
  <2>3. written' \in Nat /\ Len(ring') <= Capacity /\ heard' \in [AiTurns -> Nat]
    BY <1>4, <1>7, <1>25
  <2> QED BY <2>1, <2>2, <2>3, <1>8 DEF ClientTypeOK
<1>15. RingMoves(t)
  <2>1. \A i \in 1..Len(ring') : i = Len(ring) => Past + 1 + i = written'
    BY <1>25
  <2> QED BY <2>1, <1>8 DEF RingMoves
<1>16. PlayerFits'
  <2>1. Len(ring') <= written' /\ written <= written'
    BY <1>25
  <2>2. started' \/ (~started /\ Len(ring') >= Preroll)
    BY <1>4, <1>25, PlayerBounds
  <2> QED BY <2>1, <2>2, <1>1, <1>4, <1>10, <1>13, <1>14, <1>15, PassedPlayer
<1>17. Follows(ts, flow, q)'
  BY <1>4, <1>6, <1>13, PassedFollows
<1>18. \A u \in AiTurns : heard'[u] = heard[u]
  BY <1>4
<1>19. ASSUME NEW g \in ledger, NEW h \in segs, MarkedAs(g, h), ~h.tainted
       PROVE  heard'[g.turn] =
                 heard[g.turn] + IF g.first <= Past THEN 1 ELSE 0
  <2>1. PICK x \in ledger : h = Tainted(x, at)
    BY <1>3
  <2>2. x = g
    BY <2>1, <1>11, <1>12, <1>19 DEF MarkedAs
  <2>3. ~(g.first <= at /\ (g.end = Open \/ at < g.end))
    BY <2>1, <2>2, <1>11, <1>19
  <2>4. g.end # Open => Past < g.end
    BY DEF PlayerFits
  <2>5. ~(g.first <= Past)
    BY <2>3, <2>4, <1>9
  <2>6. heard[g.turn] \in Nat
    BY <1>7 DEF Segments
  <2> QED BY <2>5, <2>6, <1>4
<1>20. CountsFit(ts, q, unsent)'
  BY <1>5, <1>10, <1>13, <1>14, <1>15, <1>18, <1>19, PassedCounts
<1> QED BY <1>16, <1>17, <1>20 DEF q

-------------------------------------------------------------------------------
(* A frame arrives                                                           *)

\* What lifts the pause of the player is still on its way.
LEMMA FreezeStep ==
    ASSUME PlayerFits, NEW d \in Seq(Frames), d # <<>>, Receive(d[1]),
           NEW m, NEW o, PausesLifted(m, o, d), FreezeLifted(m, o, d)
    PROVE  FreezeLifted(m, o, Tail(d))'
<1> DEFINE q == Tail(d)
<1>1. /\ d[1] \in Frames
      /\ d[1].kind = "pause" =>
            \/ HeldPause(m, o, d[1].turn, d[1].pause)
            \/ \E j \in 1..Len(q) : LiftsPause(q[j], d[1].turn, d[1].pause)
      /\ \/ LiftsPause(d[1], control.turn, control.pause)
         \/ FreezeLifted(m, o, q)
  BY HasTail, PausesTail
<1> SUFFICES FreezeLifted(m, o, q)'
  OBVIOUS
<1> HIDE DEF q
<1>2. control \in [turn : AiTurns \cup {Nil}, pause : Nat, last : Nat]
  BY DEF PlayerFits, ClientTypeOK
<1>3. ASSUME control' = control, ~LiftsPause(d[1], control.turn, control.pause)
      PROVE  FreezeLifted(m, o, q)'
  BY <1>1, <1>3 DEF FreezeLifted, Frozen
<1>4. ASSUME control'.pause = Nil PROVE FreezeLifted(m, o, q)'
  BY <1>4 DEF FreezeLifted, Frozen
<1>5. NoControl.pause = Nil /\ \A t : [NoControl EXCEPT !.turn = t].pause = Nil
  BY DEF NoControl
<1>6. CASE d[1].kind = "start"
  <2>1. control' = IF d[1].turn > control.turn
                   THEN [NoControl EXCEPT !.turn = d[1].turn] ELSE control
    BY <1>6 DEF Receive, AudioStart
  <2> QED BY <2>1, <1>3, <1>4, <1>5, <1>6 DEF LiftsPause
<1>7. CASE d[1].kind = "audio"
  <2>1. control' = control
    BY <1>7 DEF Receive, Push
  <2> QED BY <2>1, <1>3, <1>7 DEF LiftsPause
<1>8. CASE d[1].kind = "end"
  <2>1. control' = IF d[1].turn = control.turn THEN NoControl ELSE control
    BY <1>8 DEF Receive, AudioEnd
  <2> QED BY <2>1, <1>3, <1>4, <1>5, <1>8 DEF LiftsPause
<1>9. CASE d[1].kind = "pause"
  <2>1. control' = IF Taken(d[1].turn, d[1].pause)
                   THEN [control EXCEPT !.pause = d[1].pause,
                                        !.last = d[1].pause]
                   ELSE control
    BY <1>9 DEF Receive, PauseTurn
  <2>2. CASE Taken(d[1].turn, d[1].pause)
    <3>1. control'.turn = d[1].turn /\ control'.pause = d[1].pause
      BY <2>1, <2>2, <1>2 DEF Taken
    <3> QED BY <3>1, <1>1, <1>9 DEF FreezeLifted
  <2>3. CASE ~Taken(d[1].turn, d[1].pause)
    BY <2>1, <2>3, <1>3, <1>9 DEF LiftsPause
  <2> QED BY <2>2, <2>3
<1>10. CASE d[1].kind = "resume"
  <2>1. control' = IF control.turn = d[1].turn /\ control.pause = d[1].pause
                   THEN [control EXCEPT !.pause = Nil] ELSE control
    BY <1>10 DEF Receive, ResumeTurn
  <2>2. [control EXCEPT !.pause = Nil].pause = Nil
    BY <1>2
  <2> QED BY <2>1, <2>2, <1>3, <1>4, <1>10 DEF LiftsPause
<1>11. CASE d[1].kind \in {"barge_in", "superseded"}
  <2>1. control' = NoControl
    BY <1>11 DEF Receive, Flush
  <2> QED BY <2>1, <1>4, <1>5
<1>12. d[1].kind \in TurnKinds \cup OtherKinds
  BY <1>1 DEF Frames
<1> QED BY <1>6, <1>7, <1>8, <1>9, <1>10, <1>11, <1>12
        DEF TurnKinds, OtherKinds

\* A pause and the end of it stop the sound, and nothing else.
LEMMA HoldStep ==
    ASSUME PlayerFits, NEW f \in Frames,
           PauseTurn(f.turn, f.pause) \/ ResumeTurn(f.turn, f.pause)
    PROVE  Still /\ PlayerFits'
<1>1. Still
  BY DEF PauseTurn, ResumeTurn, Still
<1>2. control \in [turn : AiTurns \cup {Nil}, pause : Nat, last : Nat]
      /\ f.pause \in Nat /\ Nil \in Nat
  BY DEF PlayerFits, ClientTypeOK, Frames, Nil
<1>3. \/ control' = control
      \/ control' = [control EXCEPT !.pause = f.pause, !.last = f.pause]
      \/ control' = [control EXCEPT !.pause = Nil]
  BY DEF PauseTurn, ResumeTurn
<1>4. control' \in [turn : AiTurns \cup {Nil}, pause : Nat, last : Nat]
  <2>1. [control EXCEPT !.pause = f.pause, !.last = f.pause]
           \in [turn : AiTurns \cup {Nil}, pause : Nat, last : Nat]
    BY <1>2
  <2>2. [control EXCEPT !.pause = Nil]
           \in [turn : AiTurns \cup {Nil}, pause : Nat, last : Nat]
    BY <1>2
  <2> QED BY <2>1, <2>2, <1>2, <1>3
<1> QED BY <1>1, <1>4, StillPlayer

\* Whatever the first frame is, the player takes it as the counts say.
LEMMA ReceiveStep ==
    ASSUME PlayerFits,
           NEW ts \in Seq(TurnStates), Len(ts) <= MaxTurns,
           NEW unsent, NEW flow, NEW d \in Seq(Frames), d # <<>>,
           Receive(d[1]),
           WireFits(ts, d), Follows(ts, flow, d), CountsFit(ts, d, unsent),
           flow = Nil \/ ts[flow].done = "no",
           \A u \in 1..Len(ts) : ts[u].done = "full" => ~ts[u].failed,
           Len(ts) > 0 /\ ts[Len(ts)].done = "full" => unsent = 0
    PROVE  /\ PlayerFits' /\ Follows(ts, flow, Tail(d))'
           /\ CountsFit(ts, Tail(d), unsent)'
<1>1. d[1] \in Frames
  BY HasTail
<1>2. CASE d[1].kind = "start"
  <2>1. AudioStart(d[1].turn)
    BY <1>2 DEF Receive
  <2> QED BY <2>1, <1>2, StartStep
<1>3. CASE d[1].kind = "audio"
  <2>1. Push(d[1].turn)
    BY <1>3 DEF Receive
  <2>2. CASE shut
    <3>1. Still /\ control' = control
      BY <2>1, <2>2 DEF Push, Still
    <3>2. PlayerFits'
      BY <3>1, StillPlayer DEF PlayerFits, ClientTypeOK
    <3>3. Follows(ts, flow, Tail(d))
      BY <1>3, FollowsTail
    <3>4. CountsFit(ts, Tail(d), unsent)
      BY <2>2, <1>3, RefusedStep
    <3>5. Follows(ts, flow, Tail(d))'
      BY <3>1, <3>3, StillFollows
    <3>6. CountsFit(ts, Tail(d), unsent)'
      BY <3>1, <3>4, StillCounts
    <3> QED BY <3>2, <3>5, <3>6
  <2>3. CASE ~shut /\ Len(ring) < Capacity
    BY <2>1, <2>3, <1>3, RoomStep
  <2>4. CASE ~shut /\ ~(Len(ring) < Capacity)
    BY <2>1, <2>4, <1>3, DropStep
  <2> QED BY <2>2, <2>3, <2>4
<1>4. CASE d[1].kind = "end"
  <2>1. AudioEnd(d[1].turn)
    BY <1>4 DEF Receive
  <2> QED BY <2>1, <1>4, StopStep
<1>5. CASE d[1].kind \in OtherKinds
  <2>1. Follows(ts, flow, Tail(d))
    BY <1>5, FollowsTail DEF OtherKinds
  <2>2. CountsFit(ts, Tail(d), unsent)
    BY <1>5, CountsTail
  <2>3. CASE d[1].kind \in {"pause", "resume"}
    <3>1. \/ PauseTurn(d[1].turn, d[1].pause)
          \/ ResumeTurn(d[1].turn, d[1].pause)
      BY <2>3 DEF Receive
    <3>2. Still /\ PlayerFits'
      BY <3>1, <1>1, HoldStep
    <3>3. Follows(ts, flow, Tail(d))'
      BY <3>2, <2>1, StillFollows
    <3>4. CountsFit(ts, Tail(d), unsent)'
      BY <3>2, <2>2, StillCounts
    <3> QED BY <3>2, <3>3, <3>4
  <2>4. CASE d[1].kind \in {"barge_in", "superseded"}
    <3>1. Flush
      BY <2>4 DEF Receive
    <3> QED BY <3>1, <2>1, <2>2, FlushStep
  <2> QED BY <2>3, <2>4, <1>5 DEF OtherKinds
<1> QED BY <1>1, <1>2, <1>3, <1>4, <1>5 DEF Frames, TurnKinds

-------------------------------------------------------------------------------
(* Each action                                                               *)

\* What the invariant says of the server, as a value.
LEMMA ServerFields ==
    ASSUME LoopInv, NEW s, s = Server
    PROVE  /\ Safe(s) /\ PlayerFits /\ s \in Servers
           /\ s.e = engine /\ s.m = media /\ s.o = dropped /\ s.d = down
<1>1. Safe(s) /\ PlayerFits
  BY DEF LoopInv, Safe
<1>2. s \in Servers
  BY <1>1 DEF Safe, Fits
<1> QED BY <1>1, <1>2 DEF Server

\* Interruption: a tentative pause, or a takeover where nothing was announced.
LEMMA PauseBegins ==
    ASSUME LoopInv, Interruption
    PROVE  LoopInv' /\ media'.asked = media.asked
<1>1. PICK s : s = Server
  OBVIOUS
<1>2. PICK r : r = BeginTentativePause(s)
  OBVIOUS
<1>3. /\ Safe(s) /\ PlayerFits /\ s.m = media
  BY <1>1, ServerFields
<1>4. s.m.speaking /\ ~s.m.pausing
  BY <1>3 DEF Interruption, Speaking
<1>5. Safe(r) /\ r.m.asked = s.m.asked
  <2>1. /\ Safe(OnBargeIn(s)) /\ OnBargeIn(s).m.asked = s.m.asked
        /\ Safe(Pause(s)) /\ Pause(s).m.asked = s.m.asked
    BY <1>3, <1>4, OnBargeInStep, PauseStep DEF Safe
  <2> QED BY <1>2, <2>1 DEF BeginTentativePause
<1>6. Becomes(r) /\ UNCHANGED clientVars
  BY <1>1, <1>2 DEF Interruption
<1> QED BY <1>3, <1>5, <1>6, ServerMoves DEF Becomes

\* FinalInterruption, TakeOver and Interrupt.
LEMMA BargeIns ==
    ASSUME LoopInv, FinalInterruption \/ TakeOver \/ Interrupt
    PROVE  LoopInv' /\ media'.asked = media.asked
<1>1. PICK s : s = Server
  OBVIOUS
<1>2. PICK r : r = IF media.speaking THEN OnBargeIn(s) ELSE s
  OBVIOUS
<1>3. /\ Safe(s) /\ PlayerFits /\ s.m = media
  BY <1>1, ServerFields
<1>4. Safe(r) /\ r.m.asked = s.m.asked
  <2>1. CASE media.speaking
    <3>1. Safe(OnBargeIn(s)) /\ OnBargeIn(s).m.asked = s.m.asked
      BY <1>3, <2>1, OnBargeInStep DEF Safe
    <3> QED BY <1>2, <2>1, <3>1
  <2>2. CASE ~media.speaking
    BY <1>2, <1>3, <2>2
  <2> QED BY <2>1, <2>2
<1>5. Becomes(r) /\ UNCHANGED clientVars
  BY <1>1, <1>2 DEF FinalInterruption, TakeOver, Interrupt, Speaking
<1> QED BY <1>3, <1>4, <1>5, ServerMoves DEF Becomes

\* Steps of the media session that leave the pause and the flow alone.
LEMMA MediaMoves ==
    ASSUME LoopInv, UNCHANGED <<clientVars, engine, dropped, down>>,
           NEW m \in Medias, media' = m, VerdictFits(m),
           m.flow = media.flow, m.retired = media.retired,
           m.pending = media.pending, m.pausing = media.pausing,
           m.paused = media.paused, m.pauses = media.pauses
    PROVE  LoopInv'
<1>1. PICK s : s = Server
  OBVIOUS
<1>2. /\ Safe(s) /\ PlayerFits /\ s \in Servers
      /\ s.e = engine /\ s.m = media /\ s.o = dropped /\ s.d = down
  BY <1>1, ServerFields
<1>3. PICK r : r = [e |-> s.e, m |-> m, o |-> s.o, d |-> s.d]
  OBVIOUS
<1>4. r \in Servers /\ r.m = m /\ r.e = s.e /\ r.o = s.o /\ r.d = s.d
  BY <1>2, <1>3 DEF Servers
<1>5. Safe(r)
  BY <1>2, <1>4, MediaStep DEF SameFlow
<1>6. Becomes(r)
  BY <1>2, <1>4 DEF Becomes
<1> QED BY <1>2, <1>5, <1>6, ServerMoves DEF clientVars

\* The type of the media session, and what its question is about.
LEMMA MediaOfInv ==
    ASSUME LoopInv
    PROVE  media \in Medias /\ VerdictFits(media)
<1>1. PICK s : s = Server
  OBVIOUS
<1>2. /\ Safe(s) /\ s \in Servers /\ s.m = media
  BY <1>1, ServerFields
<1>3. s.m \in Medias
  BY <1>2 DEF Servers
<1> QED BY <1>2, <1>3 DEF Safe, PauseInv

\* VerifySpeaker and Watchdog.
LEMMA Asks ==
    ASSUME LoopInv, VerifySpeaker \/ Watchdog
    PROVE  LoopInv'
<1>1. media \in Medias /\ VerdictFits(media)
  BY MediaOfInv
<1>2. CASE VerifySpeaker
  <2>1. PICK m : m = [media EXCEPT !.checked = TRUE, !.checking = TRUE,
                                   !.asked = media.pauses]
    OBVIOUS
  <2>2. /\ m \in Medias /\ m.asked = media.pauses /\ m.pausing = media.pausing
        /\ m.flow = media.flow /\ m.retired = media.retired
        /\ m.pending = media.pending /\ m.paused = media.paused
        /\ m.pauses = media.pauses
    BY <1>1, <2>1, Zenon DEF Medias
  <2>3. media.pausing
    BY <1>2 DEF VerifySpeaker
  <2>4. VerdictFits(m)
    BY <2>2, <2>3 DEF VerdictFits
  <2>5. media' = m /\ UNCHANGED <<clientVars, engine, dropped, down>>
    BY <1>2, <2>1 DEF VerifySpeaker
  <2> QED BY <2>2, <2>4, <2>5, MediaMoves
<1>3. CASE Watchdog
  <2>1. PICK m : m = [media EXCEPT !.speaking = FALSE]
    OBVIOUS
  <2>2. /\ m \in Medias /\ m.asked = media.asked /\ m.pausing = media.pausing
        /\ m.flow = media.flow /\ m.retired = media.retired
        /\ m.pending = media.pending /\ m.paused = media.paused
        /\ m.pauses = media.pauses /\ m.checking = media.checking
    BY <1>1, <2>1, Zenon DEF Medias
  <2>4. VerdictFits(m)
    BY <1>1, <2>2 DEF VerdictFits
  <2>5. media' = m /\ UNCHANGED <<clientVars, engine, dropped, down>>
    BY <1>3, <2>1 DEF Watchdog
  <2> QED BY <2>2, <2>4, <2>5, MediaMoves
<1> QED BY <1>2, <1>3

\* OnSpeakerVerdict: takes over, resumes or changes nothing.
LEMMA Verdicts ==
    ASSUME LoopInv, NEW verdict, OnSpeakerVerdict(verdict)
    PROVE  LoopInv'
<1>1. PICK s : s = Server
  OBVIOUS
<1>2. /\ Safe(s) /\ PlayerFits /\ s \in Servers
      /\ s.e = engine /\ s.m = media /\ s.o = dropped /\ s.d = down
  BY <1>1, ServerFields
<1>3. PICK q : q = [s EXCEPT !.m.asked = Nil]
  OBVIOUS
<1>4. PICK c : c = [q EXCEPT !.m.checking = FALSE]
  OBVIOUS
<1>0. Nil \in Nat
  BY DEF Nil
<1>5. /\ q \in Servers /\ q.e = s.e /\ q.o = s.o /\ q.d = s.d /\ SameFlow(s, q)
      /\ q.m.pausing = s.m.pausing /\ q.m.paused = s.m.paused
      /\ q.m.pauses = s.m.pauses /\ q.m.asked = Nil
  BY <1>0, <1>2, <1>3, Zenon DEF Servers, Medias, SameFlow
<1>6. Safe(q)
  BY <1>2, <1>5, MediaStep DEF VerdictFits
<1>7. /\ c \in Servers /\ c.e = q.e /\ c.o = q.o /\ c.d = q.d /\ SameFlow(q, c)
      /\ c.m.pausing = q.m.pausing /\ c.m.paused = q.m.paused
      /\ c.m.pauses = q.m.pauses /\ c.m.asked = Nil
  BY <1>4, <1>5, Zenon DEF Servers, Medias, SameFlow
<1>8. Safe(c)
  BY <1>6, <1>7, MediaStep DEF VerdictFits
<1>9. Safe(OnBargeIn(q))
  BY <1>5, <1>6, OnBargeInStep DEF Safe
<1>10. Safe(Resume(q))
  BY <1>2, <1>6, ResumeStep DEF Safe
<1>11. UNCHANGED clientVars
  BY DEF OnSpeakerVerdict
<1>12. Becomes(q) \/ Becomes(OnBargeIn(q)) \/ Becomes(Resume(q)) \/ Becomes(c)
  BY <1>1, <1>3, <1>4 DEF OnSpeakerVerdict
<1>13. PICK r : Becomes(r) /\ r \in {q, OnBargeIn(q), Resume(q), c}
  BY <1>12
<1> QED BY <1>2, <1>6, <1>8, <1>9, <1>10, <1>11, <1>13, ServerMoves

\* RecoveryElapsed.
LEMMA Resumes ==
    ASSUME LoopInv, RecoveryElapsed
    PROVE  LoopInv' /\ media'.asked = media.asked
<1>1. PICK s : s = Server
  OBVIOUS
<1>2. PICK r : r = Resume(s)
  OBVIOUS
<1>3. Safe(s) /\ PlayerFits /\ s.m = media
  BY <1>1, ServerFields
<1>4. Safe(r) /\ r.m.asked = s.m.asked
  BY <1>2, <1>3, ResumeStep DEF Safe
<1>5. Becomes(r) /\ UNCHANGED clientVars
  BY <1>1, <1>2 DEF RecoveryElapsed
<1> QED BY <1>3, <1>4, <1>5, ServerMoves DEF Becomes

\* TurnEnd, with words or without.
LEMMA TurnsEnd ==
    ASSUME LoopInv, NEW text \in BOOLEAN, TurnEnd(text)
    PROVE  LoopInv' /\ media'.asked = media.asked
<1>1. PICK s : s = Server
  OBVIOUS
<1>2. PICK r : r = Answer(ResetTurn(PauseDropped(
                   [s EXCEPT !.e.interrupted = FALSE, !.e.text = text])))
  OBVIOUS
<1>3. Safe(s) /\ PlayerFits /\ s.m = media
  BY <1>1, ServerFields
<1>4. Safe(r) /\ r.m.asked = s.m.asked
  BY <1>2, <1>3, TurnEndStep
<1>5. Becomes(r) /\ UNCHANGED clientVars
  BY <1>1, <1>2 DEF TurnEnd
<1> QED BY <1>3, <1>4, <1>5, ServerMoves DEF Becomes

\* SystemTurn.
LEMMA TurnsBegin ==
    ASSUME LoopInv, SystemTurn
    PROVE  LoopInv' /\ media'.asked = media.asked
<1>1. PICK s : s = Server
  OBVIOUS
<1>2. PICK r : r = NewTurn(s, FALSE)
  OBVIOUS
<1>3. Safe(s) /\ PlayerFits /\ s.e = engine /\ s.m = media
  BY <1>1, ServerFields
<1>4. Safe(r) /\ r.m.asked = s.m.asked
  BY <1>2, <1>3, SystemTurnStep DEF SystemTurn
<1>5. Becomes(r) /\ UNCHANGED clientVars
  BY <1>1, <1>2 DEF SystemTurn
<1> QED BY <1>3, <1>4, <1>5, ServerMoves DEF Becomes

\* Say.
LEMMA Sentences ==
    ASSUME LoopInv, Say
    PROVE  LoopInv' /\ media'.asked = media.asked
<1>1. PICK s : s = Server
  OBVIOUS
<1>2. PICK r : r = [s EXCEPT !.e.said = @ + 1,
                             !.e.jobs = Append(@, [turn |-> s.e.active,
                                                   spoken |-> FALSE])]
  OBVIOUS
<1>3. /\ Safe(s) /\ PlayerFits /\ s \in Servers
      /\ s.e = engine /\ s.m = media /\ s.o = dropped /\ s.d = down
  BY <1>1, ServerFields
<1>4. Safe(r)
  BY <1>2, <1>3, SayStep DEF Say, Thinking
<1>5. /\ r.e = [engine EXCEPT !.said = @ + 1,
                              !.jobs = Append(@, [turn |-> engine.active,
                                                  spoken |-> FALSE])]
      /\ r.m = media /\ r.o = dropped /\ r.d = down
  <2>1. r = [e |-> [engine EXCEPT !.said = @ + 1,
                              !.jobs = Append(@, [turn |-> engine.active,
                                                  spoken |-> FALSE])],
             m |-> media, o |-> dropped, d |-> down]
    BY <1>1, <1>2 DEF Server
  <2> QED BY <2>1
<1>6. Becomes(r) /\ UNCHANGED clientVars
  BY <1>5 DEF Say, Becomes
<1> QED BY <1>3, <1>4, <1>5, <1>6, ServerMoves DEF Becomes

\* LlmReturns and Fail.
LEMMA ModelEnds ==
    ASSUME LoopInv, LlmReturns \/ Fail
    PROVE  LoopInv' /\ media'.asked = media.asked
<1>1. PICK s : s = Server
  OBVIOUS
<1>2. PICK n : n = engine.active
  OBVIOUS
<1>3. /\ Safe(s) /\ PlayerFits /\ s.e = engine /\ s.m = media
  BY <1>1, ServerFields
<1>4. s.e.active # Nil /\ n = s.e.active
  BY <1>2, <1>3 DEF LlmReturns, Fail, Thinking
<1>5. CASE LlmReturns
  <2>1. PICK r : r = MaybeFireAiDone([s EXCEPT !.e.turns[n].returned = TRUE], n)
    OBVIOUS
  <2>2. Safe(r) /\ r.m.asked = s.m.asked
    BY <1>3, <1>4, <2>1, ReturnsStep
  <2>3. Becomes(r) /\ UNCHANGED clientVars
    BY <1>1, <1>2, <1>5, <2>1 DEF LlmReturns
  <2> QED BY <1>3, <2>2, <2>3, ServerMoves DEF Becomes
<1>6. CASE Fail
  <2>1. PICK r : r = FireAiDone([s EXCEPT !.e.turns[n] =
                        [@ EXCEPT !.failed = TRUE, !.returned = TRUE]],
                                n, FALSE)
    OBVIOUS
  <2>2. Safe(r) /\ r.m.asked = s.m.asked
    BY <1>3, <1>4, <2>1, FailStep
  <2>3. Becomes(r) /\ UNCHANGED clientVars
    BY <1>1, <1>2, <1>6, <2>1 DEF Fail
  <2> QED BY <1>3, <2>2, <2>3, ServerMoves DEF Becomes
<1> QED BY <1>5, <1>6

\* TtsAudio and TtsDone.
LEMMA SpeechMoves ==
    ASSUME LoopInv, TtsAudio \/ TtsDone
    PROVE  LoopInv' /\ media'.asked = media.asked
<1>1. PICK s : s = Server
  OBVIOUS
<1>2. PICK t : t = Head(engine.jobs).turn
  OBVIOUS
<1>3. /\ Safe(s) /\ PlayerFits /\ s \in Servers
      /\ s.e = engine /\ s.m = media
  BY <1>1, ServerFields
<1>4. /\ s.e.jobs # <<>> /\ t = s.e.jobs[1].turn /\ t # Nil
  <2>1. s.e.jobs \in Seq(JobStates)
    BY <1>3 DEF Servers, Engines
  <2>2. s.e.jobs # <<>>
    BY <1>3 DEF TtsAudio, TtsDone
  <2>3. t = s.e.jobs[1].turn /\ 1 \in 1..Len(s.e.jobs)
    BY <1>2, <1>3, <2>1, <2>2
  <2>4. s.e.jobs[1].turn \in 1..Len(s.e.turns)
    BY <1>3, <2>3 DEF Safe, Fits, JobsFit
  <2>5. s.e.turns \in Seq(TurnStates)
    BY <1>3 DEF Servers, Engines
  <2> QED BY <2>2, <2>3, <2>4, <2>5 DEF Nil
<1>5. CASE TtsAudio
  <2>1. PICK q : q = [s EXCEPT !.e.jobs[1].spoken = TRUE]
    OBVIOUS
  <2>2. PICK r : r = Synthesised(q, t)
    OBVIOUS
  <2>3. Safe(q) /\ q.m = s.m /\ q.e.jobs # <<>> /\ q.e.jobs[1].turn = s.e.jobs[1].turn
    BY <1>3, <1>4, <2>1, SpokenStep
  <2>4. Safe(r) /\ r.m.asked = s.m.asked
    BY <1>3, <1>4, <2>2, <2>3, SynthesisedStep
  <2>5. Becomes(r) /\ UNCHANGED clientVars
    BY <1>1, <1>2, <1>5, <2>1, <2>2 DEF TtsAudio
  <2> QED BY <1>3, <2>4, <2>5, ServerMoves DEF Becomes
<1>6. CASE TtsDone
  <2>1. PICK q : q = [s EXCEPT !.e.jobs = Tail(@)]
    OBVIOUS
  <2>2. PICK r : r = Finished(q, t)
    OBVIOUS
  <2>3. Safe(q) /\ q.m = s.m
    BY <1>3, <1>4, <2>1, SpokenOutStep
  <2>4. Safe(r) /\ r.m.asked = s.m.asked
    BY <1>4, <2>2, <2>3, FinishedStep
  <2>5. Becomes(r) /\ UNCHANGED clientVars
    BY <1>1, <1>2, <1>6, <2>1, <2>2 DEF TtsDone
  <2> QED BY <1>3, <2>4, <2>5, ServerMoves DEF Becomes
<1> QED BY <1>5, <1>6

\* PendingTimeout.
LEMMA PendingFails ==
    ASSUME LoopInv, PendingTimeout
    PROVE  LoopInv' /\ media'.asked = media.asked
<1>1. PICK s : s = Server
  OBVIOUS
<1>2. PICK r : r = FailPending(s, s.m.pending[1].turn)
  OBVIOUS
<1>3. /\ Safe(s) /\ PlayerFits /\ s \in Servers /\ s.m = media
  BY <1>1, ServerFields
<1>4. s.m.pending # <<>> /\ Head(media.pending).turn = s.m.pending[1].turn
  <2>1. s.m.pending \in Seq(Outputs)
    BY <1>3 DEF Servers, Medias
  <2> QED BY <1>3, <2>1 DEF PendingTimeout
<1>5. Safe(r) /\ r.m.asked = s.m.asked
  BY <1>2, <1>3, <1>4, FailPendingStep
<1>6. Becomes(r) /\ UNCHANGED clientVars
  BY <1>1, <1>2, <1>4 DEF PendingTimeout
<1> QED BY <1>3, <1>5, <1>6, ServerMoves DEF Becomes

-------------------------------------------------------------------------------
(* The player moves                                                          *)

\* What the lemmas of the player ask of the server.
LEMMA ServerFacts ==
    ASSUME NEW s, Safe(s)
    PROVE  /\ s.e.turns \in Seq(TurnStates) /\ Len(s.e.turns) <= MaxTurns
           /\ s.d \in Seq(Frames) /\ s.e.kept \in Nat
           /\ WireFits(s.e.turns, s.d) /\ Follows(s.e.turns, s.m.flow, s.d)
           /\ CountsFit(s.e.turns, s.d, s.e.kept)
           /\ s.m.flow = Nil \/ s.e.turns[s.m.flow].done = "no"
           /\ \A u \in 1..Len(s.e.turns) :
                 s.e.turns[u].done = "full" => ~s.e.turns[u].failed
           /\ Len(s.e.turns) > 0 /\ s.e.turns[Len(s.e.turns)].done = "full"
              => s.e.kept = 0
           /\ PausesLifted(s.m, s.o, s.d) /\ FreezeLifted(s.m, s.o, s.d)
<1>1. /\ s \in Servers /\ TurnsFit(s.e.turns, s.e.active)
      /\ PauseFits(s.e.turns, s.e.active, s.e.paused, s.e.kept, s.e.deferred)
      /\ FlowFits(s.e.turns, s.m.flow, s.m.retired, s.m.pending)
      /\ WireFits(s.e.turns, s.d) /\ Follows(s.e.turns, s.m.flow, s.d)
      /\ CountsFit(s.e.turns, s.d, s.e.kept + 0)
  BY DEF Safe, Fits
<1>2. /\ s.e.turns \in Seq(TurnStates) /\ s.d \in Seq(Frames)
      /\ s.e.kept \in Nat
  BY <1>1 DEF Servers, Engines
<1>3. s.e.kept + 0 = s.e.kept
  BY <1>2
<1>4. CountsFit(s.e.turns, s.d, s.e.kept)
  BY <1>1, <1>3
<1>5. Len(s.e.turns) > 0 /\ s.e.turns[Len(s.e.turns)].done = "full"
      => s.e.kept = 0
  <2>1. Len(s.e.turns) \in Nat
    BY <1>2
  <2> QED BY <1>1, <2>1 DEF TurnsFit, PauseFits, Nil
<1>6. PausesLifted(s.m, s.o, s.d) /\ FreezeLifted(s.m, s.o, s.d)
  BY DEF Safe, PauseInv
<1>7. Len(s.e.turns) <= MaxTurns
      /\ \A u \in 1..Len(s.e.turns) :
            s.e.turns[u].done = "full" => ~s.e.turns[u].failed
  BY <1>1 DEF TurnsFit
<1>8. s.m.flow = Nil \/ s.e.turns[s.m.flow].done = "no"
  BY <1>1 DEF FlowFits
<1> QED BY <1>1, <1>2, <1>4, <1>5, <1>6, <1>7, <1>8

\* The player moves, and takes frames at most.
LEMMA PlayerMoves ==
    ASSUME NEW s, Safe(s), s = Server, NEW q \in Seq(Frames), down' = q,
           UNCHANGED <<engine, media, dropped>>, PlayerFits',
           WireFits(s.e.turns, q), Follows(s.e.turns, s.m.flow, q)',
           CountsFit(s.e.turns, q, s.e.kept)',
           PausesLifted(s.m, s.o, q), FreezeLifted(s.m, s.o, q)'
    PROVE  LoopInv'
<1>1. PICK r : r = [e |-> s.e, m |-> s.m, o |-> s.o, d |-> q]
  OBVIOUS
<1>2. s \in Servers
  BY DEF Safe, Fits
<1>3. /\ r \in Servers /\ r.e = s.e /\ r.m = s.m /\ r.o = s.o /\ r.d = q
  BY <1>1, <1>2 DEF Servers
<1>4. Server' = r
  BY <1>1 DEF Server
<1>5. s.e.kept + 0 = s.e.kept
  BY <1>2 DEF Servers, Engines
<1>6. Fits(r, 0)'
  <2>1. /\ TurnsFit(s.e.turns, s.e.active)
        /\ PauseFits(s.e.turns, s.e.active, s.e.paused, s.e.kept, s.e.deferred)
        /\ JobsFit(s.e.turns, s.e.jobs, s.e.kept)
        /\ FlowFits(s.e.turns, s.m.flow, s.m.retired, s.m.pending)
        /\ s.e.interrupted => s.e.paused = Nil
    BY DEF Safe, Fits
  <2>2. CountsFit(s.e.turns, q, s.e.kept + 0)'
    BY <1>5
  <2> QED BY <1>3, <2>1, <2>2 DEF Fits
<1>7. PauseInv(r)'
  BY <1>3 DEF Safe, PauseInv
<1> QED BY <1>4, <1>6, <1>7 DEF LoopInv

\* ClientReceives.
LEMMA Arrivals ==
    ASSUME LoopInv, ClientReceives
    PROVE  LoopInv'
<1>1. PICK s : s = Server
  OBVIOUS
<1>2. /\ Safe(s) /\ PlayerFits /\ s \in Servers
      /\ s.e = engine /\ s.m = media /\ s.o = dropped /\ s.d = down
  BY <1>1, ServerFields
<1>3. PICK d : d = s.d
  OBVIOUS
<1>4. d \in Seq(Frames) /\ d # <<>>
  BY <1>2, <1>3, ServerFacts DEF ClientReceives
<1>5. Tail(d) \in Seq(Frames) /\ Head(d) = d[1]
  BY <1>4, HasTail
<1>6. /\ Receive(d[1]) /\ down' = Tail(d)
      /\ UNCHANGED <<engine, media, dropped>>
  BY <1>2, <1>3, <1>5 DEF ClientReceives
<1>7. WireFits(s.e.turns, Tail(d)) /\ PausesLifted(s.m, s.o, Tail(d))
  BY <1>2, <1>3, <1>4, ServerFacts, WireTail, PausesTail
<1>8. FreezeLifted(s.m, s.o, Tail(d))'
  BY <1>2, <1>3, <1>4, <1>6, ServerFacts, FreezeStep
<1>9. /\ PlayerFits' /\ Follows(s.e.turns, s.m.flow, Tail(d))'
      /\ CountsFit(s.e.turns, Tail(d), s.e.kept)'
  <2>1. /\ s.e.turns \in Seq(TurnStates) /\ Len(s.e.turns) <= MaxTurns
        /\ WireFits(s.e.turns, d) /\ Follows(s.e.turns, s.m.flow, d)
        /\ CountsFit(s.e.turns, d, s.e.kept)
        /\ s.m.flow = Nil \/ s.e.turns[s.m.flow].done = "no"
        /\ \A u \in 1..Len(s.e.turns) :
              s.e.turns[u].done = "full" => ~s.e.turns[u].failed
        /\ Len(s.e.turns) > 0 /\ s.e.turns[Len(s.e.turns)].done = "full"
           => s.e.kept = 0
    BY <1>2, <1>3, ServerFacts
  <2> QED BY <1>2, <1>4, <1>6, <2>1, ReceiveStep
<1> QED BY <1>1, <1>2, <1>5, <1>6, <1>7, <1>8, <1>9, PlayerMoves

\* Plays.
LEMMA Sounds ==
    ASSUME LoopInv, Plays
    PROVE  LoopInv'
<1>1. PICK s : s = Server
  OBVIOUS
<1>2. /\ Safe(s) /\ PlayerFits /\ s \in Servers /\ s.d = down
  BY <1>1, ServerFields
<1>3. /\ Render /\ down' = s.d /\ UNCHANGED <<engine, media, dropped>>
  BY <1>2 DEF Plays
<1>4. /\ s.e.turns \in Seq(TurnStates) /\ Len(s.e.turns) <= MaxTurns
      /\ s.d \in Seq(Frames)
      /\ WireFits(s.e.turns, s.d) /\ Follows(s.e.turns, s.m.flow, s.d)
      /\ CountsFit(s.e.turns, s.d, s.e.kept)
      /\ s.m.flow = Nil \/ s.e.turns[s.m.flow].done = "no"
      /\ \A u \in 1..Len(s.e.turns) :
            s.e.turns[u].done = "full" => ~s.e.turns[u].failed
      /\ Len(s.e.turns) > 0 /\ s.e.turns[Len(s.e.turns)].done = "full"
         => s.e.kept = 0
      /\ PausesLifted(s.m, s.o, s.d) /\ FreezeLifted(s.m, s.o, s.d)
  BY <1>2, ServerFacts
<1>5. /\ PlayerFits' /\ control' = control
      /\ Follows(s.e.turns, s.m.flow, s.d)'
      /\ CountsFit(s.e.turns, s.d, s.e.kept)'
  BY <1>2, <1>3, <1>4, RenderStep
<1>6. FreezeLifted(s.m, s.o, s.d)'
  BY <1>4, <1>5 DEF FreezeLifted, Frozen
<1> QED BY <1>1, <1>2, <1>3, <1>4, <1>5, <1>6, PlayerMoves

\* LocalInterruption.
LEMMA Cuts ==
    ASSUME LoopInv, LocalInterruption
    PROVE  LoopInv'
<1>1. PICK s : s = Server
  OBVIOUS
<1>2. /\ Safe(s) /\ PlayerFits /\ s \in Servers /\ s.d = down
  BY <1>1, ServerFields
<1>3. /\ Flush /\ down' = s.d /\ UNCHANGED <<engine, media, dropped>>
  BY <1>2 DEF LocalInterruption
<1>4. /\ s.e.turns \in Seq(TurnStates) /\ s.d \in Seq(Frames)
      /\ WireFits(s.e.turns, s.d) /\ Follows(s.e.turns, s.m.flow, s.d)
      /\ CountsFit(s.e.turns, s.d, s.e.kept)
      /\ PausesLifted(s.m, s.o, s.d)
  BY <1>2, ServerFacts
<1>5. /\ PlayerFits' /\ ~Frozen'
      /\ Follows(s.e.turns, s.m.flow, s.d)'
      /\ CountsFit(s.e.turns, s.d, s.e.kept)'
  BY <1>2, <1>3, <1>4, FlushStep
<1>6. FreezeLifted(s.m, s.o, s.d)'
  BY <1>5 DEF FreezeLifted
<1> QED BY <1>1, <1>2, <1>3, <1>4, <1>5, <1>6, PlayerMoves

-------------------------------------------------------------------------------
(* The invariant                                                             *)

\* The invariant holds where nothing has happened, ...
LEMMA Starts ==
    ASSUME LoopInit
    PROVE  LoopInv
<1>1. /\ control = NoControl /\ ring = <<>> /\ written = 0 /\ ledger = {}
      /\ shut = FALSE /\ started = FALSE
      /\ reported = [t \in AiTurns |-> "no"] /\ heard = [t \in AiTurns |-> 0]
  BY DEF LoopInit, ClientInit
<1>2. PICK s : s = Server
  OBVIOUS
<1>3. /\ s.e = Quiet /\ s.m = Listening /\ s.o = {} /\ s.d = <<>>
      /\ s = [e |-> s.e, m |-> s.m, o |-> s.o, d |-> s.d]
  BY <1>2 DEF LoopInit, Server
<1>4. MaxTurns \in Nat \ {0} /\ Capacity \in Nat \ {0}
  BY PlayerBounds
<1>5. /\ \A t : ~Reported(t) /\ ~InLedger(t) /\ ~ClosedIn(t) /\ ~OpenIn(t)
                /\ ~Known(t)
      /\ Len(ring) = 0
  BY <1>1 DEF Reported, InLedger, ClosedIn, OpenIn, Known
<1>6. PlayerFits
  <2>1. ClientTypeOK
    <3>1. control \in [turn : AiTurns \cup {Nil}, pause : Nat, last : Nat]
      BY <1>1 DEF NoControl, Nil
    <3>2. ring \in Seq(AiTurns) /\ Len(ring) <= Capacity
      BY <1>1, <1>4
    <3>3. /\ reported \in [AiTurns -> {"no", "played", "aborted"}]
          /\ heard \in [AiTurns -> Nat]
      BY <1>1
    <3> QED BY <1>1, <3>1, <3>2, <3>3 DEF ClientTypeOK
  <2> QED BY <1>1, <1>5, <2>1 DEF PlayerFits
<1>7. s \in Servers
  <2>1. Quiet \in Engines
    BY DEF Quiet, Engines, Endings, Nil
  <2>2. Listening \in Medias
    BY DEF Listening, Medias, Nil
  <2>3. s.e \in Engines /\ s.m \in Medias /\ s.o \in SUBSET Nat
        /\ s.d \in Seq(Frames)
    BY <1>3, <2>1, <2>2
  <2> QED BY <1>3, <2>3, Zenon DEF Servers
<1>8. /\ s.e.turns = <<>> /\ s.e.active = Nil /\ s.e.paused = Nil
      /\ s.e.kept = 0 /\ s.e.deferred = "no" /\ s.e.jobs = <<>>
      /\ s.e.interrupted = FALSE
      /\ s.m.flow = Nil /\ s.m.retired = {} /\ s.m.pending = <<>>
      /\ s.m.asked = Nil
      /\ Len(s.e.turns) = 0 /\ Len(s.e.jobs) = 0 /\ Len(s.m.pending) = 0
      /\ Len(s.d) = 0 /\ s.e.kept + 0 = 0
  BY <1>3 DEF Quiet, Listening
<1>9. Fits(s, 0)
  <2>1. TurnsFit(s.e.turns, s.e.active)
    BY <1>4, <1>8 DEF TurnsFit
  <2>2. PauseFits(s.e.turns, s.e.active, s.e.paused, s.e.kept, s.e.deferred)
    BY <1>8 DEF PauseFits
  <2>3. JobsFit(s.e.turns, s.e.jobs, s.e.kept)
    BY <1>8 DEF JobsFit
  <2>4. FlowFits(s.e.turns, s.m.flow, s.m.retired, s.m.pending)
    BY <1>8 DEF FlowFits, Nil
  <2>5. WireFits(s.e.turns, s.d)
    BY <1>8 DEF WireFits
  <2>6. Follows(s.e.turns, s.m.flow, s.d)
    BY <1>5, <1>8 DEF Follows
  <2>7. CountsFit(s.e.turns, s.d, s.e.kept + 0)
    <3>1. \A t \in AiTurns : heard[t] = 0 /\ reported[t] # "played"
      BY <1>1
    <3> QED BY <1>5, <1>8, <3>1 DEF CountsFit
  <2> QED BY <1>7, <1>8, <2>1, <2>2, <2>3, <2>4, <2>5, <2>6, <2>7 DEF Fits
<1>10. PauseInv(s)
  <2>1. ~Frozen
    BY <1>1 DEF Frozen, NoControl
  <2> QED BY <1>8, <2>1 DEF PauseInv, VerdictFits, PausesLifted, FreezeLifted
<1> QED BY <1>2, <1>6, <1>9, <1>10 DEF LoopInv

\* ... where nothing happens, ...
LEMMA Stutters ==
    ASSUME LoopInv, UNCHANGED loopVars
    PROVE  LoopInv'
<1>1. PICK s : s = Server
  OBVIOUS
<1>2. Safe(s) /\ PlayerFits
  BY <1>1, ServerFields
<1>3. Becomes(s) /\ UNCHANGED clientVars
  BY <1>1 DEF loopVars, Becomes, Server
<1> QED BY <1>2, <1>3, ServerMoves

\* ... and is kept by every step of the loop.
LEMMA LoopSteps ==
    ASSUME LoopInv, [LoopNext]_loopVars
    PROVE  LoopInv'
<1>1. CASE UNCHANGED loopVars
  BY <1>1, Stutters
<1>2. CASE LoopNext
  <2>1. ASSUME Interruption PROVE LoopInv'
    BY <2>1, PauseBegins
  <2>2. ASSUME FinalInterruption \/ TakeOver \/ Interrupt PROVE LoopInv'
    BY <2>2, BargeIns
  <2>3. ASSUME VerifySpeaker \/ Watchdog PROVE LoopInv'
    BY <2>3, Asks
  <2>4. ASSUME NEW verdict \in {"target", "other", "uncertain"},
               OnSpeakerVerdict(verdict)
        PROVE LoopInv'
    BY <2>4, Verdicts
  <2>5. ASSUME RecoveryElapsed PROVE LoopInv'
    BY <2>5, Resumes
  <2>6. ASSUME NEW text \in BOOLEAN, TurnEnd(text) PROVE LoopInv'
    BY <2>6, TurnsEnd
  <2>7. ASSUME SystemTurn PROVE LoopInv'
    BY <2>7, TurnsBegin
  <2>8. ASSUME Say PROVE LoopInv'
    BY <2>8, Sentences
  <2>9. ASSUME LlmReturns \/ Fail PROVE LoopInv'
    BY <2>9, ModelEnds
  <2>10. ASSUME TtsAudio \/ TtsDone PROVE LoopInv'
    BY <2>10, SpeechMoves
  <2>11. ASSUME PendingTimeout PROVE LoopInv'
    BY <2>11, PendingFails
  <2>12. ASSUME ClientReceives PROVE LoopInv'
    BY <2>12, Arrivals
  <2>13. ASSUME Plays PROVE LoopInv'
    BY <2>13, Sounds
  <2>14. ASSUME LocalInterruption PROVE LoopInv'
    BY <2>14, Cuts
  <2> QED BY <1>2, <2>1, <2>2, <2>3, <2>4, <2>5, <2>6, <2>7, <2>8, <2>9,
             <2>10, <2>11, <2>12, <2>13, <2>14 DEF LoopNext
<1> QED BY <1>1, <1>2

\* The inductive invariant of the loop holds: server, frames and player fit
\* together, whatever the order of their steps.
THEOREM LoopIsSound == LoopSpec => []LoopInv
<1>1. LoopInit => LoopInv
  BY Starts
<1>2. LoopInv /\ [LoopNext]_loopVars => LoopInv'
  BY LoopSteps
<1> QED BY <1>1, <1>2, PTL DEF LoopSpec

-------------------------------------------------------------------------------
(* The properties                                                            *)

\* From the counts: a turn acknowledged as played was heard in full.
LEMMA HeardWhenAcknowledged ==
    ASSUME LoopInv
    PROVE  AckIsHeard
<1>1. PICK s : s = Server
  OBVIOUS
<1>2. /\ Safe(s) /\ PlayerFits /\ s \in Servers /\ s.e = engine
  BY <1>1, ServerFields
<1>3. /\ CountsFit(s.e.turns, s.d, s.e.kept) /\ s.e.turns \in Seq(TurnStates)
      /\ TurnsFit(s.e.turns, s.e.active)
  BY <1>2, ServerFacts DEF Safe, Fits
<1>4. SUFFICES ASSUME NEW t \in AiTurns, reported[t] = "played",
                      \A earlier \in 1..t : ~Replaced(earlier)
               PROVE  heard[t] = engine.turns[t].made
  BY DEF AckIsHeard
<1>5. /\ t \in 1..Len(s.e.turns) /\ s.e.turns[t].done = "full"
      /\ Clean(s.e.turns, t) => heard[t] = s.e.turns[t].made
  BY <1>3, <1>4 DEF CountsFit
<1>6. Clean(s.e.turns, t)
  <2>1. ASSUME NEW e \in 1..(t - 1), s.e.turns[e].done = "no" PROVE FALSE
    <3>1. /\ Len(s.e.turns) \in Nat /\ e \in 1..t /\ e <= Len(s.e.turns)
          /\ e # Len(s.e.turns) /\ e # 0
      BY <1>3, <1>5
    <3>2. s.e.active \in {Nil, Len(s.e.turns)}
      BY <1>3 DEF TurnsFit
    <3>3. Replaced(e)
      BY <1>2, <2>1, <3>1, <3>2 DEF Replaced, Nil
    <3> QED BY <1>4, <3>1, <3>3
  <2> QED BY <2>1 DEF Clean
<1> QED BY <1>2, <1>5, <1>6

\* From the pauses: what holds the player is held or lifted.
LEMMA LiftedWhenFrozen ==
    ASSUME LoopInv
    PROVE  FrozenIsPaused
<1>1. PICK s : s = Server
  OBVIOUS
<1>2. /\ Safe(s) /\ s.m = media /\ s.o = dropped /\ s.d = down
  BY <1>1, ServerFields
<1>3. s.d \in Seq(Frames) /\ FreezeLifted(s.m, s.o, s.d)
  BY <1>2, ServerFacts
<1>4. SUFFICES ASSUME Frozen
               PROVE  \/ HeldPause(media, dropped, control.turn, control.pause)
                      \/ \E i \in DOMAIN down : Lifts(down[i], control.turn)
  BY DEF FrozenIsPaused, HeldPause
<1>5. CASE HeldPause(s.m, s.o, control.turn, control.pause)
  BY <1>2, <1>5
<1>6. ASSUME NEW j \in 1..Len(s.d),
             LiftsPause(s.d[j], control.turn, control.pause)
      PROVE  \E i \in DOMAIN down : Lifts(down[i], control.turn)
  <2>1. j \in DOMAIN down
    BY <1>2, <1>3
  <2>2. Lifts(down[j], control.turn)
    BY <1>2, <1>6 DEF Lifts, LiftsPause
  <2> QED BY <2>1, <2>2
<1> QED BY <1>3, <1>4, <1>5, <1>6 DEF FreezeLifted

\* From what the frames mean: without frames and chunks to play no segment
\* of an ended turn is left.
LEMMA ReportedWhenResting ==
    ASSUME LoopInv
    PROVE  EndedIsReported
<1>1. PICK s : s = Server
  OBVIOUS
<1>2. /\ Safe(s) /\ PlayerFits /\ s.e = engine /\ s.d = down
  BY <1>1, ServerFields
<1>3. /\ Follows(s.e.turns, s.m.flow, s.d) /\ s.d \in Seq(Frames)
      /\ s.e.turns \in Seq(TurnStates)
  BY <1>2, ServerFacts
<1>4. SUFFICES ASSUME Resting, NEW t \in 1..Len(s.e.turns),
                      s.e.turns[t].begun, s.e.turns[t].done = "full"
               PROVE  Reported(t)
  BY <1>2 DEF EndedIsReported, Reported
<1>5. ~Has(s.d, "end", t)
  <2>1. Len(s.d) = 0
    BY <1>2, <1>4 DEF Resting
  <2> QED BY <2>1 DEF Has
<1>6. ~ClosedIn(t)
  <2>1. ASSUME NEW g \in ledger, g.end # Open PROVE FALSE
    <3>1. /\ g.end <= written /\ Past < g.end /\ written \in Nat
          /\ g.end \in Nat /\ ring \in Seq(AiTurns)
      BY <1>2, <2>1 DEF PlayerFits, ClientTypeOK, Segments
    <3>2. Len(ring) # 0
      BY <3>1 DEF Past
    <3>3. ~started /\ Len(ring) < Preroll
      BY <1>4, <3>2 DEF Resting
    <3>4. Len(ring) >= Preroll \/ g.end = Open
      BY <1>2, <3>3 DEF PlayerFits
    <3> QED BY <2>1, <3>1, <3>3, <3>4, PlayerBounds
  <2> QED BY <2>1 DEF ClosedIn
<1> QED BY <1>3, <1>4, <1>5, <1>6 DEF Follows

\* From the player: no chunk in the ring is of an acknowledged turn.
LEMMA SilentAfterReport ==
    ASSUME LoopInv, [LoopNext]_loopVars,
           NEW t \in AiTurns, reported[t] # "no"
    PROVE  heard'[t] = heard[t]
<1>1. PlayerFits
  BY DEF LoopInv
<1>2. CASE Plays
  <2>1. /\ ring # <<>> /\ heard' = [heard EXCEPT ![Head(ring)] = @ + 1]
    BY <1>2 DEF Plays, Render
  <2>2. ring \in Seq(AiTurns) /\ heard \in [AiTurns -> Nat]
    BY <1>1 DEF PlayerFits, ClientTypeOK
  <2>3. Head(ring) = ring[1] /\ 1 \in 1..Len(ring)
    BY <2>1, <2>2
  <2>4. Head(ring) # t
    BY <1>1, <2>3 DEF PlayerFits, Reported
  <2> QED BY <2>1, <2>2, <2>4
<1>3. CASE ClientReceives
  BY <1>3 DEF ClientReceives, Receive, AudioStart, Push, AudioEnd, PauseTurn,
              ResumeTurn, Flush
<1>4. CASE LocalInterruption
  BY <1>4, SMTT(20) DEF LocalInterruption, Flush
<1>5. CASE UNCHANGED clientVars
  BY <1>5, SMTT(20) DEF clientVars
<1>6. UNCHANGED clientVars \/ Plays \/ ClientReceives \/ LocalInterruption
  BY DEF LoopNext, loopVars, Interruption, FinalInterruption, TakeOver,
         VerifySpeaker, OnSpeakerVerdict, RecoveryElapsed, TurnEnd,
         SystemTurn, Say, LlmReturns, Fail, TtsAudio, TtsDone, Watchdog,
         PendingTimeout, Interrupt
<1> QED BY <1>2, <1>3, <1>4, <1>5, <1>6

VerdictKept ==
    \/ media.pausing /\ media.asked = media.pauses
    \/ /\ UNCHANGED <<engine, dropped, down>>
       /\ media' = [media EXCEPT !.asked = Nil]

\* From the verdict: a question that still counts is about the pause that
\* holds, and no step but its answer clears it.
LEMMA VerdictOfItsPause ==
    ASSUME LoopInv, [LoopNext]_loopVars,
           media.asked # Nil, media'.asked = Nil
    PROVE  VerdictKept
<1>1. media \in Medias /\ VerdictFits(media)
  BY MediaOfInv
<1>2. ASSUME NEW verdict, OnSpeakerVerdict(verdict)
      PROVE  VerdictKept
  <2>1. CASE Current
    BY <1>1, <2>1 DEF Current, VerdictFits, VerdictKept
  <2>2. CASE ~Current
    <3>1. PICK s : s = Server
      OBVIOUS
    <3>2. Becomes([s EXCEPT !.m.asked = Nil])
      BY <1>2, <2>2, <3>1 DEF OnSpeakerVerdict
    <3>3. [s EXCEPT !.m.asked = Nil]
          = [e |-> engine, m |-> [media EXCEPT !.asked = Nil],
             o |-> dropped, d |-> down]
      BY <3>1 DEF Server
    <3> QED BY <3>2, <3>3 DEF Becomes, VerdictKept
  <2> QED BY <2>1, <2>2
<1>3. ASSUME media'.asked = media.asked
      PROVE  VerdictKept
  BY <1>3
<1>4. CASE Interruption \/ FinalInterruption \/ TakeOver \/ Interrupt
  BY <1>3, <1>4, PauseBegins, BargeIns
<1>5. CASE RecoveryElapsed \/ SystemTurn \/ Say \/ LlmReturns \/ Fail
  BY <1>3, <1>5, Resumes, TurnsBegin, Sentences, ModelEnds
<1>6. CASE TtsAudio \/ TtsDone \/ PendingTimeout
  BY <1>3, <1>6, SpeechMoves, PendingFails
<1>7. ASSUME NEW text \in BOOLEAN, TurnEnd(text)
      PROVE  VerdictKept
  BY <1>3, <1>7, TurnsEnd
<1>8. CASE Watchdog
  <2>1. media'.asked = media.asked
    BY <1>1, <1>8 DEF Watchdog, Medias
  <2> QED BY <2>1, <1>3
<1>9. CASE VerifySpeaker
  BY <1>9 DEF VerifySpeaker
<1>10. CASE UNCHANGED media
  BY <1>3, <1>10
<1>11. CASE ClientReceives \/ Plays \/ LocalInterruption \/ UNCHANGED loopVars
  BY <1>10, <1>11 DEF ClientReceives, Plays, LocalInterruption, loopVars
<1> QED BY <1>2, <1>4, <1>5, <1>6, <1>7, <1>8, <1>9, <1>11 DEF LoopNext

-------------------------------------------------------------------------------

\* A turn the client acknowledges as played was heard from its first chunk
\* to its last (playback-ack.ts, pcm-playback-worklet.js), through pauses, a
\* full ring, failures and late frames.
THEOREM AcknowledgedIsHeard == LoopSpec => []AckIsHeard
<1>1. LoopInv => AckIsHeard
  BY HeardWhenAcknowledged
<1> QED BY <1>1, LoopIsSound, PTL

\* The player is frozen only while the media session holds that very pause,
\* or the frame that lifts it is under way (playback-pause.ts,
\* resumeFromTentativePause); dropped pauses aside.
THEOREM NobodyStaysFrozen == LoopSpec => []FrozenIsPaused
<1>1. LoopInv => FrozenIsPaused
  BY LiftedWhenFrozen
<1> QED BY <1>1, LoopIsSound, PTL

\* A client with nothing more to receive or to play has acknowledged every
\* turn that was announced and ended in full: no segment waits for ever.
THEOREM EndsAreReported == LoopSpec => []EndedIsReported
<1>1. LoopInv => EndedIsReported
  BY ReportedWhenResting
<1> QED BY <1>1, LoopIsSound, PTL

\* After the acknowledgement of a turn nothing more of it is heard: the
\* tombstone of stopPlayback refuses what is still under way.
THEOREM ReportsAreFinal == LoopSpec => NothingAfterReport
<1>1. LoopInv /\ [LoopNext]_loopVars
      => [\A t \in AiTurns : reported[t] # "no" => heard'[t] = heard[t]]_loopVars
  BY SilentAfterReport
<1> QED BY <1>1, LoopIsSound, PTL DEF LoopSpec, NothingAfterReport

\* A verdict on a voice acts on the pause it was asked for or changes
\* nothing (onSpeakerVerdict).
THEOREM VerdictsKeepToTheirPause == LoopSpec => VerdictKeepsToItsPause
<1>1. LoopInv /\ [LoopNext]_loopVars
      => [media.asked # Nil /\ media'.asked = Nil =>
            \/ media.pausing /\ media.asked = media.pauses
            \/ /\ UNCHANGED <<engine, dropped, down>>
               /\ media' = [media EXCEPT !.asked = Nil]]_loopVars
  BY VerdictOfItsPause DEF VerdictKept
<1> QED BY <1>1, LoopIsSound, PTL DEF LoopSpec, VerdictKeepsToItsPause

===============================================================================
