------------------------------- MODULE GpuProofs -------------------------------
(***************************************************************************)
(* Proofs about the speech that is made outside the bridge and played in   *)
(* the browser: GpuCapacity, how many instances run, for any               *)
(* administrators, instances and limits; SpeechService, one of those       *)
(* instances, for any number of connections, slots and sentences; and      *)
(* PlaybackQueue, the player, for any rates and bounds.  They share        *)
(* nothing: GpuCapacity's specification is CapacitySpec, SpeechService's   *)
(* is Spec, PlaybackQueue's PlayerSpec.                                    *)
(*                                                                         *)
(* The three parts of GpuCapacity touch different variables, so each has   *)
(* its own inductive invariant; the rounds rely on the configurations      *)
(* being valid.  SpeechService has one invariant, IInv; PlaybackQueue one, *)
(* PlayerInv.                                                              *)
(***************************************************************************)
EXTENDS GpuCapacity, SpeechService, PlaybackQueue, FiniteSetTheorems,
        SequenceTheorems, TLAPS

(***************************************************************************)
(* GpuCapacity                                                             *)
(***************************************************************************)

Read == Configs \cup {None}

\* The one thing that spoils the lock, noted by a history variable that restricts
\* no step: a PUT was accepted that had numbered its row after an older one than it
\* replaced.
VARIABLE lagged

Lags(a) ==
    /\ PutWrites(a) /\ config # None
    /\ put[a].item.config_version <= config.config_version

lagVars == <<capacityVars, lagged>>
LagSpec ==
    /\ CapacityInit /\ lagged = FALSE
    /\ [][/\ CapacityNext
          /\ lagged' = IF \E a \in Admins : Lags(a) THEN TRUE ELSE lagged]_lagVars

\* Until then a PUT that is accepted replaces the row its admin saw.
NoLostUpdateUntilLagged ==
    [][~lagged => \A a \in Admins : PutWrites(a) => config = form[a]]_lagVars

\* Versions grow with every write, so a row that was read and has the version of
\* the present one is the present one; a PUT expects the version of its form.
PastInv ==
    /\ config \in past
    /\ \A old \in past : old \in Configs =>
        /\ config \in Configs
        /\ old.config_version <= config.config_version
        /\ old.config_version = config.config_version => old = config

PutInv(a) ==
    put[a] # NoPut =>
        /\ form[a] # Blank
        /\ put[a].expected # None =>
            /\ form[a] \in Configs
            /\ put[a].expected = form[a].config_version

FormsInv == PastInv /\ \A a \in Admins : form[a] \in past \cup {Blank} /\ PutInv(a)

\* Only valid configurations are stored.
StoredInv ==
    /\ config \in Read
    /\ past \subseteq Read
    /\ form \in [Admins -> Read \cup {Blank}]
    /\ put \in [Admins -> {NoPut} \cup
                [pc : {"writes"}, item : Configs, expected : Nat \cup {None}]]

-----------------------------------------------------------------------------
(* The configuration *)

LEMMA SeedStored == ASSUME CapacityAssumption PROVE Seed \in Stored
<1>1. Seed.target_util \in Utils
  BY DEF CapacityAssumption, Seed
<1>2. 1 \in 0..HardMax /\ 1 \in Counts /\ 0 \in Counts
  BY DEF CapacityAssumption, Counts
<1> QED BY <1>1, <1>2 DEF Seed, Stored, Bodies, Valid

LEMMA VersionedConfig ==
    ASSUME NEW body \in Stored, NEW current \in Read
    PROVE  /\ Versioned(body, current) \in Configs
           /\ current # None =>
                Versioned(body, current).config_version
                    = current.config_version + 1
  BY DEF Versioned, Read, Configs

\* A write that moves the version of the row on.
LEMMA StoreKeepsPast ==
    ASSUME CapacityAssumption, StoredInv, PastInv, NEW item \in Configs, Store(item),
           config # None => config.config_version < item.config_version
    PROVE  PastInv'
<1>1. config' = item /\ past' = past \cup {item}
  BY DEF Store
<1>2. ASSUME NEW old \in past, old \in Configs
      PROVE  old.config_version < item.config_version
  <2>1. config \in Configs /\ old.config_version <= config.config_version
    BY <1>2 DEF PastInv
  <2>2. config # None
    BY <2>1 DEF CapacityAssumption
  <2>3. /\ old.config_version \in Nat /\ item.config_version \in Nat
        /\ config.config_version \in Nat
    BY <1>2, <2>1 DEF Configs
  <2> QED BY <2>1, <2>2, <2>3
<1>3. ASSUME NEW old \in past', old \in Configs
      PROVE  /\ old.config_version <= item.config_version
             /\ old.config_version = item.config_version => old = item
  BY <1>1, <1>2, <1>3 DEF Configs
<1> QED BY <1>1, <1>3 DEF PastInv

\* An accepted PUT finds the row its admin saw.
LEMMA AcceptedIsSeen ==
    ASSUME CapacityAssumption, StoredInv, FormsInv,
           NEW a \in Admins, PutWrites(a)
    PROVE  config = form[a] /\ put[a].item \in Configs
<1>1. /\ put[a] # NoPut /\ Version(config) = put[a].expected
      /\ form[a] \in past \cup {Blank} /\ PutInv(a) /\ config \in Read
      /\ put[a].item \in Configs /\ past \subseteq Read
  BY DEF PutWrites, Accepts, StoredInv, FormsInv
<1>2. None \notin Configs /\ None \notin Nat
  BY DEF CapacityAssumption
<1>3. form[a] \in past
  BY <1>1 DEF PutInv
<1>4. CASE put[a].expected = None
  <2>1. config = None
    BY <1>1, <1>2, <1>4 DEF Version, Read, Configs
  <2>2. form[a] \notin Configs
    BY <1>2, <1>3, <2>1 DEF FormsInv, PastInv
  <2> QED BY <1>1, <1>3, <2>1, <2>2 DEF Read
<1>5. CASE put[a].expected # None
  <2>1. form[a] \in Configs /\ config # None /\ config.config_version = form[a].config_version
    BY <1>1, <1>5 DEF PutInv, Version
  <2> QED BY <1>1, <1>3, <2>1 DEF FormsInv, PastInv
<1> QED BY <1>4, <1>5

\* NoPut is no pending PUT.
LEMMA PutTypes ==
    ASSUME StoredInv, NEW a \in Admins
    PROVE  \/ put[a] = NoPut
           \/ put[a] \in [pc : {"writes"}, item : Configs,
                          expected : Nat \cup {None}]
  BY DEF StoredInv

LEMMA StoredStep ==
    ASSUME CapacityAssumption, StoredInv, [CapacityNext]_capacityVars
    PROVE  StoredInv'
<1>1. Reads \subseteq Read
  BY DEF StoredInv, Reads
<1>2. ASSUME NEW a \in Admins, Get(a) PROVE StoredInv'
  BY <1>1, <1>2 DEF Get, StoredInv
<1>3. ASSUME NEW a \in Admins, PutReads(a) PROVE StoredInv'
  <2>1. PICK body \in Bodies, current \in Reads :
            /\ Valid(body)
            /\ current # None => form[a] # None
            /\ put' = [put EXCEPT ![a] =
                [pc |-> "writes", item |-> Versioned(body, current),
                 expected |-> IF current = None THEN None
                              ELSE Version(form[a])]]
    BY <1>3 DEF PutReads
  <2>2. Versioned(body, current) \in Configs
    BY <1>1, <2>1, VersionedConfig DEF Stored
  <2>3. (IF current = None THEN None ELSE Version(form[a])) \in Nat \cup {None}
    <3>1. form[a] \in Configs \cup {None, Blank} /\ form[a] # Blank
      BY <1>3 DEF PutReads, StoredInv, Read
    <3> QED BY <2>1, <3>1 DEF Version, Configs
  <2> QED BY <1>3, <2>1, <2>2, <2>3 DEF PutReads, StoredInv
<1>4. ASSUME NEW a \in Admins, PutWrites(a) PROVE StoredInv'
  <2>1. put[a].item \in Configs
    BY <1>4, PutTypes DEF PutWrites
  <2> QED BY <1>4, <2>1 DEF PutWrites, Store, StoredInv, Read
<1>5. ASSUME NEW a \in Admins, PutConflicts(a) PROVE StoredInv'
  BY <1>5 DEF PutConflicts, StoredInv
<1>6. CASE RoundSeeds
  <2>1. Versioned(Seed, None) \in Configs
    BY SeedStored, VersionedConfig DEF Read
  <2> QED BY <1>6, <2>1 DEF RoundSeeds, Store, StoredInv, Read
<1>7. CASE UNCHANGED configVars
  BY <1>7 DEF configVars, StoredInv
<1>8. ASSUME RoundStep, ~RoundSeeds PROVE UNCHANGED configVars
  BY <1>8 DEF RoundStep, RoundStarts, RoundDecides, RoundSets, RoundReports,
              RoundFails
<1>9. ASSUME NEW i \in Instances, DrainStep(i) PROVE UNCHANGED configVars
  BY <1>9 DEF DrainStep, TaskStarts, TaskEnds, Terminates, Records, Polls,
              Expires, Checks, Heartbeats, Completes, Dies
<1>10. Tick => UNCHANGED configVars BY DEF Tick
<1> QED BY <1>2, <1>3, <1>4, <1>5, <1>6, <1>7, <1>8, <1>9, <1>10
        DEF CapacityNext, AdminStep, capacityVars

LEMMA FormsStep ==
    ASSUME CapacityAssumption, StoredInv, FormsInv, [CapacityNext]_capacityVars,
           ~ \E a \in Admins : Lags(a)
    PROVE  FormsInv'
<1>0. PastInv /\ past \subseteq Read /\ \A b \in Admins : form[b] \in past \cup {Blank} /\ PutInv(b)
  BY DEF StoredInv, FormsInv
<1>1. ASSUME NEW a \in Admins, Get(a) PROVE FormsInv'
  <2>1. /\ config' = config /\ past' = past /\ put' = put /\ put[a] = NoPut
        /\ form'[a] \in past /\ \A b \in Admins \ {a} : form'[b] = form[b]
    BY <1>1 DEF Get, Reads, StoredInv
  <2> QED BY <1>0, <2>1 DEF FormsInv, PastInv, PutInv
<1>2. ASSUME NEW a \in Admins, PutReads(a) PROVE FormsInv'
  <2>1. /\ config' = config /\ past' = past /\ form' = form /\ form[a] # Blank
        /\ \A b \in Admins \ {a} : put'[b] = put[b]
    BY <1>2 DEF PutReads, StoredInv
  <2>2. PICK body \in Bodies, current \in past :
          /\ current # None => form[a] # None
          /\ put' = [put EXCEPT ![a] =
                [pc |-> "writes", item |-> Versioned(body, current),
                 expected |-> IF current = None THEN None ELSE Version(form[a])]]
    BY <1>2 DEF PutReads, Reads
  <2>3. put'[a].expected # None => current # None /\ put'[a].expected = Version(form[a])
    BY <2>2 DEF StoredInv
  <2>4. put'[a].expected # None
          => form[a] \in Configs /\ put'[a].expected = form[a].config_version
    BY <1>0, <2>1, <2>2, <2>3 DEF Version, Read
  <2> QED BY <1>0, <2>1, <2>4 DEF FormsInv, PastInv, PutInv
<1>3. ASSUME NEW a \in Admins, PutWrites(a) PROVE FormsInv'
  <2>1. /\ put[a].item \in Configs /\ put[a].item.config_version \in Nat
        /\ config \in Configs \/ config = None
    BY <1>3, AcceptedIsSeen DEF Configs, StoredInv, Read
  <2>2. config # None => config.config_version < put[a].item.config_version
    BY <1>3, <2>1 DEF Lags, Configs
  <2>3. /\ Store(put[a].item) /\ past' = past \cup {put[a].item}
        /\ form'[a] = put[a].item /\ put'[a] = NoPut
        /\ \A b \in Admins \ {a} : form'[b] = form[b] /\ put'[b] = put[b]
    BY <1>3 DEF PutWrites, Store, StoredInv
  <2>4. PastInv'
    BY <1>0, <2>1, <2>2, <2>3, StoreKeepsPast
  <2> QED BY <1>0, <2>3, <2>4 DEF FormsInv, PutInv
<1>4. ASSUME NEW a \in Admins, PutConflicts(a) PROVE FormsInv'
  <2>1. /\ config' = config /\ past' = past /\ form' = form
        /\ \A b \in Admins : put'[b] \in {put[b], NoPut}
    BY <1>4 DEF PutConflicts, StoredInv
  <2> QED BY <1>0, <2>1 DEF FormsInv, PastInv, PutInv
<1>5. CASE RoundSeeds
  <2>1. form' = form /\ put' = put
    BY <1>5 DEF RoundSeeds
  <2>2. CASE config = None
    <3>1. Store(Versioned(Seed, None))
      BY <1>5, <2>2 DEF RoundSeeds
    <3>2. Versioned(Seed, None) \in Configs
      BY SeedStored, VersionedConfig DEF Read
    <3>3. PastInv' /\ past \subseteq past'
      BY <1>0, <2>2, <3>1, <3>2, StoreKeepsPast DEF Store
    <3> QED BY <1>0, <2>1, <3>3 DEF FormsInv, PutInv
  <2>3. CASE config # None
    <3>1. config' = config /\ past' = past
      BY <1>5, <2>3 DEF RoundSeeds
    <3> QED BY <1>0, <2>1, <3>1 DEF FormsInv, PastInv, PutInv
  <2> QED BY <2>2, <2>3
<1>6. CASE UNCHANGED configVars
  BY <1>0, <1>6 DEF configVars, FormsInv, PastInv, PutInv
<1>7. ASSUME RoundStep, ~RoundSeeds PROVE UNCHANGED configVars
  BY <1>7 DEF RoundStep, RoundStarts, RoundDecides, RoundSets, RoundReports,
              RoundFails
<1>8. ASSUME NEW i \in Instances, DrainStep(i) PROVE UNCHANGED configVars
  BY <1>8 DEF DrainStep, TaskStarts, TaskEnds, Terminates, Records, Polls,
               Expires, Checks, Heartbeats, Completes, Dies
<1>9. Tick => UNCHANGED configVars BY DEF Tick
<1> QED BY <1>1, <1>2, <1>3, <1>4, <1>5, <1>6, <1>7, <1>8, <1>9
        DEF CapacityNext, AdminStep, capacityVars

LEMMA ConfigInit ==
    ASSUME CapacityAssumption, CapacityInit PROVE StoredInv /\ FormsInv
  BY DEF CapacityAssumption, CapacityInit, StoredInv, FormsInv, PastInv, PutInv, Read

\* Only configurations validate_config accepts are ever stored, whatever
\* the admins and the reconciler overlap in.
THEOREM StoredIsValid == ASSUME CapacityAssumption PROVE CapacitySpec => []StoredInv
<1>1. CapacityInit => StoredInv BY ConfigInit
<1>2. StoredInv /\ [CapacityNext]_capacityVars => StoredInv' BY StoredStep
<1> QED BY <1>1, <1>2, PTL DEF CapacitySpec

\* The optimistic lock of put_gpu_capacity_config holds, however reads lag, until a
\* PUT is accepted that numbered its row after an older one: until then, an accepted
\* PUT replaces the row its admin saw.
THEOREM NoUpdateIsLost ==
    ASSUME CapacityAssumption PROVE LagSpec => NoLostUpdateUntilLagged
<1> DEFINE Held == StoredInv /\ lagged \in BOOLEAN /\ (~lagged => FormsInv)
           Step == /\ CapacityNext
                   /\ lagged' = IF \E a \in Admins : Lags(a) THEN TRUE ELSE lagged
<1>1. CapacityInit /\ lagged = FALSE => Held BY ConfigInit
<1>2. Held /\ [Step]_lagVars => Held'
  <2> SUFFICES ASSUME Held, [Step]_lagVars PROVE Held'
    OBVIOUS
  <2>1. [CapacityNext]_capacityVars
    BY DEF lagVars
  <2>2. CASE UNCHANGED lagVars
    BY <2>2 DEF lagVars, capacityVars, configVars, StoredInv, FormsInv, PastInv, PutInv
  <2>3. CASE Step /\ \E a \in Admins : Lags(a)
    BY <2>1, <2>3, StoredStep
  <2>4. CASE Step /\ ~ \E a \in Admins : Lags(a)
    BY <2>1, <2>4, StoredStep, FormsStep
  <2> QED BY <2>2, <2>3, <2>4
<1>3. Held /\ [Step]_lagVars
        => [~lagged => \A a \in Admins : PutWrites(a) => config = form[a]]_lagVars
  BY AcceptedIsSeen
<1> QED BY <1>1, <1>2, <1>3, PTL DEF LagSpec, NoLostUpdateUntilLagged

-----------------------------------------------------------------------------
(* The rounds *)

Deciding == [pc : {"decides"}, at : Nat, cfg : Stored]
Decided == [pc : {"sets", "reports"}, at : Nat, cfg : Stored,
            final : 0..HardMax, since : Nat \cup {None}, lower : BOOLEAN]

RoundTypeOK ==
    /\ desired \in 0..HardMax /\ now \in Nat /\ busiest \in Nat
    /\ since \in Nat \cup {None}
    /\ round \in {NoRound} \cup [pc : {"seeds"}, at : Nat]
                 \cup Deciding \cup Decided

\* The candidate is as old as the last round that asked for anything else,
\* or younger, and a round lowers the count only on an old candidate.
CandidateInv ==
    /\ busiest <= now
    /\ since # None => busiest <= since
    /\ round # NoRound => busiest <= round.at /\ round.at <= now
    /\ round \in Decided =>
        /\ round.since # None => busiest <= round.since
        /\ ~round.lower => round.since = None

LowersOldOnly ==
    round \in Decided =>
        (round.pc = "sets" /\ round.cfg.mode = "auto" /\ round.final < desired
            => round.at - busiest >= Cooldown)

RoundInv == RoundTypeOK /\ CandidateInv /\ LowersOldOnly

LEMMA NeededType ==
    ASSUME CapacityAssumption, NEW n \in Nat, NEW u \in 1..100
    PROVE  Needed(n, u) \in Int
<1>1. PerInstance * u \in Nat
  BY DEF CapacityAssumption
<1> DEFINE served == Larger(PerInstance * u, 100)
<1>2. served \in Nat \ {0}
  BY <1>1 DEF Larger
<1> HIDE DEF served
<1>3. (100 * n + served - 1) \div served \in Int
  BY <1>2
<1> QED BY <1>3 DEF Needed, served

\* Whatever the demand, a valid configuration keeps the target in range.
LEMMA TargetInRange ==
    ASSUME CapacityAssumption, NEW cfg \in Stored, NEW current \in 0..HardMax,
           NEW serving \in Nat, NEW coming \in Nat
    PROVE  ComputeDesired(cfg, current, serving, coming) \in 0..HardMax
<1>1. CASE cfg.mode = "fixed"
  BY <1>1 DEF ComputeDesired, Stored, Bodies, Valid
<1>2. CASE cfg.mode = "auto"
  <2>1. /\ cfg.auto_min \in 0..cfg.auto_max /\ cfg.auto_max \in 0..HardMax
        /\ cfg.target_util \in 1..100
    BY <1>2 DEF Stored, Valid, CapacityAssumption
  <2> DEFINE full == Needed(serving + coming, cfg.target_util)
             sure == Needed(coming, cfg.target_util)
  <2>2. full \in Int /\ sure \in Int
    <3>1. serving + coming \in Nat OBVIOUS
    <3> QED BY <2>1, <3>1, NeededType
  <2> HIDE DEF full, sure
  <2> DEFINE target == IF full > current
                       THEN Larger(sure, Smaller(full, current + ScaleOutStep))
                       ELSE full
  <2>3. target \in Int
    BY <2>2 DEF Larger, Smaller, CapacityAssumption
  <2> HIDE DEF target
  <2>4. Larger(cfg.auto_min, Smaller(target, cfg.auto_max)) \in 0..HardMax
    BY <2>1, <2>3 DEF Larger, Smaller, CapacityAssumption
  <2>5. ComputeDesired(cfg, current, serving, coming)
            = Larger(cfg.auto_min, Smaller(target, cfg.auto_max))
    BY <1>2 DEF ComputeDesired, target, full, sure
  <2> QED BY <2>4, <2>5
<1> QED BY <1>1, <1>2 DEF Stored, Bodies

\* What a decision may be: in range, and lower only on an old candidate.
LEMMA DecisionIsSound ==
    ASSUME CapacityAssumption, RoundInv, NEW cfg \in Stored, NEW at \in Nat,
           busiest <= at, NEW target \in 0..HardMax
    PROVE  LET d == Decision(cfg, at, target)
           IN /\ d \in Decided /\ d.pc = "sets" /\ d.at = at /\ d.cfg = cfg
              /\ d.since # None => busiest <= d.since
              /\ ~d.lower => d.since = None
              /\ cfg.mode = "auto" /\ d.final < desired
                    => at - busiest >= Cooldown
<1>1. cfg.mode \in {"fixed", "auto"} /\ None \notin Nat
      /\ desired \in 0..HardMax /\ busiest \in Nat /\ Cooldown \in Nat
      /\ HardMax \in Nat /\ since \in Nat \cup {None}
      /\ (since # None => busiest <= since)
  BY DEF Stored, Bodies, CapacityAssumption, RoundInv, RoundTypeOK, CandidateInv
<1>2. (cfg.mode = "auto" /\ target < desired) \in BOOLEAN
  OBVIOUS
<1>3. CASE target >= desired \/ cfg.mode = "fixed"
  BY <1>1, <1>2, <1>3 DEF Decision, Decided
<1>4. CASE ~(target >= desired \/ cfg.mode = "fixed")
  <2>1. target < desired /\ cfg.mode = "auto"
    BY <1>1, <1>4
  <2>2. CASE since = None
    <3>1. Decision(cfg, at, target)
            = [pc |-> "sets", at |-> at, cfg |-> cfg, final |-> desired,
               since |-> at, lower |-> TRUE]
      BY <1>4, <2>1, <2>2 DEF Decision
    <3>2. ~(desired < desired) BY <1>1
    <3> QED BY <1>1, <3>1, <3>2 DEF Decided
  <2>3. CASE since # None /\ at - since >= Cooldown
    <3>1. at - busiest >= Cooldown
      BY <1>1, <2>3
    <3> QED BY <1>1, <1>4, <2>1, <2>3, <3>1 DEF Decision, Decided
  <2>4. CASE since # None /\ ~(at - since >= Cooldown)
    <3>1. Decision(cfg, at, target)
            = [pc |-> "sets", at |-> at, cfg |-> cfg, final |-> desired,
               since |-> since, lower |-> TRUE]
      BY <1>4, <2>1, <2>4 DEF Decision
    <3>2. ~(desired < desired) BY <1>1
    <3> QED BY <1>1, <3>1, <3>2 DEF Decided
  <2> QED BY <2>2, <2>3, <2>4
<1> QED BY <1>3, <1>4

LEMMA RoundTypes ==
    ASSUME RoundTypeOK
    PROVE  /\ round.pc = "seeds" => round \in [pc : {"seeds"}, at : Nat]
           /\ round.pc = "decides" => round \in Deciding
           /\ round.pc \in {"sets", "reports"} => round \in Decided
           /\ round \in Decided => round # NoRound /\ round \notin Deciding
           /\ round \in Deciding \cup [pc : {"seeds"}, at : Nat]
                => round # NoRound /\ round \notin Decided
  BY DEF RoundTypeOK, NoRound, Deciding, Decided

LEMMA RoundStepKeeps ==
    ASSUME CapacityAssumption, StoredInv, RoundInv, RoundStep
    PROVE  RoundInv'
<1>0. RoundTypeOK /\ CandidateInv /\ LowersOldOnly
  BY DEF RoundInv
<1>1. CASE RoundStarts
  <2>1. \A read \in Reads : read # None => read.body \in Stored
    BY DEF StoredInv, Reads, Read, Configs
  <2>2. /\ round' \in [pc : {"seeds"}, at : Nat] \cup Deciding
        /\ round'.at = now
    BY <1>0, <1>1, <2>1 DEF RoundStarts, RoundTypeOK, Deciding
  <2>3. UNCHANGED <<desired, since, busiest, now>>
    BY <1>1 DEF RoundStarts
  <2>4. RoundTypeOK'
    BY <1>0, <2>2, <2>3 DEF RoundTypeOK
  <2>5. round' \notin Decided
    BY <2>2 DEF Deciding, Decided
  <2>6. CandidateInv'
    BY <1>0, <2>2, <2>3, <2>5 DEF CandidateInv, RoundTypeOK
  <2> QED BY <2>4, <2>5, <2>6 DEF RoundInv, LowersOldOnly
<1>2. CASE RoundSeeds
  <2>1. Seed \in Stored /\ (\A read \in Reads : read # None => read.body \in Stored)
    BY SeedStored DEF StoredInv, Reads, Read, Configs
  <2>2. round.at \in Nat /\ round # NoRound
    BY <1>0, <1>2, RoundTypes DEF RoundSeeds
  <2>3. round' \in Deciding /\ round'.at = round.at
    BY <1>2, <2>1, <2>2 DEF RoundSeeds, Deciding
  <2>4. UNCHANGED <<desired, since, busiest, now>>
    BY <1>2 DEF RoundSeeds
  <2>5. RoundTypeOK'
    BY <1>0, <2>3, <2>4 DEF RoundTypeOK
  <2>6. round' \notin Decided
    BY <2>3 DEF Deciding, Decided
  <2>7. CandidateInv'
    BY <1>0, <2>2, <2>3, <2>4, <2>6 DEF CandidateInv
  <2> QED BY <2>5, <2>6, <2>7 DEF RoundInv, LowersOldOnly
<1>3. CASE RoundDecides
  <2>1. /\ round \in Deciding /\ round # NoRound
        /\ UNCHANGED <<desired, since, busiest, now>>
    BY <1>0, <1>3, RoundTypes DEF RoundDecides
  <2>2. /\ round.at \in Nat /\ round.cfg \in Stored
        /\ busiest <= round.at /\ round.at <= now
    BY <1>0, <2>1 DEF Deciding, CandidateInv
  <2>3. PICK serving \in 0..MaxDemand, coming \in 0..MaxDemand :
            round' = Decision(round.cfg, round.at,
                        ComputeDesired(round.cfg, desired, serving, coming))
    BY <1>3 DEF RoundDecides
  <2> DEFINE target == ComputeDesired(round.cfg, desired, serving, coming)
  <2>4. target \in 0..HardMax
    <3>1. serving \in Nat /\ coming \in Nat
      BY DEF CapacityAssumption
    <3> QED BY <1>0, <2>2, <3>1, TargetInRange DEF RoundTypeOK
  <2> HIDE DEF target
  <2>5. /\ round' \in Decided /\ round'.pc = "sets"
        /\ round'.at = round.at /\ round'.cfg = round.cfg
        /\ round'.since # None => busiest <= round'.since
        /\ ~round'.lower => round'.since = None
        /\ round.cfg.mode = "auto" /\ round'.final < desired
              => round.at - busiest >= Cooldown
    <3>1. round' = Decision(round.cfg, round.at, target)
      BY <2>3 DEF target
    <3> QED BY <2>2, <2>4, <3>1, DecisionIsSound
  <2>6. RoundTypeOK'
    BY <1>0, <2>1, <2>5 DEF RoundTypeOK
  <2>7. CandidateInv'
    BY <1>0, <2>1, <2>2, <2>5 DEF CandidateInv
  <2>8. LowersOldOnly'
    BY <2>1, <2>5 DEF LowersOldOnly
  <2> QED BY <2>6, <2>7, <2>8 DEF RoundInv
<1>4. CASE RoundSets
  <2>1. /\ round \in Decided /\ round # NoRound
        /\ UNCHANGED <<since, busiest, now>>
        /\ desired' = round.final
    BY <1>0, <1>4, RoundTypes DEF RoundSets
  <2>2. /\ round' \in Decided /\ round'.pc = "reports"
        /\ round'.at = round.at /\ round'.since = round.since
        /\ round'.lower = round.lower
    BY <1>4, <2>1 DEF RoundSets, Decided
  <2>3. RoundTypeOK'
    BY <1>0, <2>1, <2>2 DEF RoundTypeOK, Decided
  <2>4. CandidateInv'
    BY <1>0, <2>1, <2>2 DEF CandidateInv
  <2> QED BY <2>2, <2>3, <2>4 DEF RoundInv, LowersOldOnly
<1>5. CASE RoundReports
  <2>1. /\ round \in Decided /\ round # NoRound
        /\ UNCHANGED <<desired, now>> /\ since' = round.since
        /\ busiest' = IF round.lower THEN busiest ELSE round.at
        /\ round' = NoRound
    BY <1>0, <1>5, RoundTypes DEF RoundReports
  <2>2. /\ round.at \in Nat /\ round.since \in Nat \cup {None}
        /\ round.lower \in BOOLEAN
        /\ busiest <= round.at /\ round.at <= now
        /\ round.since # None => busiest <= round.since
        /\ ~round.lower => round.since = None
    BY <1>0, <2>1 DEF Decided, CandidateInv
  <2>3. round' \notin Decided
    BY <2>1 DEF NoRound, Decided
  <2>4. RoundTypeOK'
    BY <1>0, <2>1, <2>2 DEF RoundTypeOK
  <2>5. CandidateInv'
    <3>1. busiest' <= now' BY <1>0, <2>1, <2>2 DEF CandidateInv
    <3>2. since' # None => busiest' <= since' BY <2>1, <2>2
    <3> QED BY <2>1, <2>3, <3>1, <3>2 DEF CandidateInv
  <2> QED BY <2>3, <2>4, <2>5 DEF RoundInv, LowersOldOnly
<1>6. CASE RoundFails
  <2>1. round' = NoRound /\ UNCHANGED <<desired, since, busiest, now>>
    BY <1>6 DEF RoundFails
  <2>2. round' \notin Decided
    BY <2>1 DEF NoRound, Decided
  <2> QED BY <1>0, <2>1, <2>2
          DEF RoundInv, RoundTypeOK, CandidateInv, LowersOldOnly
<1> QED BY <1>1, <1>2, <1>3, <1>4, <1>5, <1>6 DEF RoundStep

LEMMA RoundInvStep ==
    ASSUME CapacityAssumption, StoredInv, RoundInv, [CapacityNext]_capacityVars
    PROVE  RoundInv'
<1>0. RoundTypeOK /\ CandidateInv /\ LowersOldOnly
  BY DEF RoundInv
<1>1. CASE RoundStep
  BY <1>1, RoundStepKeeps
<1>2. CASE Tick
  <2>1. UNCHANGED roundVars /\ now' = now + 1
    BY <1>2 DEF Tick
  <2>2. now \in Nat /\ busiest \in Nat
        /\ (round # NoRound => round.at \in Nat)
    BY <1>0 DEF RoundTypeOK, Deciding, Decided
  <2>3. RoundTypeOK' /\ LowersOldOnly'
    BY <1>0, <2>1, <2>2 DEF RoundTypeOK, LowersOldOnly, roundVars
  <2>4. CandidateInv'
    BY <1>0, <2>1, <2>2 DEF CandidateInv, roundVars
  <2> QED BY <2>3, <2>4 DEF RoundInv
<1>3. CASE UNCHANGED <<roundVars, now>>
  BY <1>0, <1>3
     DEF RoundInv, RoundTypeOK, CandidateInv, LowersOldOnly, roundVars
<1>4. ASSUME NEW a \in Admins, AdminStep(a) PROVE UNCHANGED <<roundVars, now>>
  BY <1>4 DEF AdminStep, Get, PutReads, PutWrites, PutConflicts
<1>5. ASSUME NEW i \in Instances, DrainStep(i)
      PROVE  UNCHANGED <<roundVars, now>>
  BY <1>5 DEF DrainStep, TaskStarts, TaskEnds, Terminates, Records, Polls,
              Expires, Checks, Heartbeats, Completes, Dies
<1> QED BY <1>1, <1>2, <1>3, <1>4, <1>5 DEF CapacityNext, capacityVars

LEMMA RoundInvInit == ASSUME CapacityAssumption, CapacityInit PROVE RoundInv
  BY DEF CapacityInit, RoundInv, RoundTypeOK, CandidateInv, LowersOldOnly, NoRound,
         Deciding, Decided

\* The count stays within the hard maximum, and auto mode never lowers it
\* within a cooldown of a round that did not ask for less, whichever rounds
\* fail at whichever call.
THEOREM CountIsBounded ==
    ASSUME CapacityAssumption PROVE CapacitySpec => []DesiredIsBounded
<1>1. CapacityInit => StoredInv /\ RoundInv BY ConfigInit, RoundInvInit
<1>2. StoredInv /\ RoundInv /\ [CapacityNext]_capacityVars => (StoredInv /\ RoundInv)'
  BY StoredStep, RoundInvStep
<1>3. RoundInv => DesiredIsBounded
  BY DEF RoundInv, RoundTypeOK, DesiredIsBounded
<1> QED BY <1>1, <1>2, <1>3, PTL DEF CapacitySpec

THEOREM ScaleInKeepsCooldown ==
    ASSUME CapacityAssumption PROVE CapacitySpec => ScaleInWaits
<1>1. CapacityInit => StoredInv /\ RoundInv BY ConfigInit, RoundInvInit
<1>2. StoredInv /\ RoundInv /\ [CapacityNext]_capacityVars => (StoredInv /\ RoundInv)'
  BY StoredStep, RoundInvStep
<1> DEFINE Waits == desired' < desired /\ round.cfg.mode = "auto"
                        => round.at - busiest >= Cooldown
<1>3. StoredInv /\ RoundInv /\ [CapacityNext]_capacityVars => [Waits]_capacityVars
  <2>1. SUFFICES ASSUME RoundInv, CapacityNext, desired' < desired PROVE Waits
    OBVIOUS
  <2>2. RoundSets
    <3>1. desired' # desired
      BY <2>1 DEF RoundInv, RoundTypeOK
    <3>2. ASSUME NEW a \in Admins, AdminStep(a) PROVE desired' = desired
      BY <3>2 DEF AdminStep, Get, PutReads, PutWrites, PutConflicts, roundVars
    <3>3. ASSUME NEW i \in Instances, DrainStep(i) PROVE desired' = desired
      BY <3>3 DEF DrainStep, TaskStarts, TaskEnds, Terminates, Records, Polls,
                  Expires, Checks, Heartbeats, Completes, Dies, roundVars
    <3>4. Tick => desired' = desired BY DEF Tick, roundVars
    <3>5. RoundStep /\ ~RoundSets => desired' = desired
      BY DEF RoundStep, RoundStarts, RoundSeeds, RoundDecides, RoundReports,
             RoundFails
    <3> QED BY <2>1, <3>1, <3>2, <3>3, <3>4, <3>5 DEF CapacityNext
  <2>3. round \in Decided /\ round.pc = "sets" /\ desired' = round.final
    BY <2>1, <2>2, RoundTypes DEF RoundSets, RoundInv
  <2> QED BY <2>1, <2>3 DEF RoundInv, LowersOldOnly
<1> QED BY <1>1, <1>2, <1>3, PTL DEF CapacitySpec, ScaleInWaits

-----------------------------------------------------------------------------
(* The drain *)

VisitStates == {"away", "records", "checks", "busy", "idle"}

DrainTypeOK ==
    /\ hook \in [Instances -> {"running", "waits", "released", "expired"}]
    /\ tasks \in [Instances -> BOOLEAN]
    /\ row \in [Instances -> BOOLEAN]
    /\ visit \in [Instances -> [Invocations -> VisitStates]]

\* Nobody visits an instance that runs, so what a visit found idle cannot
\* get a task again.
VisitInv(i) ==
    /\ hook[i] = "running" =>
        ~row[i] /\ \A k \in Invocations : visit[i][k] = "away"
    /\ \A k \in Invocations : visit[i][k] = "idle" => ~tasks[i]
    /\ hook[i] = "released" => ~tasks[i]

DrainInv == DrainTypeOK /\ \A i \in Instances : VisitInv(i)

LEMMA DrainInvStep ==
    ASSUME DrainInv, [CapacityNext]_capacityVars
    PROVE  DrainInv'
<1>1. DrainTypeOK /\ \A i \in Instances : VisitInv(i)
  BY DEF DrainInv
<1> USE DEF Invocations, VisitStates
<1>2. ASSUME NEW i \in Instances, TaskStarts(i) PROVE DrainInv'
  BY <1>1, <1>2 DEF TaskStarts, DrainInv, DrainTypeOK, VisitInv
<1>3. ASSUME NEW i \in Instances, TaskEnds(i) PROVE DrainInv'
  BY <1>1, <1>3 DEF TaskEnds, DrainInv, DrainTypeOK, VisitInv
<1>4. ASSUME NEW i \in Instances, Terminates(i) PROVE DrainInv'
  BY <1>1, <1>4 DEF Terminates, DrainInv, DrainTypeOK, VisitInv
<1>5. ASSUME NEW i \in Instances, Records(i) PROVE DrainInv'
  BY <1>1, <1>5 DEF Records, DrainInv, DrainTypeOK, VisitInv
<1>6. ASSUME NEW i \in Instances, Polls(i) PROVE DrainInv'
  BY <1>1, <1>6 DEF Polls, DrainInv, DrainTypeOK, VisitInv
<1>7. ASSUME NEW i \in Instances, Expires(i) PROVE DrainInv'
  BY <1>1, <1>7 DEF Expires, DrainInv, DrainTypeOK, VisitInv
<1>8. ASSUME NEW i \in Instances, NEW k \in Invocations, Checks(i, k)
      PROVE  DrainInv'
  BY <1>1, <1>8, SMTT(30) DEF Checks, DrainInv, DrainTypeOK, VisitInv
<1>9. ASSUME NEW i \in Instances, NEW k \in Invocations, Heartbeats(i, k)
      PROVE  DrainInv'
  <2>1. /\ visit' \in [Instances -> [Invocations -> VisitStates]]
        /\ \A j \in Instances : \A l \in Invocations : visit'[j][l] \in {visit[j][l], "away"}
    BY <1>1, <1>9 DEF Heartbeats, DrainTypeOK
  <2>2. row' \in [Instances -> BOOLEAN] /\ \A j \in Instances : row'[j] => row[j]
    BY <1>1, <1>9 DEF Heartbeats, DrainTypeOK
  <2>3. hook' = hook /\ tasks' = tasks
    BY <1>9 DEF Heartbeats
  <2> QED
    BY <1>1, <2>1, <2>2, <2>3 DEF DrainInv, DrainTypeOK, VisitInv
<1>10. ASSUME NEW i \in Instances, NEW k \in Invocations, Completes(i, k)
       PROVE  DrainInv'
  <2>1. /\ visit' \in [Instances -> [Invocations -> VisitStates]]
        /\ \A j \in Instances : \A l \in Invocations : visit'[j][l] \in {visit[j][l], "away"}
    BY <1>1, <1>10 DEF Completes, DrainTypeOK
  <2>2. row' \in [Instances -> BOOLEAN] /\ \A j \in Instances : row'[j] => row[j]
    BY <1>1, <1>10 DEF Completes, DrainTypeOK
  <2>3. tasks' = tasks /\ ~tasks[i]
    BY <1>1, <1>10 DEF Completes, VisitInv
  <2>4. /\ hook' \in [Instances -> {"running", "waits", "released", "expired"}]
        /\ \A j \in Instances : \/ hook'[j] = hook[j]
                                \/ j = i /\ hook[j] = "waits" /\ hook'[j] = "released"
    <3>1. \/ hook' = hook
          \/ hook' = [hook EXCEPT ![i] = IF @ = "waits" THEN "released" ELSE @]
      BY <1>10 DEF Completes
    <3>2. hook \in [Instances -> {"running", "waits", "released", "expired"}]
      BY <1>1 DEF DrainTypeOK
    <3>3. CASE hook' = hook
      BY <3>2, <3>3, Zenon
    <3>4. CASE hook' = [hook EXCEPT ![i] = IF @ = "waits" THEN "released" ELSE @]
      BY <1>10, <3>2, <3>4
    <3> QED
      BY <3>1, <3>3, <3>4
  <2> QED
    BY <1>1, <2>1, <2>2, <2>3, <2>4 DEF DrainInv, DrainTypeOK, VisitInv
<1>11. ASSUME NEW i \in Instances, NEW k \in Invocations, Dies(i, k)
       PROVE  DrainInv'
  BY <1>1, <1>11 DEF Dies, DrainInv, DrainTypeOK, VisitInv
<1>12. CASE UNCHANGED drainVars
  BY <1>1, <1>12 DEF drainVars, DrainInv, DrainTypeOK, VisitInv
<1>13. ASSUME NEW a \in Admins, AdminStep(a) PROVE UNCHANGED drainVars
  BY <1>13 DEF AdminStep, Get, PutReads, PutWrites, PutConflicts
<1>14. RoundStep \/ Tick => UNCHANGED drainVars
  BY DEF RoundStep, RoundStarts, RoundSeeds, RoundDecides, RoundSets,
         RoundReports, RoundFails, Tick
<1> QED BY <1>2, <1>3, <1>4, <1>5, <1>6, <1>7, <1>8, <1>9, <1>10, <1>11,
           <1>12, <1>13, <1>14 DEF CapacityNext, DrainStep, capacityVars

\* However the event of an instance and the polls of its token overlap, and
\* whatever fails, an instance is given up to ASG only when drained.
THEOREM ReleasesDrainedOnly == CapacitySpec => []ReleasedIsDrained
<1>1. CapacityInit => DrainInv
  BY DEF CapacityInit, DrainInv, DrainTypeOK, VisitInv, Invocations, VisitStates
<1>2. DrainInv /\ [CapacityNext]_capacityVars => DrainInv' BY DrainInvStep
<1>3. DrainInv => ReleasedIsDrained
  BY DEF DrainInv, VisitInv, ReleasedIsDrained
<1> QED BY <1>1, <1>2, <1>3, PTL DEF CapacitySpec

(***************************************************************************)
(* SpeechService                                                           *)
(***************************************************************************)

\* The speaker has a sentence in hand.
InHand(r) == r.tts.ph # "none" /\ r.tts.ph # "get"

\* The sentences the speaker is through with.
Past(r) == IF InHand(r) THEN r.said - Len(r.q) - 1 ELSE r.said - Len(r.q)

\* Sentences are spoken in the order they came, and ended as they are left
\* behind, all of them as long as nothing was cancelled.
SpeakerInv(r) ==
    /\ r.acked <= r.cut /\ ~r.late
    /\ Past(r) >= 0
    /\ \A i \in 1..Len(r.q) : r.q[i].s = r.said - Len(r.q) + i /\ r.q[i].cut <= r.cut
    /\ InHand(r) => r.tts.s = Past(r) + 1 /\ r.tts.cut <= r.cut
    /\ r.tts.ph = "send" /\ r.tts.frame # "done" => r.tts.n < MaxChunks
    /\ \A s \in 1..MaxSentences :
          /\ r.ends[s] <= 1
          /\ s > Past(r) => r.ends[s] = 0
          /\ r.cut = 0 /\ s <= Past(r) => r.ends[s] = 1
    /\ r.cut = 0 => ~r.cancelled

\* A connection holds a slot from its start until it leaves.
AdmissionInv ==
    /\ \A c \in Conns :
          conn[c].admitted <=> conn[c].at \in {"protect", "live", "asr", "join"}
    /\ active = Cardinality({c \in Conns : conn[c].admitted})

\* A recognition that is awaited has its connection waiting, for it alone.
JobsInv ==
    /\ \A i \in DOMAIN jobs : ~jobs[i].left => conn[jobs[i].c].at = "asr"
    /\ \A i, j \in DOMAIN jobs :
          ~jobs[i].left /\ ~jobs[j].left /\ jobs[i].c = jobs[j].c => i = j
    /\ \A i \in DOMAIN jobs : jobs[i].left => ~healthy

Job == [c : Conns, kind : Kinds, left : BOOLEAN]
Item == [s : 1..MaxSentences, cut : Nat]
Voice == [ph : {"none", "get", "idle", "clear", "compute", "send", "failed"},
          s : 0..MaxSentences, cut : Nat, n : 0..MaxChunks,
          frame : {"none", "audio", "done"}]

IInv == TypeOK /\ (\A c \in Conns : SpeakerInv(conn[c])) /\ AdmissionInv /\ JobsInv

-------------------------------------------------------------------------------
(* What a connection says and what it holds *)

\* A connection as the code may leave it.
Sane(r) ==
    /\ r \in Sessions /\ SpeakerInv(r)
    /\ r.admitted <=> r.at \in {"protect", "live", "asr", "join"}

LEMMA SeqElement ==
    ASSUME NEW S, NEW q \in Seq(S), NEW i \in 1..Len(q)
    PROVE  q[i] \in S
  OBVIOUS

\* What the fields of a connection may hold.
LEMMA Fields ==
    ASSUME NEW r \in Sessions
    PROVE  /\ r.said \in 0..MaxSentences /\ r.said \in Int /\ r.cut \in Nat
           /\ r.acked \in Nat
           /\ r.q \in Seq(Item) /\ Len(r.q) \in Nat /\ r.tts \in Voice
           /\ r.todo \in Seq(Kinds) /\ r.ends \in [1..MaxSentences -> Nat]
           /\ \A i \in 1..Len(r.q) : r.q[i].s \in 1..MaxSentences /\ r.q[i].cut \in Nat
<1>1. r.q \in Seq(Item)
  BY DEF Sessions, Item
<1>2. \A i \in 1..Len(r.q) : r.q[i] \in Item
  BY <1>1, SeqElement
<1>3. \A i \in 1..Len(r.q) : r.q[i].s \in 1..MaxSentences /\ r.q[i].cut \in Nat
  BY <1>2 DEF Item
<1>4. r.tts \in Voice
  BY DEF Sessions, Voice
<1>5. r.said \in 0..MaxSentences /\ r.cut \in Nat /\ r.acked \in Nat
  BY DEF Sessions
<1>6. r.todo \in Seq(Kinds) /\ r.ends \in [1..MaxSentences -> Nat]
  BY DEF Sessions
<1>7. MaxSentences \in Nat
  BY ServiceAssumption
<1>8. QED
  BY <1>1, <1>3, <1>4, <1>5, <1>6, <1>7

\* A change that does not touch the speaker, but for a cancellation.
LEMMA SpeakerKept ==
    ASSUME NEW r, NEW n, SpeakerInv(r),
           n.said = r.said, n.q = r.q, n.tts = r.tts, n.ends = r.ends, n.late = r.late,
           n.cut >= r.cut, n.acked <= n.cut, r.cut \in Nat, n.cut \in Nat,
           n.cut = 0 => ~n.cancelled,
           r \in Sessions
    PROVE  SpeakerInv(n)
<1>1. Past(n) = Past(r) /\ InHand(n) = InHand(r)
  BY DEF Past, InHand
<1>2. r.tts.cut \in Nat
  BY Fields DEF Voice
<1>3. \A i \in 1..Len(r.q) : r.q[i].cut \in Nat
  BY Fields
<1>4. \A i \in 1..Len(n.q) : n.q[i].s = n.said - Len(n.q) + i /\ n.q[i].cut <= n.cut
  BY <1>3 DEF SpeakerInv
<1>5. InHand(n) => n.tts.s = Past(n) + 1 /\ n.tts.cut <= n.cut
  BY <1>1, <1>2 DEF SpeakerInv
<1>6. \A s \in 1..MaxSentences :
          /\ n.ends[s] <= 1
          /\ s > Past(n) => n.ends[s] = 0
          /\ n.cut = 0 /\ s <= Past(n) => n.ends[s] = 1
  BY <1>1 DEF SpeakerInv
<1>7. QED
  BY <1>1, <1>4, <1>5, <1>6 DEF SpeakerInv

LEMMA NothingSaid ==
    ASSUME NEW r, r.said = 0, Len(r.q) = 0, r.tts.ph = "none"
    PROVE  Past(r) = 0 /\ ~InHand(r)
  BY DEF Past, InHand

LEMMA AwayIsSane == Away \in Sessions /\ SpeakerInv(Away)
<1>1. <<>> \in Seq(Kinds) /\ <<>> \in Seq([s : 1..MaxSentences, cut : Nat])
  OBVIOUS
<1>2. 0 \in 0..MaxSentences /\ 0 \in 0..MaxChunks /\ 0 \in Nat
  BY ServiceAssumption
<1>3. Silent \in [ph : {"none", "get", "idle", "clear", "compute", "send", "failed"},
                  s : 0..MaxSentences, cut : Nat, n : 0..MaxChunks,
                  frame : {"none", "audio", "done"}]
  BY <1>2 DEF Silent
<1>4. [s \in 1..MaxSentences |-> 0] \in [1..MaxSentences -> Nat]
  OBVIOUS
<1>5. Away \in Sessions
  BY <1>1, <1>2, <1>3, <1>4, ZenonT(30) DEF Away, Sessions
<1>6. /\ Away.q = <<>> /\ Away.said = 0 /\ Away.tts.ph = "none" /\ Away.cut = 0
      /\ Away.acked = 0 /\ ~Away.late /\ ~Away.cancelled
      /\ \A s \in 1..MaxSentences : Away.ends[s] = 0
  BY DEF Away, Silent
<1>7. Past(Away) = 0 /\ ~InHand(Away)
  <2>1. Len(Away.q) = 0
    BY <1>6
  <2>2. QED
    BY <1>6, <2>1, NothingSaid
<1>8. SpeakerInv(Away)
  BY <1>6, <1>7 DEF SpeakerInv
<1>9. QED
  BY <1>5, <1>8

LEMMA GoneIsSane ==
    ASSUME NEW r \in Sessions, ~r.late
    PROVE  Sane(Gone(r)) /\ Gone(r).at = "gone" /\ ~Gone(r).admitted
<1> DEFINE g == Gone(r)
<1>1. g \in Sessions
  <2>1. r.late \in BOOLEAN
    BY DEF Sessions
  <2>2. QED
    BY <2>1, AwayIsSane, ZenonT(30) DEF Gone, Sessions
<1>2. /\ g.q = Away.q /\ g.said = Away.said /\ g.tts = Away.tts /\ g.ends = Away.ends
      /\ g.cut = Away.cut /\ g.acked = Away.acked /\ g.cancelled = Away.cancelled
      /\ g.late = r.late /\ g.at = "gone" /\ g.admitted = Away.admitted
  BY AwayIsSane DEF Gone, Sessions
<1>3. ~Away.late /\ ~Away.admitted /\ Away.cut = 0 /\ Away.acked = 0 /\ ~Away.cancelled
  BY DEF Away
<1> HIDE DEF g
<1>4. SpeakerInv(g)
  <2>1. Away.cut \in Nat /\ g.cut \in Nat /\ g.cut >= Away.cut /\ g.acked <= g.cut
    BY <1>2, <1>3
  <2>2. ~g.cancelled /\ g.late = Away.late
    BY <1>2, <1>3, AwayIsSane, Fields DEF Sessions
  <2>3. QED
    BY <1>2, <2>1, <2>2, AwayIsSane, SpeakerKept
<1>5. QED
  BY <1>1, <1>2, <1>3, <1>4 DEF Sane, g

LEMMA StopIsSane ==
    ASSUME NEW r, Sane(r)
    PROVE  Sane(StopTts(r)) /\ StopTts(r).at = r.at /\ StopTts(r).admitted = r.admitted
<1> DEFINE n == StopTts(r)
<1>1. n \in Sessions
  <2>1. r \in Sessions /\ r.cut + 1 \in Nat
    BY DEF Sane, Sessions
  <2>2. QED
    BY <2>1, ZenonT(30) DEF Sessions, StopTts
<1>2. /\ n.said = r.said /\ n.q = r.q /\ n.tts = r.tts /\ n.ends = r.ends
      /\ n.late = r.late /\ n.cut = r.cut + 1 /\ n.acked = r.acked
      /\ n.at = r.at /\ n.admitted = r.admitted /\ r.cut \in Nat /\ r.acked \in Nat
  BY DEF StopTts, Sane, Sessions
<1> HIDE DEF n
<1>3. r.acked <= r.cut
  BY DEF Sane, SpeakerInv
<1>4. SpeakerInv(n)
  BY <1>2, <1>3, SpeakerKept DEF Sane
<1>5. QED
  BY <1>1, <1>2, <1>4 DEF Sane, n

\* A handler changes what it has to do, where it stands and its own input.
LEMMA HandlerIsSane ==
    ASSUME NEW r, Sane(r), NEW n \in Sessions,
           n.said = r.said, n.q = r.q, n.tts = r.tts, n.ends = r.ends, n.late = r.late,
           n.cut = r.cut, n.cancelled = r.cancelled, n.acked \in {r.acked, r.cut},
           n.admitted <=> n.at \in {"protect", "live", "asr", "join"}
    PROVE  Sane(n)
<1>1. r.cut \in Nat /\ r.acked <= r.cut /\ r \in Sessions /\ SpeakerInv(r)
      /\ (r.cut = 0 => ~r.cancelled)
  BY DEF Sane, Sessions, SpeakerInv
<1>2. SpeakerInv(n)
  BY <1>1, SpeakerKept
<1>3. QED
  BY <1>2 DEF Sane

-------------------------------------------------------------------------------
(* The speaker *)

\* Only what the speaker holds changes: where it is with the same sentence.
LEMMA PhaseIsSane ==
    ASSUME NEW r, Sane(r), InHand(r), NEW t \in Voice,
           t.s = r.tts.s, t.cut = r.tts.cut, t.ph # "none", t.ph # "get",
           t.ph = "send" /\ t.frame # "done" => t.n < MaxChunks,
           NEW n, n = [r EXCEPT !.tts = t]
    PROVE  Sane(n)
<1>1. r \in Sessions
  BY DEF Sane
<1>2. n \in Sessions
  BY <1>1, ZenonT(30) DEF Sessions, Voice
<1>3. /\ n.said = r.said /\ n.q = r.q /\ n.tts = t /\ n.ends = r.ends
      /\ n.late = r.late /\ n.cut = r.cut /\ n.acked = r.acked
      /\ n.at = r.at /\ n.admitted = r.admitted /\ n.cancelled = r.cancelled
  BY <1>1 DEF Sessions
<1>4. InHand(n)
  BY <1>3 DEF InHand
<1>5. Past(n) = Past(r)
  BY <1>3, <1>4 DEF Past
<1>6. SpeakerInv(n)
  BY <1>3, <1>4, <1>5 DEF Sane, SpeakerInv
<1>7. QED
  BY <1>2, <1>3, <1>6 DEF Sane

\* The sentence in hand has not been ended, and is the next to be.
LEMMA HandFields ==
    ASSUME NEW r, Sane(r), InHand(r)
    PROVE  /\ Past(r) \in Nat /\ r.tts.s = Past(r) + 1
           /\ r.tts.s \in 1..MaxSentences /\ r.ends[r.tts.s] = 0
           /\ Past(r) = r.said - Len(r.q) - 1
           /\ r.tts.cut \in Nat /\ r.tts.cut <= r.cut
<1>1. /\ r.said \in 0..MaxSentences /\ r.said \in Int /\ Len(r.q) \in Nat
      /\ r.tts \in Voice
  BY Fields DEF Sane
<1>2. Past(r) = r.said - Len(r.q) - 1
  BY DEF Past
<1>3. Past(r) \in Int /\ Past(r) >= 0 /\ r.tts.s = Past(r) + 1 /\ r.tts.cut <= r.cut
  BY <1>1, <1>2 DEF Sane, SpeakerInv
<1>4. r.tts.s \in 0..MaxSentences /\ r.tts.cut \in Nat
  BY <1>1 DEF Voice
<1>5. r.tts.s \in 1..MaxSentences /\ r.tts.s > Past(r)
  BY <1>3, <1>4, ServiceAssumption
<1>6. r.ends[r.tts.s] = 0
  BY <1>5 DEF Sane, SpeakerInv
<1>7. QED
  BY <1>2, <1>3, <1>4, <1>5, <1>6

\* The speaker puts its sentence down, ended or with e as it was, which it may
\* only after a cancellation.
LEMMA NextIsSane ==
    ASSUME NEW r, Sane(r), InHand(r), NEW e,
           \/ e = [r.ends EXCEPT ![r.tts.s] = @ + 1]
           \/ e = r.ends /\ r.cut # 0,
           NEW n, n \in Sessions, ~InHand(n),
           n.said = r.said, n.q = r.q, n.ends = e, n.late = r.late, n.cut = r.cut,
           n.acked = r.acked, n.cancelled = r.cancelled, n.at = r.at,
           n.admitted = r.admitted
    PROVE  Sane(n)
<1>1. /\ Past(r) \in Nat /\ r.tts.s = Past(r) + 1 /\ r.tts.s \in 1..MaxSentences
      /\ r.ends[r.tts.s] = 0 /\ Past(r) = r.said - Len(r.q) - 1
  BY HandFields
<1>2. Past(n) = r.said - Len(r.q)
  BY DEF Past
<1>3. r.said \in Int /\ Len(r.q) \in Nat /\ r.ends \in [1..MaxSentences -> Nat]
  BY Fields DEF Sane
<1>4. Past(n) = Past(r) + 1 /\ Past(n) \in Nat
  BY <1>1, <1>2, <1>3
<1>5. \A s \in 1..MaxSentences :
          /\ n.ends[s] <= 1
          /\ s > Past(n) => n.ends[s] = 0
          /\ n.cut = 0 /\ s <= Past(n) => n.ends[s] = 1
  <2> TAKE s \in 1..MaxSentences
  <2>1. /\ r.ends[s] <= 1 /\ (s > Past(r) => r.ends[s] = 0)
        /\ (r.cut = 0 /\ s <= Past(r) => r.ends[s] = 1)
    BY DEF Sane, SpeakerInv
  <2>2. CASE e = r.ends /\ r.cut # 0
    BY <2>1, <2>2, <1>1, <1>4
  <2>3. CASE e = [r.ends EXCEPT ![r.tts.s] = @ + 1]
    <3>0. e[r.tts.s] = r.ends[r.tts.s] + 1 /\ (s # r.tts.s => e[s] = r.ends[s])
      BY <1>1, <1>3, <2>3, Zenon
    <3>1. e[r.tts.s] = 1 /\ (s # r.tts.s => e[s] = r.ends[s])
      BY <1>1, <3>0
    <3>2. CASE s = r.tts.s
      BY <3>1, <3>2, <1>1, <1>4
    <3>3. CASE s # r.tts.s
      BY <3>1, <3>3, <2>1, <1>1, <1>4
    <3>4. QED
      BY <3>2, <3>3
  <2>4. QED
    BY <2>2, <2>3
<1>6. SpeakerInv(n)
  <2>1. n.tts.ph # "send"
    BY DEF InHand
  <2>2. \A i \in 1..Len(n.q) : n.q[i].s = n.said - Len(n.q) + i /\ n.q[i].cut <= n.cut
    BY DEF Sane, SpeakerInv
  <2>3. n.acked <= n.cut /\ ~n.late /\ (n.cut = 0 => ~n.cancelled)
    BY DEF Sane, SpeakerInv
  <2>4. QED
    BY <1>4, <1>5, <2>1, <2>2, <2>3 DEF SpeakerInv
<1>7. QED
  BY <1>6 DEF Sane

LEMMA DropIsSane ==
    ASSUME NEW r, Sane(r), InHand(r), r.cut # 0
    PROVE  Sane(NextSentence(r)) /\ NextSentence(r).admitted = r.admitted
           /\ NextSentence(r).at = r.at
<1> DEFINE n == NextSentence(r)
           t == [Silent EXCEPT !.ph = "get"]
<1>1. t = [ph |-> "get", s |-> 0, cut |-> 0, n |-> 0, frame |-> "none"]
  BY DEF Silent
<1>2. t \in Voice
  BY <1>1, ServiceAssumption DEF Voice
<1> HIDE DEF t
<1>3. r \in Sessions
  BY DEF Sane
<1>4. n = [r EXCEPT !.tts = t]
  BY DEF NextSentence, t
<1> HIDE DEF n
<1>5. n \in Sessions
  BY <1>2, <1>3, <1>4, ZenonT(30) DEF Sessions, Voice
<1>6. /\ n.said = r.said /\ n.q = r.q /\ n.tts = t /\ n.ends = r.ends
      /\ n.late = r.late /\ n.cut = r.cut /\ n.acked = r.acked
      /\ n.at = r.at /\ n.admitted = r.admitted /\ n.cancelled = r.cancelled
  BY <1>3, <1>4 DEF Sessions
<1>7. ~InHand(n)
  BY <1>6, <1>1 DEF InHand
<1>8. Sane(n)
  BY <1>5, <1>6, <1>7, NextIsSane
<1>9. QED
  BY <1>6, <1>8 DEF n

LEMMA EndIsSane ==
    ASSUME NEW r, Sane(r), InHand(r)
    PROVE  Sane(NextSentence(Done(r))) /\ NextSentence(Done(r)).admitted = r.admitted
           /\ NextSentence(Done(r)).at = r.at
<1> DEFINE n == NextSentence(Done(r))
           t == [Silent EXCEPT !.ph = "get"]
           e == [r.ends EXCEPT ![r.tts.s] = @ + 1]
<1>1. t = [ph |-> "get", s |-> 0, cut |-> 0, n |-> 0, frame |-> "none"]
  BY DEF Silent
<1>2. t \in Voice
  BY <1>1, ServiceAssumption DEF Voice
<1>3. r \in Sessions /\ r.ends \in [1..MaxSentences -> Nat]
  BY Fields DEF Sane
<1>4. e \in [1..MaxSentences -> Nat]
  BY <1>3, HandFields
<1>5. Done(r) = [r EXCEPT !.ends = e]
  BY <1>3 DEF Done, Sessions
<1> HIDE DEF t, e
<1>6. Done(r) \in Sessions
  BY <1>3, <1>4, <1>5, ZenonT(30) DEF Sessions
<1>7. n = [Done(r) EXCEPT !.tts = t]
  BY DEF NextSentence, t
<1> HIDE DEF n
<1>8. n \in Sessions
  BY <1>2, <1>6, <1>7, ZenonT(30) DEF Sessions, Voice
<1>9. /\ n.said = r.said /\ n.q = r.q /\ n.tts = t /\ n.ends = e
      /\ n.late = r.late /\ n.cut = r.cut /\ n.acked = r.acked
      /\ n.at = r.at /\ n.admitted = r.admitted /\ n.cancelled = r.cancelled
  BY <1>3, <1>5, <1>6, <1>7 DEF Sessions
<1>10. ~InHand(n)
  BY <1>9, <1>1 DEF InHand
<1>11. Sane(n)
  BY <1>8, <1>9, <1>10, NextIsSane DEF e
<1>12. QED
  BY <1>9, <1>11 DEF n

LEMMA SendIsSane ==
    ASSUME NEW r, Sane(r), r.tts.ph = "send", r.tts.frame # "done", r.tts.cut = r.cut
    PROVE  Sane(Frame(r)) /\ Frame(r).admitted = r.admitted /\ Frame(r).at = r.at
<1> DEFINE n == Frame(r)
           t == [r.tts EXCEPT !.n = @ + 1, !.ph = "compute"]
<1>1. r \in Sessions /\ r.tts \in Voice /\ r.cut \in Nat /\ r.acked \in Nat
  BY Fields DEF Sane
<1>2. ~r.late /\ r.acked <= r.cut /\ r.tts.n < MaxChunks
  BY DEF Sane, SpeakerInv
<1>3. InHand(r)
  BY DEF InHand
<1>4. /\ t.s = r.tts.s /\ t.cut = r.tts.cut /\ t.ph = "compute" /\ t.n = r.tts.n + 1
      /\ t.frame = r.tts.frame
  BY <1>1 DEF Voice
<1>5. t \in Voice
  <2>1. r.tts.n + 1 \in 0..MaxChunks
    BY <1>1, <1>2, ServiceAssumption DEF Voice
  <2>2. QED
    BY <1>1, <2>1, ZenonT(30) DEF Voice
<1>6. n = [r EXCEPT !.tts = t]
  <2>1. ~(r.tts.cut < r.acked)
    BY <1>1, <1>2
  <2>2. (r.late \/ r.tts.cut < r.acked) = r.late
    BY <1>1, <1>2, <2>1 DEF Sessions
  <2>3. n = [[r EXCEPT !.late = r.late, !.tts.n = @ + 1] EXCEPT !.tts.ph = "compute"]
    BY <2>2, ZenonT(30) DEF Frame, Audio
  <2>4. QED
    BY <1>1, <2>3 DEF Sessions
<1> HIDE DEF n, t
<1>7. Sane(n)
  BY <1>3, <1>4, <1>5, <1>6, PhaseIsSane
<1>8. n.admitted = r.admitted /\ n.at = r.at
  BY <1>1, <1>6 DEF Sessions
<1>9. QED
  BY <1>7, <1>8 DEF n

\* The oldest sentence is taken.
Taken(r) ==
    [r EXCEPT !.q = Tail(@),
              !.tts = [ph |-> "idle", s |-> Head(r.q).s, cut |-> Head(r.q).cut,
                       n |-> 0, frame |-> "none"]]
LEMMA TakeIsSane ==
    ASSUME NEW r, Sane(r), r.tts.ph = "get", r.q # <<>>
    PROVE  Sane(Taken(r)) /\ Taken(r).admitted = r.admitted /\ Taken(r).at = r.at
<1> DEFINE n == Taken(r)
           t == [ph |-> "idle", s |-> Head(r.q).s, cut |-> Head(r.q).cut,
                 n |-> 0, frame |-> "none"]
           q == Tail(r.q)
<1>1. r \in Sessions /\ r.q \in Seq(Item) /\ r.said \in Int
  BY Fields DEF Sane
<1>2. /\ Len(r.q) \in Nat /\ Len(r.q) > 0 /\ q \in Seq(Item) /\ Len(q) = Len(r.q) - 1
      /\ Head(r.q) = r.q[1] /\ \A i \in 1..Len(q) : q[i] = r.q[i + 1]
  BY <1>1
<1>3. /\ r.q[1].s \in 1..MaxSentences /\ r.q[1].cut \in Nat
      /\ r.q[1].s = r.said - Len(r.q) + 1 /\ r.q[1].cut <= r.cut
  BY <1>1, <1>2, Fields DEF Sane, SpeakerInv
<1>4. t \in Voice
  BY <1>2, <1>3, ServiceAssumption DEF Voice
<1>5. t.ph = "idle" /\ t.s = r.q[1].s /\ t.cut = r.q[1].cut /\ t.n = 0
  BY <1>2
<1>6. n = [r EXCEPT !.q = q, !.tts = t]
  BY DEF Taken
<1> HIDE DEF n, t, q
<1>7. n \in Sessions
  BY <1>1, <1>2, <1>4, <1>6, ZenonT(30) DEF Sessions, Voice, Item
<1>8. /\ n.said = r.said /\ n.q = q /\ n.tts = t /\ n.ends = r.ends
      /\ n.late = r.late /\ n.cut = r.cut /\ n.acked = r.acked
      /\ n.at = r.at /\ n.admitted = r.admitted /\ n.cancelled = r.cancelled
  BY <1>1, <1>6 DEF Sessions
<1>9. InHand(n) /\ ~InHand(r)
  BY <1>5, <1>8 DEF InHand
<1>10. Past(r) = r.said - Len(r.q) /\ Past(n) = n.said - Len(n.q) - 1
  BY <1>9 DEF Past
<1>11. Past(n) = Past(r)
  BY <1>1, <1>2, <1>8, <1>10
<1>12. n.tts.s = Past(n) + 1
  BY <1>1, <1>2, <1>3, <1>5, <1>8, <1>10
<1>13. \A i \in 1..Len(n.q) : n.q[i].s = n.said - Len(n.q) + i /\ n.q[i].cut <= n.cut
  <2> TAKE i \in 1..Len(n.q)
  <2>1. i + 1 \in 1..Len(r.q) /\ q[i] = r.q[i + 1]
    BY <1>2, <1>8
  <2>2. r.q[i + 1].s = r.said - Len(r.q) + (i + 1) /\ r.q[i + 1].cut <= r.cut
    BY <2>1 DEF Sane, SpeakerInv
  <2>3. r.said - Len(r.q) + (i + 1) = n.said - Len(n.q) + i
    BY <1>1, <1>2, <1>8
  <2>4. n.q[i] = r.q[i + 1]
    BY <1>8, <2>1
  <2>5. QED
    BY <1>8, <2>2, <2>3, <2>4
<1>14. SpeakerInv(n)
  BY <1>3, <1>5, <1>8, <1>9, <1>11, <1>12, <1>13 DEF Sane, SpeakerInv
<1>15. QED
  BY <1>7, <1>8, <1>14 DEF Sane, n

\* A sentence to be spoken is queued.
Said(r) ==
    [r EXCEPT !.said = r.said + 1,
              !.q = Append(@, [s |-> r.said + 1, cut |-> r.cut]),
              !.tts.ph = IF @ = "none" THEN "get" ELSE @]
LEMMA SayIsSane ==
    ASSUME NEW r, Sane(r), r.said < MaxSentences
    PROVE  Sane(Said(r)) /\ Said(r).admitted = r.admitted /\ Said(r).at = r.at
<1> DEFINE n == Said(r)
           t == [r.tts EXCEPT !.ph = IF @ = "none" THEN "get" ELSE @]
           item == [s |-> r.said + 1, cut |-> r.cut]
           q == Append(r.q, item)
<1>1. /\ r \in Sessions /\ r.q \in Seq(Item) /\ r.said \in 0..MaxSentences /\ r.cut \in Nat
      /\ r.tts \in Voice /\ Len(r.q) \in Nat /\ r.said \in Int
  BY Fields DEF Sane
<1>2. r.said + 1 \in 1..MaxSentences /\ r.said + 1 \in 0..MaxSentences
  BY <1>1, ServiceAssumption
<1>3. item \in Item /\ item.s = r.said + 1 /\ item.cut = r.cut
  BY <1>1, <1>2 DEF Item
<1>4. t \in Voice
  <2>1. (IF r.tts.ph = "none" THEN "get" ELSE r.tts.ph)
           \in {"none", "get", "idle", "clear", "compute", "send", "failed"}
    BY <1>1 DEF Voice
  <2>2. QED
    BY <1>1, <2>1, ZenonT(30) DEF Voice
<1>5. /\ t.s = r.tts.s /\ t.cut = r.tts.cut /\ t.n = r.tts.n /\ t.frame = r.tts.frame
      /\ t.ph = (IF r.tts.ph = "none" THEN "get" ELSE r.tts.ph)
  BY <1>1 DEF Voice
<1>6. n = [r EXCEPT !.said = r.said + 1, !.q = q, !.tts = t]
  BY <1>1 DEF Said, Sessions
<1> HIDE DEF item
<1>7. /\ q \in Seq(Item) /\ Len(q) = Len(r.q) + 1 /\ q[Len(r.q) + 1] = item
      /\ \A i \in 1..Len(r.q) : q[i] = r.q[i]
  BY <1>1, <1>3
<1> HIDE DEF n, t, q
<1>8. n \in Sessions
  BY <1>1, <1>2, <1>4, <1>6, <1>7, ZenonT(30) DEF Sessions, Voice, Item
<1>9. /\ n.said = r.said + 1 /\ n.q = q /\ n.tts = t /\ n.ends = r.ends
      /\ n.late = r.late /\ n.cut = r.cut /\ n.acked = r.acked
      /\ n.at = r.at /\ n.admitted = r.admitted /\ n.cancelled = r.cancelled
  BY <1>1, <1>6 DEF Sessions
<1>10. InHand(n) <=> InHand(r)
  BY <1>5, <1>9 DEF InHand
<1>11. Past(n) = Past(r)
  <2>1. n.said - Len(n.q) = r.said - Len(r.q)
    BY <1>1, <1>7, <1>9, SMTT(30)
  <2>2. QED
    BY <2>1, <1>10 DEF Past
<1>12. \A i \in 1..Len(n.q) : n.q[i].s = n.said - Len(n.q) + i /\ n.q[i].cut <= n.cut
  <2> TAKE i \in 1..Len(n.q)
  <2>1. CASE i = Len(r.q) + 1
    BY <1>1, <1>3, <1>7, <1>9, <2>1
  <2>2. CASE i # Len(r.q) + 1
    <3>1. i \in 1..Len(r.q)
      BY <1>1, <1>7, <1>9, <2>2
    <3>2. r.q[i].s = r.said - Len(r.q) + i /\ r.q[i].cut <= r.cut
      BY <3>1 DEF Sane, SpeakerInv
    <3>3. QED
      BY <1>1, <1>7, <1>9, <3>1, <3>2, SMTT(30)
  <2>3. QED
    BY <2>1, <2>2
<1>13. InHand(n) => n.tts.s = Past(n) + 1 /\ n.tts.cut <= n.cut
  BY <1>5, <1>9, <1>10, <1>11 DEF Sane, SpeakerInv
<1>14. n.tts.ph = "send" /\ n.tts.frame # "done" => n.tts.n < MaxChunks
  BY <1>5, <1>9 DEF Sane, SpeakerInv
<1>15. SpeakerInv(n)
  BY <1>9, <1>11, <1>12, <1>13, <1>14 DEF Sane, SpeakerInv
<1>16. QED
  BY <1>8, <1>9, <1>15 DEF Sane, n

-------------------------------------------------------------------------------
(* What an operation does to a connection, to its slot and to the jobs *)

\* Connection c becomes n, which keeps its slot or gives it back, takes one.
Slot(c, n) ==
    \/ n.admitted = conn[c].admitted /\ active' = active
    \/ n.admitted /\ ~conn[c].admitted /\ active' = active + 1 /\ active < Slots
    \/ ~n.admitted /\ conn[c].admitted /\ active' = active - 1

\* The jobs after: one more for a connection that waits for it, or none more.
Work(c, n, queue) ==
    \/ n.at = "asr" /\ healthy
         /\ \E k \in Kinds : jobs' = Append(queue, [c |-> c, kind |-> k, left |-> FALSE])
    \/ jobs' = queue

LEMMA AdmissionKept ==
    ASSUME NEW c \in Conns, NEW n, IInv, Sane(n), Put(c, n), Slot(c, n)
    PROVE  conn' \in [Conns -> Sessions] /\ (\A d \in Conns : Sane(conn'[d]))
           /\ AdmissionInv' /\ active' \in 0..Slots
<1> DEFINE held == {d \in Conns : conn[d].admitted}
           held2 == {d \in Conns : conn'[d].admitted}
<1>1. conn \in [Conns -> Sessions] /\ \A d \in Conns : Sane(conn[d])
  BY DEF IInv, TypeOK, AdmissionInv, Sane
<1>2. /\ conn' \in [Conns -> Sessions]
      /\ conn'[c] = n /\ \A d \in Conns \ {c} : conn'[d] = conn[d]
  BY <1>1 DEF Put, Sane
<1>3. \A d \in Conns : Sane(conn'[d])
  BY <1>1, <1>2
<1>4. \A d \in Conns : conn'[d].admitted <=> conn'[d].at \in {"protect", "live", "asr", "join"}
  BY <1>3 DEF Sane
<1>5. /\ IsFiniteSet(held) /\ active = Cardinality(held) /\ active \in 0..Slots
      /\ Cardinality(held) \in Nat /\ Slots \in Nat
  <2>1. IsFiniteSet(Conns)
    BY FS_Interval, ServiceAssumption DEF Conns
  <2>2. QED
    BY <2>1, FS_Subset, FS_CardinalityType, ServiceAssumption DEF IInv, TypeOK, AdmissionInv
<1>6. active' = Cardinality(held2) /\ active' \in 0..Slots
  <2>1. CASE n.admitted = conn[c].admitted /\ active' = active
    <3>1. held2 = held
      BY <1>2, <2>1
    <3>2. QED
      BY <3>1, <1>5, <2>1
  <2>2. CASE n.admitted /\ ~conn[c].admitted /\ active' = active + 1 /\ active < Slots
    <3>1. held2 = held \cup {c} /\ c \notin held
      BY <1>2, <2>2
    <3> HIDE DEF held, held2
    <3>2. Cardinality(held2) = Cardinality(held) + 1
      BY <3>1, <1>5, FS_AddElement
    <3>3. QED
      BY <3>2, <1>5, <2>2
  <2>3. CASE ~n.admitted /\ conn[c].admitted /\ active' = active - 1
    <3>1. held2 = held \ {c} /\ c \in held
      BY <1>2, <2>3
    <3> HIDE DEF held, held2
    <3>2. Cardinality(held2) = Cardinality(held) - 1 /\ Cardinality(held2) \in Nat
      BY <3>1, <1>5, FS_RemoveElement, FS_CardinalityType
    <3>3. QED
      BY <3>2, <1>5, <2>3
  <2>4. QED
    BY <2>1, <2>2, <2>3 DEF Slot
<1>7. QED
  BY <1>2, <1>3, <1>4, <1>6 DEF AdmissionInv

\* No job in queue waits for c, and those who wait in it are at "asr".
Spared(c, queue) ==
    /\ queue \in Seq(Job)
    /\ \A i \in DOMAIN queue :
          ~queue[i].left => queue[i].c # c /\ conn[queue[i].c].at = "asr"
    /\ \A i, j \in DOMAIN queue :
          ~queue[i].left /\ ~queue[j].left /\ queue[i].c = queue[j].c => i = j
    /\ \A i \in DOMAIN queue : queue[i].left => ~healthy

LEMMA JobsKept ==
    ASSUME NEW c \in Conns, NEW n, NEW queue, conn \in [Conns -> Sessions],
           Put(c, n), Spared(c, queue), Work(c, n, queue),
           healthy' = healthy \/ ~healthy', healthy \in BOOLEAN
    PROVE  JobsInv' /\ jobs' \in Seq(Job)
<1>1. conn'[c] = n /\ \A d \in Conns \ {c} : conn'[d] = conn[d]
  BY DEF Put
<1>2. \A i \in DOMAIN queue : queue[i] \in Job /\ queue[i].c \in Conns
  <2>1. queue \in Seq(Job) /\ DOMAIN queue = 1..Len(queue)
    BY DEF Spared
  <2>2. \A i \in DOMAIN queue : queue[i] \in Job
    BY <2>1, SeqElement
  <2>3. QED
    BY <2>2 DEF Job
<1>3. \A i \in DOMAIN queue : ~queue[i].left => conn'[queue[i].c].at = "asr"
  BY <1>1, <1>2 DEF Spared
<1>4. \A i \in DOMAIN queue : queue[i].left => ~healthy'
  BY DEF Spared
<1>5. CASE jobs' = queue
  BY <1>3, <1>4, <1>5 DEF Spared, JobsInv
<1>6. ASSUME n.at = "asr", healthy, NEW k \in Kinds,
             jobs' = Append(queue, [c |-> c, kind |-> k, left |-> FALSE])
      PROVE  JobsInv' /\ jobs' \in Seq(Job)
  <2> DEFINE job == [c |-> c, kind |-> k, left |-> FALSE]
  <2>1. job \in Job /\ ~job.left /\ job.c = c
    BY DEF Job
  <2> HIDE DEF job
  <2>2. jobs' = Append(queue, job)
    BY <1>6 DEF job
  <2>3. /\ DOMAIN jobs' = 1..(Len(queue) + 1) /\ jobs'[Len(queue) + 1] = job
        /\ \A i \in DOMAIN queue : jobs'[i] = queue[i]
        /\ DOMAIN queue = 1..Len(queue) /\ Len(queue) \in Nat
        /\ jobs' \in Seq(Job)
    BY <2>1, <2>2 DEF Spared
  <2>4. \A i \in DOMAIN jobs' : i \in DOMAIN queue \/ (i = Len(queue) + 1 /\ jobs'[i] = job)
    BY <2>3
  <2>5. \A i \in DOMAIN jobs' : ~jobs'[i].left => conn'[jobs'[i].c].at = "asr"
    BY <1>1, <1>3, <1>6, <2>1, <2>3, <2>4
  <2>6. \A i \in DOMAIN jobs' : jobs'[i].left => ~healthy'
    BY <1>4, <2>1, <2>3, <2>4
  <2>7. \A i, j \in DOMAIN jobs' :
           ~jobs'[i].left /\ ~jobs'[j].left /\ jobs'[i].c = jobs'[j].c => i = j
    <3> TAKE i, j \in DOMAIN jobs'
    <3> HAVE ~jobs'[i].left /\ ~jobs'[j].left /\ jobs'[i].c = jobs'[j].c
    <3>1. CASE i \in DOMAIN queue /\ j \in DOMAIN queue
      BY <3>1, <2>3 DEF Spared
    <3>2. CASE i \in DOMAIN queue /\ j = Len(queue) + 1 /\ jobs'[j] = job
      BY <3>2, <2>1, <2>3 DEF Spared
    <3>3. CASE j \in DOMAIN queue /\ i = Len(queue) + 1 /\ jobs'[i] = job
      BY <3>3, <2>1, <2>3 DEF Spared
    <3>4. QED
      BY <2>4, <3>1, <3>2, <3>3
  <2>8. QED
    BY <2>3, <2>5, <2>6, <2>7 DEF JobsInv
<1>7. jobs' = queue => jobs' \in Seq(Job)
  BY DEF Spared
<1>8. QED
  BY <1>5, <1>6, <1>7 DEF Work

\* Who is not waiting has no job, and the job that is done is the only one.
LEMMA NoneForMe ==
    ASSUME IInv, NEW c \in Conns, conn[c].at # "asr"
    PROVE  Spared(c, jobs)
<1>1. jobs \in Seq(Job)
  BY DEF IInv, TypeOK, Job
<1>2. QED
  BY <1>1 DEF IInv, JobsInv, Spared

LEMMA DoneForMe ==
    ASSUME IInv, jobs # <<>>
    PROVE  /\ Head(jobs) = jobs[1] /\ 1 \in DOMAIN jobs /\ jobs[1] \in Job
           /\ ~jobs[1].left => Spared(jobs[1].c, Tail(jobs)) /\ conn[jobs[1].c].at = "asr"
           /\ \A c \in Conns : Spared(c, jobs) => Spared(c, Tail(jobs))
<1>1. jobs \in Seq(Job)
  BY DEF IInv, TypeOK, Job
<1>2. /\ Head(jobs) = jobs[1] /\ 1 \in DOMAIN jobs /\ Tail(jobs) \in Seq(Job)
      /\ DOMAIN jobs = 1..Len(jobs) /\ DOMAIN Tail(jobs) = 1..(Len(jobs) - 1)
      /\ Len(jobs) \in Nat
      /\ \A i \in 1..(Len(jobs) - 1) : Tail(jobs)[i] = jobs[i + 1] /\ i + 1 \in DOMAIN jobs
  BY <1>1
<1>3. jobs[1] \in Job
  BY <1>1, <1>2, SeqElement
<1>4. \A i, j \in 1..(Len(jobs) - 1) : i + 1 = j + 1 => i = j
  BY <1>2
<1>5. \A i \in 1..(Len(jobs) - 1) : i + 1 # 1
  BY <1>2
<1> DEFINE rest == Tail(jobs)
<1>6. /\ \A i \in DOMAIN rest : rest[i] = jobs[i + 1] /\ i + 1 \in DOMAIN jobs /\ i + 1 # 1
      /\ \A i, j \in DOMAIN rest : i + 1 = j + 1 => i = j
      /\ rest \in Seq(Job)
  BY <1>2, <1>4, <1>5
<1> HIDE DEF rest
<1>7. /\ \A i \in DOMAIN rest : ~rest[i].left => conn[rest[i].c].at = "asr"
      /\ \A i, j \in DOMAIN rest :
            ~rest[i].left /\ ~rest[j].left /\ rest[i].c = rest[j].c => i = j
      /\ \A i \in DOMAIN rest : rest[i].left => ~healthy
  BY <1>6 DEF IInv, JobsInv
<1>8. ~jobs[1].left => Spared(jobs[1].c, rest) /\ conn[jobs[1].c].at = "asr"
  <2> HAVE ~jobs[1].left
  <2>1. \A i \in DOMAIN rest : ~rest[i].left => rest[i].c # jobs[1].c
    BY <1>2, <1>6 DEF IInv, JobsInv
  <2>2. QED
    BY <1>2, <1>6, <1>7, <2>1 DEF Spared, IInv, JobsInv
<1>9. \A c \in Conns : Spared(c, jobs) => Spared(c, rest)
  BY <1>6, <1>7 DEF Spared
<1>10. QED
  BY <1>2, <1>3, <1>8, <1>9 DEF rest

LEMMA JobsSame ==
    ASSUME IInv, NEW c \in Conns, NEW n, Put(c, n), n.at = conn[c].at,
           UNCHANGED <<jobs, healthy>>
    PROVE  JobsInv' /\ jobs' \in Seq(Job)
<1>1. conn \in [Conns -> Sessions] /\ jobs \in Seq(Job)
  BY DEF IInv, TypeOK, Job
<1>2. \A d \in Conns : conn'[d].at = conn[d].at
  BY <1>1 DEF Put
<1>3. \A i \in DOMAIN jobs : jobs[i].c \in Conns
  <2>1. DOMAIN jobs = 1..Len(jobs)
    BY <1>1
  <2>2. \A i \in DOMAIN jobs : jobs[i] \in Job
    BY <1>1, <2>1, SeqElement
  <2>3. QED
    BY <2>2 DEF Job
<1>4. QED
  BY <1>1, <1>2, <1>3 DEF IInv, JobsInv

LEMMA StepInv ==
    ASSUME IInv, NEW c \in Conns, NEW n, Sane(n), Put(c, n), Slot(c, n),
           JobsInv', jobs' \in Seq(Job), requests' \in 0..MaxRequests,
           draining' = draining, loaded' = loaded, healthy' \in BOOLEAN, hung' = hung
    PROVE  IInv'
<1>1. /\ conn' \in [Conns -> Sessions] /\ (\A d \in Conns : Sane(conn'[d]))
      /\ AdmissionInv' /\ active' \in 0..Slots
  BY AdmissionKept
<1>2. TypeOK'
  BY <1>1, ZenonT(30) DEF IInv, TypeOK, Job
<1>3. \A d \in Conns : SpeakerInv(conn'[d])
  BY <1>1 DEF Sane
<1>4. QED
  BY <1>1, <1>2, <1>3 DEF IInv

\* What follows from the invariant for one connection.
LEMMA One ==
    ASSUME IInv, NEW c \in Conns
    PROVE  Sane(conn[c]) /\ conn[c] \in Sessions /\ conn[c].admitted \in BOOLEAN
<1>1. conn[c] \in Sessions
  BY DEF IInv, TypeOK
<1>2. conn[c].admitted \in BOOLEAN
  BY <1>1 DEF Sessions
<1>3. QED
  BY <1>1, <1>2 DEF IInv, AdmissionInv, Sane

LEMMA LeaveStep ==
    ASSUME NEW c, NEW r, Sane(r), conn[c].admitted, Leave(c, r)
    PROVE  \E n : Sane(n) /\ Put(c, n) /\ Slot(c, n) /\ n.at # "asr"
<1>1. r \in Sessions /\ ~r.late
  BY DEF Sane, SpeakerInv
<1>2. CASE active = 1
  <2> DEFINE n == [r EXCEPT !.at = "closing", !.admitted = FALSE]
  <2>1. n \in Sessions
    BY <1>1, ZenonT(30) DEF Sessions
  <2>2. /\ n.said = r.said /\ n.q = r.q /\ n.tts = r.tts /\ n.ends = r.ends
        /\ n.late = r.late /\ n.cut = r.cut /\ n.acked = r.acked
        /\ n.at = "closing" /\ ~n.admitted /\ n.cancelled = r.cancelled
    BY <1>1 DEF Sessions
  <2>3. Put(c, n) /\ active' = active - 1
    BY <1>2 DEF Leave
  <2> HIDE DEF n
  <2>4. Sane(n)
    BY <2>1, <2>2, HandlerIsSane
  <2>5. QED
    BY <2>2, <2>3, <2>4 DEF Slot
<1>3. CASE active # 1
  <2>1. Put(c, Gone(r)) /\ active' = active - 1
    BY <1>3 DEF Leave
  <2>2. Sane(Gone(r)) /\ Gone(r).at = "gone" /\ ~Gone(r).admitted
    BY <1>1, GoneIsSane
  <2>3. QED
    BY <2>1, <2>2 DEF Slot
<1>4. QED
  BY <1>2, <1>3

LEMMA ProceedStep ==
    ASSUME NEW c, NEW r, NEW queue, Sane(r), conn[c].admitted = TRUE, r.admitted = TRUE,
           Proceed(c, r, queue)
    PROVE  \E n : Sane(n) /\ Put(c, n) /\ Slot(c, n) /\ Work(c, n, queue)
<1>1. r \in Sessions /\ r.todo \in Seq(Kinds) /\ r.acked \in Nat /\ r.cut \in Nat
  BY Fields DEF Sane
<1>2. CASE r.todo = <<>>
  <2> DEFINE a == IF r.reply = "cancel" THEN r.cut ELSE r.acked
             n == [r EXCEPT !.at = "live", !.reply = "none", !.acked = a]
  <2>1. a \in Nat /\ a \in {r.acked, r.cut}
    BY <1>1
  <2>2. Reply(r) = n
    BY <1>1 DEF Reply, Sessions
  <2> HIDE DEF a
  <2>3. n \in Sessions
    BY <1>1, <2>1, ZenonT(30) DEF Sessions
  <2>4. /\ n.said = r.said /\ n.q = r.q /\ n.tts = r.tts /\ n.ends = r.ends
        /\ n.late = r.late /\ n.cut = r.cut /\ n.acked = a
        /\ n.at = "live" /\ n.admitted = r.admitted /\ n.cancelled = r.cancelled
    BY <1>1 DEF Sessions
  <2>5. Put(c, n) /\ active' = active /\ jobs' = queue
    BY <1>2, <2>2 DEF Proceed
  <2> HIDE DEF n
  <2>6. Sane(n)
    BY <2>1, <2>3, <2>4, HandlerIsSane
  <2>7. QED
    BY <2>4, <2>5, <2>6 DEF Slot, Work
<1>3. CASE r.todo # <<>> /\ healthy
  <2> DEFINE t == Tail(r.todo)
             n == [r EXCEPT !.at = "asr", !.todo = t]
  <2>1. t \in Seq(Kinds) /\ Head(r.todo) \in Kinds
    BY <1>1, <1>3
  <2>2. /\ Put(c, n) /\ active' = active
        /\ jobs' = Append(queue, [c |-> c, kind |-> Head(r.todo), left |-> FALSE])
    BY <1>3 DEF Proceed, Queued
  <2> HIDE DEF t
  <2>3. n \in Sessions
    BY <1>1, <2>1, ZenonT(30) DEF Sessions
  <2>4. /\ n.said = r.said /\ n.q = r.q /\ n.tts = r.tts /\ n.ends = r.ends
        /\ n.late = r.late /\ n.cut = r.cut /\ n.acked = r.acked
        /\ n.at = "asr" /\ n.admitted = r.admitted /\ n.cancelled = r.cancelled
    BY <1>1 DEF Sessions
  <2> HIDE DEF n
  <2>5. Sane(n)
    BY <2>3, <2>4, HandlerIsSane
  <2>6. QED
    BY <1>3, <2>1, <2>2, <2>4, <2>5 DEF Slot, Work
<1>4. CASE r.todo # <<>> /\ ~healthy
  <2>1. Leave(c, r) /\ jobs' = queue
    BY <1>4 DEF Proceed
  <2>2. PICK n : Sane(n) /\ Put(c, n) /\ Slot(c, n) /\ n.at # "asr"
    BY <2>1, LeaveStep
  <2>3. QED
    BY <2>1, <2>2 DEF Work
<1>5. QED
  BY <1>2, <1>3, <1>4

\* A handler that goes on with r, with the queue in which c waits for nothing.
LEMMA ProceedInv ==
    ASSUME IInv, NEW c \in Conns, NEW r, NEW queue, Sane(r), Spared(c, queue),
           conn[c].at \in {"live", "asr"}, r.at = conn[c].at, Proceed(c, r, queue),
           requests' \in 0..MaxRequests, UNCHANGED instance
    PROVE  IInv'
<1>1. conn[c].admitted = TRUE /\ r.admitted = TRUE
  <2>1. conn[c].admitted \in BOOLEAN /\ r.admitted \in BOOLEAN
    BY One DEF Sane, Sessions
  <2>2. QED
    BY <2>1, One DEF Sane
<1>2. PICK n : Sane(n) /\ Put(c, n) /\ Slot(c, n) /\ Work(c, n, queue)
  BY <1>1, ProceedStep
<1>3. conn \in [Conns -> Sessions] /\ healthy \in BOOLEAN
  BY DEF IInv, TypeOK
<1>4. JobsInv' /\ jobs' \in Seq(Job)
  BY <1>2, <1>3, JobsKept DEF instance
<1>5. QED
  BY <1>2, <1>3, <1>4, StepInv DEF instance

\* A connection that leaves, with the queue in which it waits for nothing.
LEMMA LeaveInv ==
    ASSUME IInv, NEW c \in Conns, NEW queue, Spared(c, queue),
           conn[c].at \in {"protect", "live", "asr", "join"}, Leave(c, conn[c]),
           jobs' = queue, requests' \in 0..MaxRequests, UNCHANGED instance
    PROVE  IInv'
<1>1. conn[c].admitted /\ Sane(conn[c])
  BY One DEF Sane
<1>2. PICK n : Sane(n) /\ Put(c, n) /\ Slot(c, n) /\ n.at # "asr"
  BY <1>1, LeaveStep
<1>3. conn \in [Conns -> Sessions] /\ healthy \in BOOLEAN
  BY DEF IInv, TypeOK
<1>4. JobsInv' /\ jobs' \in Seq(Job)
  BY <1>2, <1>3, JobsKept DEF instance, Work
<1>5. QED
  BY <1>2, <1>3, <1>4, StepInv DEF instance

\* A step that changes nothing but connection c, which stays where it was.
LEMMA StayInv ==
    ASSUME IInv, NEW c \in Conns, NEW n, Sane(n), Put(c, n), n.at = conn[c].at,
           n.admitted = conn[c].admitted,
           UNCHANGED <<jobs, active, draining, loaded, healthy, hung>>,
           requests' \in 0..MaxRequests
    PROVE  IInv'
<1>1. JobsInv' /\ jobs' \in Seq(Job)
  BY JobsSame
<1>2. healthy' \in BOOLEAN
  BY DEF IInv, TypeOK
<1>3. QED
  BY <1>1, <1>2, StepInv DEF Slot

\* A step that moves connection c, which does not wait for the recogniser.
LEMMA MoveInv ==
    ASSUME IInv, NEW c \in Conns, NEW n, Sane(n), Put(c, n), conn[c].at # "asr",
           n.at # "asr", Slot(c, n),
           UNCHANGED <<jobs, draining, loaded, healthy, hung>>,
           requests' \in 0..MaxRequests
    PROVE  IInv'
<1>1. Spared(c, jobs) /\ Work(c, n, jobs)
  BY NoneForMe DEF Work
<1>2. conn \in [Conns -> Sessions] /\ healthy \in BOOLEAN
  BY DEF IInv, TypeOK
<1>3. JobsInv' /\ jobs' \in Seq(Job)
  BY <1>1, <1>2, JobsKept
<1>4. QED
  BY <1>2, <1>3, StepInv

-------------------------------------------------------------------------------
(* The steps *)

LEMMA InitInv == Init => IInv
<1> SUFFICES ASSUME Init PROVE IInv
  OBVIOUS
<1>1. \A c \in Conns : conn[c] = Away
  BY DEF Init
<1>2. TypeOK
  <2>1. conn \in [Conns -> Sessions]
    BY AwayIsSane DEF Init
  <2>2. /\ jobs = <<>> /\ active = 0 /\ requests = 0 /\ draining = FALSE
        /\ loaded = "no" /\ healthy = TRUE /\ hung = FALSE
    BY DEF Init
  <2>3. 0 \in 0..Slots /\ 0 \in 0..MaxRequests /\ <<>> \in Seq(Job)
    BY ServiceAssumption
  <2>4. QED
    BY <2>1, <2>2, <2>3 DEF TypeOK, Job
<1>3. Away.admitted = FALSE /\ Away.at = "away"
  BY DEF Away
<1>4. AdmissionInv
  <2>1. {c \in Conns : conn[c].admitted} = {}
    BY <1>1, <1>3
  <2>2. active = Cardinality({c \in Conns : conn[c].admitted})
    BY <2>1, FS_EmptySet DEF Init
  <2>3. QED
    BY <1>1, <1>3, <2>2 DEF AdmissionInv
<1>5. JobsInv
  BY DEF Init, JobsInv
<1>6. QED
  BY <1>1, <1>2, <1>4, <1>5, AwayIsSane DEF IInv

\* Loading, draining and hanging touch nothing the invariant speaks of.
LEMMA InstanceInv ==
    ASSUME IInv, UNCHANGED <<conn, jobs, active, healthy, requests>>,
           draining' \in BOOLEAN, loaded' \in {"no"} \cup Probed, hung' \in BOOLEAN
    PROVE  IInv'
  BY DEF IInv, TypeOK, AdmissionInv, JobsInv

\* A handler's turn begins: what it heard, what it has to do, what it answers.
Told(r, sp, rs, td, rp) == [r EXCEPT !.speech = sp, !.rest = rs, !.todo = td, !.reply = rp]
Replies == {"none", "audio", "turn", "reset", "cancel", "end"}
LEMMA ToldIsSane ==
    ASSUME NEW r, Sane(r), NEW sp \in BOOLEAN, NEW rs \in BOOLEAN,
           NEW td \in Seq(Kinds), NEW rp \in Replies
    PROVE  Sane(Told(r, sp, rs, td, rp)) /\ Told(r, sp, rs, td, rp).at = r.at
<1> DEFINE n == Told(r, sp, rs, td, rp)
<1>1. r \in Sessions
  BY DEF Sane
<1>2. n \in Sessions
  BY <1>1, ZenonT(30) DEF Sessions, Told, Replies
<1>3. /\ n.said = r.said /\ n.q = r.q /\ n.tts = r.tts /\ n.ends = r.ends
      /\ n.late = r.late /\ n.cut = r.cut /\ n.acked = r.acked
      /\ n.at = r.at /\ n.admitted = r.admitted /\ n.cancelled = r.cancelled
  BY <1>1 DEF Sessions, Told
<1> HIDE DEF n
<1>4. Sane(n)
  BY <1>2, <1>3, HandlerIsSane DEF Sane
<1>5. QED
  BY <1>3, <1>4 DEF n

LEMMA ArrivesInv ==
    ASSUME IInv, NEW c \in Conns, Refuse(c) \/ Start(c)
    PROVE  IInv'
<1>1. /\ conn[c].at = "away" /\ UNCHANGED <<jobs, instance, requests>>
      /\ Sane(conn[c]) /\ conn[c] \in Sessions /\ ~conn[c].admitted /\ ~conn[c].late
      /\ requests \in 0..MaxRequests
  BY One DEF Refuse, Start, Arrives, Sane, SpeakerInv, IInv, TypeOK
<1>2. CASE Refuse(c)
  <2>1. Put(c, Gone(conn[c])) /\ active' = active
    BY <1>2 DEF Refuse
  <2>2. Sane(Gone(conn[c])) /\ Gone(conn[c]).at = "gone" /\ ~Gone(conn[c]).admitted
    BY <1>1, GoneIsSane
  <2>3. Gone(conn[c]).admitted = conn[c].admitted
    BY <1>1, <2>2, One DEF Sane, Sessions
  <2>4. QED
    BY <1>1, <2>1, <2>2, <2>3, MoveInv DEF instance, Slot
<1>3. CASE Start(c)
  <2> DEFINE a == IF active = 0 THEN "protect" ELSE "live"
             n == [conn[c] EXCEPT !.at = a, !.admitted = TRUE]
  <2>1. a \in {"protect", "live"}
    OBVIOUS
  <2>2. Put(c, n) /\ active' = active + 1 /\ active < Slots
    BY <1>3 DEF Start
  <2> HIDE DEF a
  <2>3. n \in Sessions
    BY <1>1, <2>1, ZenonT(30) DEF Sessions
  <2> DEFINE r == conn[c]
  <2>4. /\ n.said = r.said /\ n.q = r.q /\ n.tts = r.tts /\ n.ends = r.ends
        /\ n.late = r.late /\ n.cut = r.cut /\ n.acked = r.acked
        /\ n.at = a /\ n.admitted = TRUE /\ n.cancelled = r.cancelled
    BY <1>1 DEF Sessions
  <2> HIDE DEF n
  <2>5. Sane(n)
    BY <1>1, <2>1, <2>3, <2>4, HandlerIsSane
  <2>6. QED
    BY <1>1, <2>1, <2>2, <2>4, <2>5, MoveInv DEF instance, Slot
<1>4. QED
  BY <1>2, <1>3

LEMMA ProtectsInv ==
    ASSUME IInv, NEW c \in Conns, Protects(c)
    PROVE  IInv'
<1>1. UNCHANGED <<jobs, instance, requests>> /\ Sane(conn[c]) /\ conn[c] \in Sessions
      /\ requests \in 0..MaxRequests /\ ~conn[c].late
  BY One DEF Protects, IInv, TypeOK, Sane, SpeakerInv
<1>2. CASE conn[c].at = "protect" /\ Put(c, [conn[c] EXCEPT !.at = "live"]) /\ active' = active
  <2> DEFINE n == [conn[c] EXCEPT !.at = "live"]
             r == conn[c]
  <2>1. n \in Sessions
    BY <1>1, ZenonT(30) DEF Sessions
  <2>2. /\ n.said = r.said /\ n.q = r.q /\ n.tts = r.tts /\ n.ends = r.ends
        /\ n.late = r.late /\ n.cut = r.cut /\ n.acked = r.acked
        /\ n.at = "live" /\ n.admitted = r.admitted /\ n.cancelled = r.cancelled
    BY <1>1 DEF Sessions
  <2>3. Put(c, n)
    BY <1>2
  <2> HIDE DEF n
  <2>4. Sane(n)
    BY <1>1, <1>2, <2>1, <2>2, HandlerIsSane DEF Sane
  <2>5. QED
    BY <1>1, <1>2, <2>2, <2>3, <2>4, MoveInv DEF instance, Slot
<1>3. CASE conn[c].at = "protect" /\ Leave(c, conn[c])
  <2>1. Spared(c, jobs)
    BY <1>3, NoneForMe
  <2>2. QED
    BY <1>1, <1>3, <2>1, LeaveInv
<1>4. CASE conn[c].at = "closing" /\ Put(c, Gone(conn[c])) /\ active' = active
  <2>1. Sane(Gone(conn[c])) /\ Gone(conn[c]).at = "gone" /\ ~Gone(conn[c]).admitted
    BY <1>1, GoneIsSane
  <2>2. Gone(conn[c]).admitted = conn[c].admitted
    BY <1>1, <1>4, <2>1, One DEF Sane, Sessions
  <2>3. QED
    BY <1>1, <1>4, <2>1, <2>2, MoveInv DEF instance, Slot
<1>5. QED
  BY <1>2, <1>3, <1>4 DEF Protects

LEMMA FinalizeKinds ==
    ASSUME NEW r PROVE Finalize(r) \in Seq(Kinds)
  BY DEF Finalize, Kinds

\* The handlers of what the loop receives, but for the text and the end.
LEMMA InputInv ==
    ASSUME IInv, NEW c \in Conns,
           Speech(c) \/ Endpoint(c) \/ Flush(c) \/ InputReset(c) \/ Cancel(c)
    PROVE  IInv'
<1> DEFINE r == conn[c]
<1>1. /\ r.at = "live" /\ requests' \in 0..MaxRequests /\ UNCHANGED instance
      /\ Sane(r) /\ r \in Sessions /\ r.at \in {"live", "asr"}
  <2>1. Receives(c)
    BY DEF Speech, Endpoint, Flush, InputReset, Cancel
  <2>2. requests \in 0..MaxRequests /\ MaxRequests \in Nat
    BY ServiceAssumption DEF IInv, TypeOK
  <2>3. QED
    BY <2>1, <2>2, One DEF Receives
<1>2. Spared(c, jobs)
  BY <1>1, NoneForMe
<1>3. r.speech \in BOOLEAN /\ r.rest \in BOOLEAN
  BY <1>1 DEF Sessions
<1>4. <<>> \in Seq(Kinds) /\ <<"stream">> \in Seq(Kinds) /\ <<"reset">> \in Seq(Kinds)
  BY DEF Kinds
<1>11. /\ TRUE \in BOOLEAN /\ FALSE \in BOOLEAN
       /\ "audio" \in Replies /\ "turn" \in Replies /\ "reset" \in Replies /\ "cancel" \in Replies
  BY DEF Replies
<1>5. CASE Speech(c)
  <2>1. PICK chunk \in BOOLEAN, rest \in BOOLEAN :
           Proceed(c, [r EXCEPT !.speech = TRUE, !.rest = rest,
                         !.todo = IF chunk THEN <<"stream">> ELSE <<>>,
                         !.reply = "audio"], jobs)
    BY <1>5 DEF Speech
  <2> DEFINE td == IF chunk THEN <<"stream">> ELSE <<>>
             n == Told(r, TRUE, rest, td, "audio")
  <2>2. td \in Seq(Kinds)
    BY <1>4
  <2>3. Proceed(c, n, jobs)
    BY <2>1 DEF Told
  <2> HIDE DEF td
  <2>4. Sane(n) /\ n.at = r.at
    <3>1. rest \in BOOLEAN
      BY <2>1
    <3>2. Sane(Told(r, TRUE, rest, td, "audio"))
      BY <1>1, <1>11, <2>2, <3>1, ToldIsSane, Zenon
    <3>3. Told(r, TRUE, rest, td, "audio").at = r.at
      BY <1>1 DEF Told, Sessions
    <3>4. QED
      BY <3>2, <3>3
  <2> HIDE DEF n
  <2>5. QED
    BY <1>1, <1>2, <2>3, <2>4, ProceedInv
<1>6. CASE Endpoint(c)
  <2> DEFINE td == Finalize(r)
             n == Told(r, FALSE, FALSE, td, "turn")
  <2>1. Proceed(c, [r EXCEPT !.speech = FALSE, !.todo = td, !.rest = FALSE,
                             !.reply = "turn"], jobs)
    BY <1>6 DEF Endpoint
  <2>2. td \in Seq(Kinds)
    BY FinalizeKinds
  <2> HIDE DEF td
  <2>3. n = [r EXCEPT !.speech = FALSE, !.todo = td, !.rest = FALSE, !.reply = "turn"]
    BY <1>1 DEF Sessions, Told
  <2>4. Sane(n) /\ n.at = r.at
    BY <1>1, <1>11, <2>2, ToldIsSane, ZenonT(40)
  <2> HIDE DEF n
  <2>5. QED
    BY <1>1, <1>2, <2>1, <2>3, <2>4, ProceedInv
<1>7. CASE Flush(c)
  <2>1. PICK current \in BOOLEAN :
          IF current
          THEN Proceed(c, [r EXCEPT !.speech = FALSE, !.rest = FALSE,
                             !.todo = IF r.speech THEN Finalize(r) ELSE <<>>,
                             !.reply = "turn"], jobs)
          ELSE UNCHANGED <<conn, jobs, active>>
    BY <1>7 DEF Flush
  <2>2. CASE current
    <3> DEFINE td == IF r.speech THEN Finalize(r) ELSE <<>>
               n == Told(r, FALSE, FALSE, td, "turn")
    <3>1. td \in Seq(Kinds)
      BY <1>4, FinalizeKinds
    <3>2. Proceed(c, n, jobs)
      BY <2>1, <2>2 DEF Told
    <3> HIDE DEF td
    <3>3. Sane(n) /\ n.at = r.at
      BY <1>1, <1>11, <3>1, ToldIsSane, ZenonT(40)
    <3> HIDE DEF n
    <3>4. QED
      BY <1>1, <1>2, <3>2, <3>3, ProceedInv
  <2>3. CASE ~current
    <3>1. UNCHANGED <<conn, jobs, active, draining, loaded, healthy, hung>>
      BY <1>1, <2>1, <2>3 DEF instance
    <3>2. QED
      BY <1>1, <3>1 DEF IInv, TypeOK, AdmissionInv, JobsInv
  <2>4. QED
    BY <2>2, <2>3
<1>8. CASE InputReset(c)
  <2> DEFINE n == Uncommitted(r, "reset")
  <2>1. Proceed(c, n, jobs)
    BY <1>8 DEF InputReset
  <2>2. n = Told(r, FALSE, FALSE, <<"reset">>, "reset")
    BY DEF Uncommitted, Told
  <2> HIDE DEF n
  <2>3. Sane(n) /\ n.at = r.at
    BY <1>1, <1>4, <1>11, <2>2, ToldIsSane, ZenonT(40)
  <2>4. QED
    BY <1>1, <1>2, <2>1, <2>3, ProceedInv
<1>9. CASE Cancel(c)
  <2> DEFINE k == StopTts(r)
             n == Uncommitted(k, "cancel")
  <2>1. Proceed(c, n, jobs)
    BY <1>9 DEF Cancel
  <2>2. Sane(k) /\ k.at = r.at
    BY <1>1, StopIsSane
  <2>3. n = Told(k, FALSE, FALSE, <<"reset">>, "cancel")
    BY DEF Uncommitted, Told
  <2> HIDE DEF n, k
  <2>4. Sane(n) /\ n.at = r.at
    <3>1. Sane(Told(k, FALSE, FALSE, <<"reset">>, "cancel"))
      BY <1>4, <1>11, <2>2, ToldIsSane, Zenon
    <3>2. k \in Sessions
      BY <2>2 DEF Sane
    <3>3. Told(k, FALSE, FALSE, <<"reset">>, "cancel").at = k.at
      BY <3>2 DEF Told, Sessions
    <3>4. QED
      BY <2>2, <2>3, <3>1, <3>3
  <2>5. QED
    BY <1>1, <1>2, <2>1, <2>4, ProceedInv
<1>10. QED
  BY <1>5, <1>6, <1>7, <1>8, <1>9

LEMMA JobDoneInv ==
    ASSUME IInv, JobDone
    PROVE  IInv'
<1> DEFINE job == jobs[1]
<1>1. /\ jobs # <<>> /\ UNCHANGED instance /\ requests' = requests
      /\ requests \in 0..MaxRequests
  BY DEF JobDone, IInv, TypeOK
<1>2. /\ Head(jobs) = job /\ job \in Job /\ 1 \in DOMAIN jobs
      /\ ~job.left => Spared(job.c, Tail(jobs)) /\ conn[job.c].at = "asr"
  BY <1>1, DoneForMe
<1>3. job.c \in Conns /\ job.left \in BOOLEAN
  BY <1>2 DEF Job
<1>4. CASE job.left
  <2>1. jobs' = Tail(jobs) /\ UNCHANGED <<conn, active>>
    BY <1>2, <1>4 DEF JobDone
  <2>2. jobs \in Seq(Job)
    BY DEF IInv, TypeOK, Job
  <2>3. /\ DOMAIN jobs' = 1..(Len(jobs) - 1) /\ jobs' \in Seq(Job)
        /\ DOMAIN jobs = 1..Len(jobs) /\ Len(jobs) \in Nat
        /\ \A i \in DOMAIN jobs' : jobs'[i] = jobs[i + 1] /\ i + 1 \in DOMAIN jobs
    BY <1>1, <2>1, <2>2
  <2>4. \A i, j \in DOMAIN jobs' : i + 1 = j + 1 => i = j
    BY <2>3
  <2>5. JobsInv'
    BY <1>1, <2>1, <2>3, <2>4 DEF IInv, JobsInv, instance
  <2>6. QED
    BY <1>1, <2>1, <2>3, <2>5 DEF IInv, TypeOK, AdmissionInv, instance, Job
<1>5. CASE ~job.left /\ Proceed(job.c, conn[job.c], Tail(jobs))
  BY <1>1, <1>2, <1>3, <1>5, One, ProceedInv
<1>6. CASE ~job.left /\ Leave(job.c, conn[job.c]) /\ jobs' = Tail(jobs)
  BY <1>1, <1>2, <1>3, <1>6, LeaveInv
<1>7. QED
  BY <1>2, <1>3, <1>4, <1>5, <1>6 DEF JobDone

LEMMA TimeoutJobs ==
    ASSUME IInv, NEW c \in Conns, JobTimeout(c)
    PROVE  /\ jobs' \in Seq(Job) /\ Len(jobs') = Len(jobs) /\ DOMAIN jobs' = DOMAIN jobs
           /\ \A i \in DOMAIN jobs : ~jobs'[i].left =>
                jobs'[i] = jobs[i] /\ ~jobs[i].left /\ jobs[i].c # c
<1>1. jobs \in Seq(Job) /\ DOMAIN jobs = 1..Len(jobs) /\ Len(jobs) \in Nat
  BY DEF IInv, TypeOK, Job
<1>2. \A i \in DOMAIN jobs : jobs[i] \in Job
  BY <1>1, SeqElement
<1>3. \A i \in DOMAIN jobs :
        [jobs[i] EXCEPT !.left = TRUE] \in Job /\ [jobs[i] EXCEPT !.left = TRUE].left = TRUE
  BY <1>2 DEF Job
<1> DEFINE new == [i \in DOMAIN jobs |->
                     IF i \in Mine(c) THEN [jobs[i] EXCEPT !.left = TRUE] ELSE jobs[i]]
<1>4. jobs' = new
  BY DEF JobTimeout
<1>5. \A i \in DOMAIN jobs : new[i] \in Job
  BY <1>2, <1>3
<1>6. new \in [1..Len(jobs) -> Job] /\ DOMAIN new = DOMAIN jobs
  BY <1>1, <1>5
<1>7. new \in Seq(Job) /\ Len(new) = Len(jobs)
  <2> HIDE DEF new
  <2>1. new \in Seq(Job)
    BY <1>1, <1>6
  <2>2. QED
    BY <2>1, <1>1, <1>6
<1>8. ASSUME NEW i \in DOMAIN jobs, ~new[i].left
      PROVE  new[i] = jobs[i] /\ ~jobs[i].left /\ jobs[i].c # c
  <2>1. i \notin Mine(c)
    BY <1>3, <1>8
  <2>2. new[i] = jobs[i]
    BY <2>1
  <2>3. ~jobs[i].left
    BY <1>8, <2>2
  <2>4. QED
    BY <2>1, <2>2, <2>3 DEF Mine
<1>9. QED
  BY <1>4, <1>6, <1>7, <1>8

LEMMA JobTimeoutInv ==
    ASSUME IInv, NEW c \in Conns, JobTimeout(c)
    PROVE  IInv'
<1>1. /\ conn[c].at = "asr" /\ healthy' = FALSE /\ Leave(c, conn[c])
      /\ UNCHANGED <<draining, loaded, hung, requests>> /\ requests \in 0..MaxRequests
  BY DEF JobTimeout, IInv, TypeOK
<1>2. Sane(conn[c]) /\ conn[c].admitted
  BY <1>1, One DEF Sane
<1>3. PICK n : Sane(n) /\ Put(c, n) /\ Slot(c, n) /\ n.at # "asr"
  BY <1>1, <1>2, LeaveStep
<1>4. \A d \in Conns \ {c} : conn'[d] = conn[d]
  BY <1>3 DEF Put, IInv, TypeOK
<1>5. /\ jobs' \in Seq(Job) /\ DOMAIN jobs' = DOMAIN jobs /\ jobs \in Seq(Job)
      /\ \A i \in DOMAIN jobs : ~jobs'[i].left =>
           jobs'[i] = jobs[i] /\ ~jobs[i].left /\ jobs[i].c # c
  BY TimeoutJobs DEF IInv, TypeOK, Job
<1>6. \A i \in DOMAIN jobs : jobs[i].c \in Conns
  <2>1. DOMAIN jobs = 1..Len(jobs)
    BY <1>5
  <2>2. \A i \in DOMAIN jobs : jobs[i] \in Job
    BY <1>5, <2>1, SeqElement
  <2>3. QED
    BY <2>2 DEF Job
<1>7. JobsInv'
  <2>1. \A i \in DOMAIN jobs' : ~jobs'[i].left => conn'[jobs'[i].c].at = "asr"
    BY <1>4, <1>5, <1>6 DEF IInv, JobsInv
  <2>2. \A i, j \in DOMAIN jobs' :
           ~jobs'[i].left /\ ~jobs'[j].left /\ jobs'[i].c = jobs'[j].c => i = j
    BY <1>5 DEF IInv, JobsInv
  <2>3. QED
    BY <1>1, <2>1, <2>2 DEF JobsInv
<1>8. QED
  BY <1>1, <1>3, <1>5, <1>7, StepInv

LEMMA TtsTextInv ==
    ASSUME IInv, NEW c \in Conns, TtsText(c)
    PROVE  IInv'
<1> DEFINE r == conn[c]
<1>1. /\ requests' \in 0..MaxRequests /\ r.said < MaxSentences
      /\ UNCHANGED <<jobs, active, draining, loaded, healthy, hung>>
      /\ Put(c, [r EXCEPT !.said = r.said + 1,
                          !.q = Append(@, [s |-> r.said + 1, cut |-> r.cut]),
                          !.tts.ph = IF @ = "none" THEN "get" ELSE @])
  <2>1. Receives(c)
    BY DEF TtsText
  <2>2. requests' \in 0..MaxRequests
    BY <2>1, ServiceAssumption DEF Receives, IInv, TypeOK
  <2>3. QED
    BY <2>1, <2>2 DEF TtsText, Receives, instance
<1>2. Put(c, Said(r))
  BY <1>1 DEF Said
<1>3. Sane(Said(r)) /\ Said(r).admitted = r.admitted /\ Said(r).at = r.at
  BY <1>1, One, SayIsSane
<1>4. QED
  BY <1>1, <1>2, <1>3, StayInv

\* The speaker in a sentence: it goes on with it, ends it or drops it.
LEMMA ConsumerStep ==
    ASSUME IInv, NEW c \in Conns, Consumer(c)
    PROVE  \E n : Sane(n) /\ Put(c, n) /\ n.at = conn[c].at /\ n.admitted = conn[c].admitted
<1> DEFINE r == conn[c]
<1>1. Sane(r) /\ r \in Sessions /\ r.tts \in Voice /\ r.cut \in Nat
      /\ (r.cut = 0 => ~r.cancelled)
  BY One, Fields DEF Sane, SpeakerInv
<1>2. CASE TtsTakes(c)
  <2>1. Put(c, Taken(r)) /\ r.tts.ph = "get" /\ r.q # <<>>
    BY <1>2 DEF TtsTakes, Speaking, Taken
  <2>2. QED
    BY <1>1, <2>1, TakeIsSane
<1>3. CASE TtsBegins(c)
  <2>1. InHand(r) /\ r.tts.ph = "idle"
    BY <1>3 DEF TtsBegins, Speaking, InHand
  <2>2. CASE r.tts.cut # r.cut
    <3>1. r.cut # 0
      BY <1>1, <2>1, <2>2, HandFields
    <3>2. Put(c, NextSentence(r))
      BY <1>3, <2>2 DEF TtsBegins
    <3>3. QED
      BY <1>1, <2>1, <3>1, <3>2, DropIsSane
  <2>3. CASE r.tts.cut = r.cut
    <3> DEFINE t == [r.tts EXCEPT !.ph = "clear"]
               n == [r EXCEPT !.tts = t]
    <3>1. t \in Voice
      BY <1>1, ZenonT(30) DEF Voice
    <3>2. t.s = r.tts.s /\ t.cut = r.tts.cut /\ t.ph = "clear"
      BY <1>1 DEF Voice
    <3>3. Put(c, n)
      <4>1. n = [r EXCEPT !.tts.ph = "clear"]
        BY <1>1 DEF Sessions
      <4>2. QED
        BY <1>3, <2>3, <4>1 DEF TtsBegins
    <3>4. n.at = r.at /\ n.admitted = r.admitted
      BY <1>1 DEF Sessions
    <3> HIDE DEF t
    <3>5. Sane(n)
      BY <1>1, <2>1, <3>1, <3>2, PhaseIsSane
    <3> HIDE DEF n
    <3>6. QED
      BY <3>3, <3>4, <3>5
  <2>4. QED
    BY <2>2, <2>3
<1>4. CASE TtsClears(c)
  <2> DEFINE k == [r EXCEPT !.cancelled = FALSE]
             t == [r.tts EXCEPT !.ph = "compute"]
             n == [k EXCEPT !.tts = t]
  <2>1. InHand(r)
    BY <1>4 DEF TtsClears, Speaking, InHand
  <2>2. k \in Sessions
    BY <1>1, ZenonT(30) DEF Sessions
  <2>3. /\ k.said = r.said /\ k.q = r.q /\ k.tts = r.tts /\ k.ends = r.ends
        /\ k.late = r.late /\ k.cut = r.cut /\ k.acked = r.acked
        /\ k.at = r.at /\ k.admitted = r.admitted /\ k.cancelled = FALSE
    BY <1>1 DEF Sessions
  <2>4. t \in Voice
    BY <1>1, ZenonT(30) DEF Voice
  <2>5. t.s = r.tts.s /\ t.cut = r.tts.cut /\ t.ph = "compute"
    BY <1>1 DEF Voice
  <2>6. n = [r EXCEPT !.cancelled = FALSE, !.tts.ph = "compute"]
    BY <1>1 DEF Sessions
  <2>7. Put(c, n)
    BY <1>4, <2>6 DEF TtsClears
  <2>8. n.at = r.at /\ n.admitted = r.admitted
    BY <1>1 DEF Sessions
  <2> HIDE DEF k, t
  <2>9. Sane(k)
    <3>0. SpeakerInv(r) /\ r.acked <= r.cut
      BY <1>1 DEF Sane, SpeakerInv
    <3>1. SpeakerInv(k)
      BY <1>1, <2>3, <3>0, SpeakerKept
    <3>2. QED
      BY <1>1, <2>2, <2>3, <3>1 DEF Sane
  <2>10. InHand(k)
    BY <2>1, <2>3 DEF InHand
  <2>11. Sane(n)
    BY <2>3, <2>4, <2>5, <2>9, <2>10, PhaseIsSane
  <2> HIDE DEF n
  <2>12. QED
    BY <2>7, <2>8, <2>11
<1>5. CASE TtsComputes(c)
  <2>1. InHand(r) /\ r.tts.ph = "compute"
    BY <1>5 DEF TtsComputes, Speaking, InHand
  <2> DEFINE Phase(t) == /\ t \in Voice /\ t.s = r.tts.s /\ t.cut = r.tts.cut
                         /\ t.ph \in {"send", "failed"} /\ t.n = r.tts.n
                         /\ (t.ph = "send" /\ t.frame # "done" => t.n < MaxChunks)
  <2>2. ASSUME NEW t, Phase(t), Put(c, [r EXCEPT !.tts = t])
        PROVE  \E n : Sane(n) /\ Put(c, n) /\ n.at = r.at /\ n.admitted = r.admitted
    <3> DEFINE n == [r EXCEPT !.tts = t]
    <3>1. Sane(n)
      BY <1>1, <2>1, <2>2, PhaseIsSane
    <3>2. n.at = r.at /\ n.admitted = r.admitted
      BY <1>1 DEF Sessions
    <3>3. Put(c, n)
      BY <2>2
    <3> HIDE DEF n
    <3>4. QED
      BY <3>1, <3>2, <3>3
  <2> DEFINE td == [r.tts EXCEPT !.ph = "send", !.frame = "done"]
             ta == [r.tts EXCEPT !.ph = "send", !.frame = "audio"]
             tf == [r.tts EXCEPT !.ph = "failed"]
  <2>3. td \in Voice /\ ta \in Voice /\ tf \in Voice
    BY <1>1, ZenonT(30) DEF Voice
  <2>4. /\ td.s = r.tts.s /\ td.cut = r.tts.cut /\ td.ph = "send" /\ td.n = r.tts.n
        /\ td.frame = "done"
        /\ ta.s = r.tts.s /\ ta.cut = r.tts.cut /\ ta.ph = "send" /\ ta.n = r.tts.n
        /\ ta.frame = "audio"
        /\ tf.s = r.tts.s /\ tf.cut = r.tts.cut /\ tf.ph = "failed" /\ tf.n = r.tts.n
    BY <1>1 DEF Voice
  <2>5. /\ [r EXCEPT !.tts.ph = "send", !.tts.frame = "done"] = [r EXCEPT !.tts = td]
        /\ [r EXCEPT !.tts.ph = "send", !.tts.frame = "audio"] = [r EXCEPT !.tts = ta]
        /\ [r EXCEPT !.tts.ph = "failed"] = [r EXCEPT !.tts = tf]
    BY <1>1 DEF Sessions, Voice
  <2>6. \/ r.cut # 0 /\ Put(c, NextSentence(r))
        \/ Put(c, [r EXCEPT !.tts = td])
        \/ r.tts.n < MaxChunks /\ Put(c, [r EXCEPT !.tts = ta])
        \/ Put(c, [r EXCEPT !.tts = tf])
    <3> HIDE DEF td, ta, tf
    <3>1. r.cancelled => r.cut # 0
      BY <1>1
    <3>2. QED
      BY <1>5, <2>5, <3>1 DEF TtsComputes
  <2> HIDE DEF td, ta, tf
  <2>7. CASE r.cut # 0 /\ Put(c, NextSentence(r))
    BY <1>1, <2>1, <2>7, DropIsSane
  <2>8. Phase(td) /\ Phase(tf) /\ (r.tts.n < MaxChunks => Phase(ta))
    BY <2>3, <2>4
  <2> HIDE DEF Phase
  <2>9. QED
    BY <2>2, <2>6, <2>7, <2>8
<1>6. CASE TtsSends(c)
  <2>1. InHand(r) /\ r.tts.ph = "send"
    BY <1>6 DEF TtsSends, Speaking, InHand
  <2>2. CASE r.tts.cut # r.cut
    <3>1. r.cut # 0
      BY <1>1, <2>1, <2>2, HandFields
    <3>2. Put(c, NextSentence(r))
      BY <1>6, <2>2 DEF TtsSends
    <3>3. QED
      BY <1>1, <2>1, <3>1, <3>2, DropIsSane
  <2>3. CASE r.tts.cut = r.cut /\ r.tts.frame = "done"
    <3>1. Put(c, NextSentence(Done(r)))
      BY <1>6, <2>3 DEF TtsSends, Frame
    <3>2. QED
      BY <1>1, <2>1, <3>1, EndIsSane
  <2>4. CASE r.tts.cut = r.cut /\ r.tts.frame # "done"
    <3>1. Put(c, Frame(r))
      BY <1>6, <2>4 DEF TtsSends
    <3>2. QED
      BY <1>1, <2>1, <2>4, <3>1, SendIsSane
  <2>5. QED
    BY <2>2, <2>3, <2>4
<1>7. CASE TtsFails(c)
  <2>1. InHand(r)
    BY <1>7 DEF TtsFails, Speaking, InHand
  <2>2. CASE r.cancelled
    <3>1. r.cut # 0 /\ Put(c, NextSentence(r))
      BY <1>1, <1>7, <2>2 DEF TtsFails
    <3>2. QED
      BY <1>1, <2>1, <3>1, DropIsSane
  <2>3. CASE ~r.cancelled
    <3>1. Put(c, NextSentence(Done(r)))
      BY <1>7, <2>3 DEF TtsFails
    <3>2. QED
      BY <1>1, <2>1, <3>1, EndIsSane
  <2>4. QED
    BY <2>2, <2>3
<1>8. QED
  BY <1>2, <1>3, <1>4, <1>5, <1>6, <1>7 DEF Consumer

LEMMA ConsumerInv ==
    ASSUME IInv, NEW c \in Conns, Consumer(c)
    PROVE  IInv'
<1>1. PICK n : Sane(n) /\ Put(c, n) /\ n.at = conn[c].at /\ n.admitted = conn[c].admitted
  BY ConsumerStep
<1>2. UNCHANGED <<jobs, active, draining, loaded, healthy, hung, requests>>
  BY DEF Consumer, TtsTakes, TtsBegins, TtsClears, TtsComputes, TtsSends, TtsFails,
         Speaking, instance
<1>3. requests' \in 0..MaxRequests
  BY <1>2 DEF IInv, TypeOK
<1>4. QED
  BY <1>1, <1>2, <1>3, StayInv

LEMMA EndsInv ==
    ASSUME IInv, NEW c \in Conns, End(c) \/ Bye(c) \/ ClientLeaves(c) \/ Disconnects(c)
    PROVE  IInv'
<1> DEFINE r == conn[c]
<1>1. Sane(r) /\ r \in Sessions /\ requests \in 0..MaxRequests
  BY One DEF IInv, TypeOK
<1>2. CASE End(c)
  <2> DEFINE k == StopTts(r)
             n == [k EXCEPT !.at = "join"]
  <2>1. /\ r.at = "live" /\ requests' \in 0..MaxRequests /\ Put(c, n)
        /\ UNCHANGED <<jobs, active, draining, loaded, healthy, hung>>
    <3>1. Receives(c)
      BY <1>2 DEF End
    <3>2. requests' \in 0..MaxRequests
      BY <3>1, ServiceAssumption DEF Receives, IInv, TypeOK
    <3>3. QED
      BY <1>2, <3>1, <3>2 DEF End, Receives, instance
  <2>2. Sane(k) /\ k \in Sessions /\ k.at = r.at /\ k.admitted = r.admitted
    BY <1>1, StopIsSane DEF Sane
  <2> HIDE DEF k
  <2>3. n \in Sessions
    BY <2>2, ZenonT(30) DEF Sessions
  <2>4. /\ n.said = k.said /\ n.q = k.q /\ n.tts = k.tts /\ n.ends = k.ends
        /\ n.late = k.late /\ n.cut = k.cut /\ n.acked = k.acked
        /\ n.at = "join" /\ n.admitted = k.admitted /\ n.cancelled = k.cancelled
    BY <2>2 DEF Sessions
  <2> HIDE DEF n
  <2>5. Sane(n)
    BY <2>1, <2>2, <2>3, <2>4, HandlerIsSane DEF Sane
  <2>6. QED
    BY <2>1, <2>2, <2>4, <2>5, MoveInv DEF Slot
<1>3. CASE Bye(c) \/ Disconnects(c)
  <2>1. /\ r.at \in {"join", "live"} /\ Leave(c, r) /\ UNCHANGED <<jobs, instance, requests>>
    BY <1>3 DEF Bye, Disconnects
  <2>2. Spared(c, jobs)
    BY <2>1, NoneForMe
  <2>3. QED
    BY <1>1, <2>1, <2>2, LeaveInv
<1>4. CASE ClientLeaves(c)
  <2> DEFINE n == [r EXCEPT !.up = FALSE]
  <2>1. Put(c, n) /\ UNCHANGED <<jobs, active, draining, loaded, healthy, hung, requests>>
    BY <1>4 DEF ClientLeaves, instance
  <2>2. n \in Sessions
    BY <1>1, ZenonT(30) DEF Sessions
  <2>3. /\ n.said = r.said /\ n.q = r.q /\ n.tts = r.tts /\ n.ends = r.ends
        /\ n.late = r.late /\ n.cut = r.cut /\ n.acked = r.acked
        /\ n.at = r.at /\ n.admitted = r.admitted /\ n.cancelled = r.cancelled
    BY <1>1 DEF Sessions
  <2> HIDE DEF n
  <2>4. Sane(n)
    BY <1>1, <2>2, <2>3, HandlerIsSane DEF Sane
  <2>5. QED
    BY <1>1, <2>1, <2>3, <2>4, StayInv
<1>5. QED
  BY <1>2, <1>3, <1>4

LEMMA NextInv ==
    ASSUME IInv, [Next]_vars
    PROVE  IInv'
<1>1. CASE Loads \/ Drain \/ JobHangs
  <2>1. UNCHANGED <<conn, jobs, active, healthy, requests>>
    BY <1>1 DEF Loads, Drain, JobHangs
  <2>2. draining' \in BOOLEAN /\ loaded' \in {"no"} \cup Probed /\ hung' \in BOOLEAN
    BY <1>1 DEF Loads, Drain, JobHangs, IInv, TypeOK
  <2>3. QED
    BY <2>1, <2>2, InstanceInv
<1>2. CASE JobDone
  BY <1>2, JobDoneInv
<1>3. ASSUME NEW c \in Conns,
             \/ Refuse(c) \/ Start(c)
             \/ Speech(c) \/ Endpoint(c) \/ Flush(c) \/ InputReset(c) \/ Cancel(c)
             \/ JobTimeout(c) \/ TtsText(c) \/ Consumer(c)
             \/ End(c) \/ ClientLeaves(c) \/ Closing(c)
      PROVE  IInv'
  BY <1>3, ArrivesInv, InputInv, JobTimeoutInv, TtsTextInv, ConsumerInv, EndsInv,
     ProtectsInv DEF Closing
<1>4. CASE UNCHANGED vars
  BY <1>4 DEF vars, IInv, TypeOK, AdmissionInv, JobsInv
<1>5. QED
  BY <1>1, <1>2, <1>3, <1>4 DEF Next

-------------------------------------------------------------------------------
(* The theorems *)

\* The strengthened invariant holds from the start: nothing is spoken out of its
\* turn, a slot is held from the start to the leaving, and every recognition
\* that is awaited is awaited by a connection that waits for it.
THEOREM AlwaysIInv == Spec => []IInv
<1>1. Init => IInv
  BY InitInv
<1>2. IInv /\ [Next]_vars => IInv'
  BY NextInv
<1>3. QED
  BY <1>1, <1>2, PTL DEF Spec

\* Type correctness, with never more sessions than slots.
THEOREM TypeCorrect == Spec => []TypeOK
<1>1. IInv => TypeOK
  BY DEF IInv
<1>2. QED
  BY <1>1, AlwaysIInv, PTL

\* No audio of a cancelled generation is sent after cancel_ack, whatever the
\* synthesis thread was doing when the cancellation came.
THEOREM CancellationFences == Spec => []CancelIsFence
<1>1. IInv => CancelIsFence
  BY DEF IInv, SpeakerInv, CancelIsFence
<1>2. QED
  BY <1>1, AlwaysIInv, PTL

\* Each sentence is ended for the client at most once, and all of them are when
\* nothing was cancelled and the speaker has nothing left.
THEOREM EndsExactlyOnce == Spec => []SentencesEndOnce
<1>1. ASSUME IInv PROVE SentencesEndOnce
  <2> SUFFICES ASSUME NEW c \in Conns, NEW s \in 1..MaxSentences
               PROVE  /\ conn[c].ends[s] <= 1
                      /\ (conn[c].at = "live" /\ conn[c].cut = 0 /\ s <= conn[c].said
                            /\ conn[c].q = <<>> /\ conn[c].tts.ph = "get")
                           => conn[c].ends[s] = 1
    BY DEF SentencesEndOnce
  <2> DEFINE r == conn[c]
  <2>1. SpeakerInv(r) /\ r.said \in Int
    BY <1>1, One, Fields DEF Sane
  <2>2. r.ends[s] <= 1 /\ (r.cut = 0 /\ s <= Past(r) => r.ends[s] = 1)
    BY <2>1 DEF SpeakerInv
  <2>3. r.q = <<>> /\ r.tts.ph = "get" => Past(r) = r.said
    <3> HAVE r.q = <<>> /\ r.tts.ph = "get"
    <3>1. Len(r.q) = 0
      OBVIOUS
    <3>2. Past(r) = r.said - Len(r.q)
      BY DEF Past, InHand
    <3>3. QED
      BY <2>1, <3>1, <3>2
  <2>4. QED
    BY <2>2, <2>3
<1>2. QED
  BY <1>1, AlwaysIInv, PTL

\* The jobs get no longer but by an executor that still may be used.
LEMMA ProceedGrows ==
    ASSUME NEW c, NEW r, NEW queue, Proceed(c, r, queue), ~healthy
    PROVE  jobs' = queue
  BY DEF Proceed

LEMMA Grows ==
    ASSUME IInv, [Next]_vars, Len(jobs') > Len(jobs)
    PROVE  healthy
<1>1. jobs \in Seq(Job) /\ Len(jobs) \in Nat
  BY DEF IInv, TypeOK, Job
<1> SUFFICES ASSUME ~healthy PROVE FALSE
  OBVIOUS
<1>2. jobs' # jobs
  BY <1>1
<1>3. CASE JobDone
  <2>1. jobs' = Tail(jobs) /\ jobs # <<>>
    BY <1>3, ProceedGrows DEF JobDone
  <2>2. QED
    BY <1>1, <2>1
<1>4. ASSUME NEW c \in Conns, JobTimeout(c)
      PROVE  FALSE
  <2>1. Len(jobs') = Len(jobs)
    BY <1>4, TimeoutJobs
  <2>2. QED
    BY <1>1, <2>1
<1>5. ASSUME NEW c \in Conns,
             Speech(c) \/ Endpoint(c) \/ Flush(c) \/ InputReset(c) \/ Cancel(c)
      PROVE  FALSE
  BY <1>2, <1>5, ProceedGrows DEF Speech, Endpoint, Flush, InputReset, Cancel
<1>6. ASSUME NEW c \in Conns,
             Refuse(c) \/ Start(c) \/ TtsText(c) \/ Consumer(c) \/ End(c)
                \/ ClientLeaves(c) \/ Closing(c)
      PROVE  FALSE
  BY <1>2, <1>6 DEF Refuse, Start, Arrives, TtsText, Consumer, TtsTakes, TtsBegins, TtsClears,
     TtsComputes, TtsSends, TtsFails, Speaking, End, ClientLeaves, Closing, Protects, Bye,
     Disconnects
<1>7. CASE Loads \/ Drain \/ JobHangs \/ UNCHANGED vars
  BY <1>2, <1>7 DEF Loads, Drain, JobHangs, vars
<1>8. QED
  BY <1>3, <1>4, <1>5, <1>6, <1>7 DEF Next

\* No recognition is queued behind one that everybody has given up on.
THEOREM RecogniserNotShared == Spec => NoJobBehindAbandoned
<1>1. IInv /\ [Next]_vars => (Len(jobs') > Len(jobs) => \A i \in DOMAIN jobs : ~jobs[i].left)
  <2> SUFFICES ASSUME IInv, [Next]_vars, Len(jobs') > Len(jobs), NEW i \in DOMAIN jobs
               PROVE  ~jobs[i].left
    OBVIOUS
  <2>1. healthy
    BY Grows
  <2>2. QED
    BY <2>1 DEF IInv, JobsInv
<1>2. QED
  BY <1>1, AlwaysIInv, PTL DEF Spec, NoJobBehindAbandoned

(***************************************************************************)
(* PlaybackQueue                                                           *)
(***************************************************************************)


\* The device is at least as fast as the stream: the queue never has to step
\* over a sample it does not hold.
Upsampling ==
    /\ InRate \in Nat \ {0} /\ OutRate \in Nat /\ InRate <= OutRate
    /\ Capacity \in Nat \ {0} /\ LedgerMax \in Nat \ {0} /\ FinalizedMax \in Nat \ {0}
    /\ MaxFrame \in Nat /\ Quantum \in Nat

-----------------------------------------------------------------------------
\* The next sample lies at most one further.
LEMMA OneFurther ==
    ASSUME NEW a \in Nat, NEW o \in Nat \ {0}, NEW d \in Nat, d <= o
    PROVE  /\ a \div o \in Nat /\ a % o \in 0..(o - 1)
           /\ (a + d) \div o \in (a \div o)..((a \div o) + 1)
<1> DEFINE q == a \div o
           r == a % o
           p == (a + d) \div o
           t == (a + d) % o
<1>1. q \in Nat /\ r \in 0..(o - 1) /\ a = o * q + r
    BY SMT
<1>2. p \in Nat /\ t \in 0..(o - 1) /\ a + d = o * p + t
    BY SMT
<1> HIDE DEF q, r, p, t
<1>3. o * p - o * q = r + d - t
    BY <1>1, <1>2, SMT
<1>4. o * (p - q) = r + d - t
    BY <1>1, <1>2, <1>3, SMT
<1>5. p - q < 2
    <2>1. SUFFICES ASSUME p - q >= 2 PROVE FALSE
        BY <1>1, <1>2
    <2>2. o * (p - q) >= o * 2
        BY <1>1, <1>2, <2>1, SMT
    <2> QED BY <1>1, <1>2, <1>4, <2>2, SMT
<1>6. p - q >= 0
    <2>1. SUFFICES ASSUME p - q <= -1 PROVE FALSE
        BY <1>1, <1>2
    <2>2. o * (p - q) <= o * (-1)
        BY <1>1, <1>2, <2>1, SMT
    <2> QED BY <1>1, <1>2, <1>4, <2>2, SMT
<1> QED BY <1>1, <1>5, <1>6, <1>2 DEF q, r, p

\* Chunks that follow one another without a gap.
Gapless(cs) ==
    /\ cs \in Seq(Chunks)
    /\ \A i \in 1..Len(cs) : cs[i].from < cs[i].to
    /\ \A i \in 1..Len(cs) : i < Len(cs) => cs[i].to = cs[i + 1].from

\* They hold what is written and not yet read.
QueueIs(cs, idx, count, end) ==
    /\ Gapless(cs) /\ idx \in Nat
    /\ cs = <<>> => count = 0 /\ idx = 0
    /\ cs # <<>> => /\ cs[Len(cs)].to = end
                    /\ cs[1].from + idx < cs[1].to
                    /\ count = end - (cs[1].from + idx)

LEMMA MovesFacts ==
    ASSUME NEW cs \in Seq(Chunks), Gapless(cs), cs # <<>>, NEW pos \in Nat,
           cs[1].from <= pos, pos <= cs[Len(cs)].to, MovesTo(cs, pos)
    PROVE  QueueIs(chunks', readIdx', cs[Len(cs)].to - pos, cs[Len(cs)].to)
<1>1. PICK k \in 1..(Len(cs) + 1) :
        /\ \A i \in 1..(k - 1) : cs[i].to <= pos
        /\ k <= Len(cs) => pos < cs[k].to
        /\ chunks' = SubSeq(cs, k, Len(cs))
        /\ readIdx' = pos - (IF k <= Len(cs) THEN cs[k].from ELSE cs[Len(cs)].to)
    BY Zenon DEF MovesTo
<1>2. Len(cs) \in Nat /\ \A i \in 1..Len(cs) : cs[i].from \in Nat /\ cs[i].to \in Nat
    <2>1. Len(cs) \in Nat /\ \A i \in 1..Len(cs) : cs[i] \in Chunks
        OBVIOUS
    <2> QED  BY <2>1 DEF Chunks
<1>3. CASE k = Len(cs) + 1
    <2>1. chunks' = <<>>
        BY <1>1, <1>3
    <2>2. cs[Len(cs)].to = pos
        BY <1>1, <1>2, <1>3
    <2> QED  BY <1>1, <1>2, <1>3, <2>1, <2>2 DEF QueueIs, Gapless
<1>4. CASE k <= Len(cs)
    <2>1. cs[k].from <= pos
        <3>1. CASE k = 1
            BY <3>1
        <3>2. CASE k > 1
            <4>1. k - 1 \in 1..Len(cs) /\ k - 1 < Len(cs) /\ k - 1 + 1 = k
                BY <1>2, <1>4, <3>2
            <4>2. cs[k - 1].to = cs[k].from
                BY <4>1 DEF Gapless
            <4> QED  BY <1>1, <1>2, <4>1, <4>2
        <3> QED  BY <1>1, <3>1, <3>2
    <2>2. /\ chunks' \in Seq(Chunks) /\ Len(chunks') = Len(cs) - k + 1
          /\ \A i \in 1..Len(chunks') : chunks'[i] = cs[i + k - 1]
        BY SMTT(30), <1>1, <1>4
    <2>3. chunks' # <<>> /\ chunks'[1] = cs[k] /\ chunks'[Len(chunks')] = cs[Len(cs)]
        BY <1>2, <1>4, <2>2
    <2>4. Gapless(chunks')
        <3>1. \A i \in 1..Len(chunks') : chunks'[i].from < chunks'[i].to
            BY SMTT(30), <1>2, <1>4, <2>2 DEF Gapless
        <3>2. ASSUME NEW i \in 1..Len(chunks'), i < Len(chunks')
              PROVE  chunks'[i].to = chunks'[i + 1].from
            <4>0. Len(cs) \in Nat /\ k \in 1..Len(cs) /\ Len(chunks') = Len(cs) - k + 1
                BY <1>2, <1>4, <2>2
            <4> DEFINE n == Len(cs)
                       m == Len(chunks')
            <4>a. n \in Nat /\ k \in 1..n /\ m = n - k + 1 /\ i \in 1..m /\ i < m
                BY <3>2, <4>0
            <4> HIDE DEF n, m
            <4>b. i + k - 1 \in 1..n /\ i + k - 1 < n /\ i + 1 \in 1..m
                  /\ (i + 1) + k - 1 = (i + k - 1) + 1
                BY <4>a
            <4>1. i + k - 1 \in 1..Len(cs) /\ i + k - 1 < Len(cs) /\ i + 1 \in 1..Len(chunks')
                  /\ (i + 1) + k - 1 = (i + k - 1) + 1
                BY <4>b DEF n, m
            <4>2. cs[i + k - 1].to = cs[(i + k - 1) + 1].from
                BY <4>1 DEF Gapless
            <4> QED  BY <2>2, <4>1, <4>2
        <3> QED  BY <2>2, <3>1, <3>2 DEF Gapless
    <2> QED  BY SMTT(30), <1>1, <1>2, <1>4, <2>1, <2>3, <2>4 DEF QueueIs
<1> QED  BY <1>1, <1>2, <1>3, <1>4

-----------------------------------------------------------------------------
Key(e) == <<e.generation, e.seq>>

\* The record holds the keys of the last reports, FinalizedMax at most.
Record ==
    /\ finalized \in Seq(Nat \X Turns) /\ told \in Seq(Terminals)
    /\ Len(finalized) <= FinalizedMax /\ Len(finalized) <= Len(told)
    /\ Len(finalized) = FinalizedMax \/ Len(finalized) = Len(told)
    /\ \A i \in 1..Len(finalized) :
          finalized[i] = Key(told[Len(told) - Len(finalized) + i])
    /\ RepeatsLieApart

LEMMA EmitsRecord ==
    ASSUME Upsampling, Record, NEW e \in Terminals, Emits(e)
    PROVE  Record' /\ (told' = told \/ told' = Append(told, e))
<1> DEFINE f == Append(finalized, Key(e))
           d == Len(told) - Len(finalized)
<1>1. CASE \E i \in 1..Len(finalized) : finalized[i] = Key(e)
    <2>1. UNCHANGED <<finalized, told>>
        BY <1>1, Zenon DEF Emits, Key
    <2> QED  BY <2>1 DEF Record, RepeatsLieApart
<1>2. CASE ~\E i \in 1..Len(finalized) : finalized[i] = Key(e)
    <2>1. /\ finalized' = IF Len(f) > FinalizedMax THEN Tail(f) ELSE f
          /\ told' = Append(told, e)
        BY <1>2, Zenon DEF Emits, Key
    <2>2. Key(e) \in Nat \X Turns
        BY DEF Key, Terminals
    <2>3. /\ Len(finalized) \in Nat /\ Len(told) \in Nat /\ d \in Nat
          /\ finalized \in Seq(Nat \X Turns) /\ told \in Seq(Terminals)
          /\ Len(finalized) <= FinalizedMax /\ FinalizedMax \in Nat \ {0}
        BY DEF Record, Upsampling
    <2>4. /\ told' \in Seq(Terminals) /\ Len(told') = Len(told) + 1 /\ told'[Len(told) + 1] = e
          /\ \A i \in 1..Len(told) : told'[i] = told[i]
        BY <2>1, <2>3
    <2>5. /\ f \in Seq(Nat \X Turns) /\ Len(f) = Len(finalized) + 1
          /\ f[Len(finalized) + 1] = Key(e)
          /\ \A i \in 1..Len(finalized) : f[i] = finalized[i]
        BY <2>2, <2>3
    <2> HIDE DEF f
    <2>6. \A i \in 1..Len(f) : f[i] = Key(told'[d + i])
        <3> TAKE i \in 1..Len(f)
        <3>1. CASE i = Len(finalized) + 1
            BY <2>3, <2>4, <2>5, <3>1
        <3>2. CASE i # Len(finalized) + 1
            <4>1. i \in 1..Len(finalized) /\ d + i \in 1..Len(told)
                BY SMTT(30), <2>3, <2>5, <3>2
            <4> QED  BY <2>4, <2>5, <4>1 DEF Record
        <3> QED  BY <3>1, <3>2
    <2>7. RepeatsLieApart'
        <3> SUFFICES ASSUME NEW i \in 1..Len(told'), NEW j \in 1..Len(told'), i < j,
                            told'[i].generation = told'[j].generation,
                            told'[i].seq = told'[j].seq
                     PROVE  j - i >= FinalizedMax
            BY DEF RepeatsLieApart
        <3>1. i \in 1..Len(told) /\ told'[i] = told[i]
            BY <2>3, <2>4
        <3>2. CASE j \in 1..Len(told)
            BY <2>4, <3>1, <3>2 DEF Record, RepeatsLieApart
        <3>3. CASE j = Len(told) + 1
            <4>1. Key(told[i]) = Key(e)
                BY <2>4, <3>1, <3>3 DEF Key
            <4>2. ~(i > d)
                <5> SUFFICES ASSUME i > d PROVE FALSE
                    OBVIOUS
                <5>1. i - d \in 1..Len(finalized) /\ d + (i - d) = i
                    BY <2>3, <3>1
                <5>2. finalized[i - d] = Key(told[i])
                    BY <5>1, Zenon DEF Record
                <5> QED  BY <1>2, <4>1, <5>1, <5>2
            <4>3. d > 0
                BY <2>3, <3>1, <4>2
            <4>4. Len(finalized) = FinalizedMax
                BY <2>3, <4>3 DEF Record
            <4>5. i <= Len(told) - FinalizedMax /\ i \in Int /\ j \in Int
                BY <2>3, <3>1, <4>2, <4>4
            <4>6. Len(told) \in Int /\ FinalizedMax \in Int
                BY <2>3
            <4> HIDE DEF d
            <4> QED  BY <3>3, <4>5, <4>6, SMT
        <3>4. j \in 1..Len(told) \/ j = Len(told) + 1
            <4>1. Len(told') = Len(told) + 1 /\ Len(told) \in Nat
                BY <2>3, <2>4
            <4> HIDE DEF d
            <4> QED  BY <4>1
        <3> QED  BY <3>2, <3>3, <3>4
    <2>8. CASE Len(f) > FinalizedMax
        <3>1. /\ finalized' \in Seq(Nat \X Turns) /\ Len(finalized') = Len(finalized)
              /\ \A i \in 1..Len(finalized) : finalized'[i] = f[i + 1]
            BY <2>1, <2>3, <2>5, <2>8
        <3>2. Len(finalized') = FinalizedMax
            BY <2>3, <2>5, <2>8, <3>1
        <3>3. \A i \in 1..Len(finalized') :
                finalized'[i] = Key(told'[Len(told') - Len(finalized') + i])
            <4> TAKE i \in 1..Len(finalized')
            <4>1. i + 1 \in 1..Len(f) /\ Len(told') - Len(finalized') + i = d + (i + 1)
                BY <2>3, <2>4, <2>5, <3>1
            <4> QED  BY <2>6, <3>1, <4>1
        <3>4. Len(finalized') <= FinalizedMax /\ Len(finalized') <= Len(told')
            BY <2>3, <2>4, <3>1, <3>2
        <3> QED  BY <2>1, <2>4, <2>7, <3>1, <3>2, <3>3, <3>4, Zenon DEF Record
    <2>9. CASE ~(Len(f) > FinalizedMax)
        <3>1. finalized' = f
            BY <2>1, <2>9
        <3>2. Len(finalized) = Len(told)
            BY <2>3, <2>5, <2>9 DEF Record
        <3>3. \A i \in 1..Len(finalized') :
                finalized'[i] = Key(told'[Len(told') - Len(finalized') + i])
            <4> TAKE i \in 1..Len(finalized')
            <4>1. Len(finalized') = Len(finalized) + 1 /\ Len(told') = Len(told) + 1 /\ i \in Int
                BY <2>4, <2>5, <3>1
            <4>2. Len(told') - Len(finalized') + i = d + i
                BY <2>3, <4>1
            <4> QED  BY <2>6, <3>1, <4>2
        <3>4. /\ Len(finalized') <= FinalizedMax /\ Len(finalized') = Len(told')
              /\ Len(finalized') <= Len(told')
            BY <2>3, <2>4, <2>5, <2>9, <3>1, <3>2
        <3>5. finalized' \in Seq(Nat \X Turns)
            BY <2>5, <3>1
        <3> QED  BY <2>1, <2>4, <2>7, <3>3, <3>4, <3>5, Zenon DEF Record
    <2> QED  BY <2>8, <2>9
<1> QED  BY <1>1, <1>2

-----------------------------------------------------------------------------
\* A report claims no more than sounded.
Good(e, heard) ==
    /\ e.outcome = "played" => e.startAbs..(e.endAbs - 2) \subseteq heard
    /\ e.position <= Cardinality(heard \cap e.startAbs..(e.endAbs - 1)) + 1

\* What an overflow took of a turn.
LostOf(s, gone) == {p \in gone : s.startAbs <= p /\ (s.endAbs = Unsealed \/ p < s.endAbs)}

\* Of a turn everything read so far sounded or was discarded, and what was
\* discarded is counted.
SegIs(s, w, r, heard, gone) ==
    /\ s \in Segs /\ s.startAbs <= w
    /\ s.endAbs # Unsealed => s.startAbs <= s.endAbs /\ s.endAbs <= w
    /\ s.startAbs..(r - 1) \subseteq heard \cup gone
    /\ s.taintedSamples = Cardinality(LostOf(s, gone))
    /\ ~s.tainted => s.taintedSamples = 0

HistoryIs(r, heard, gone) ==
    /\ heard \subseteq 0..(r - 1) /\ gone \subseteq 0..(r - 1)
    /\ heard \cap gone = {}

LEMMA Counting ==
    ASSUME NEW r \in Nat, NEW heard, NEW gone, HistoryIs(r, heard, gone)
    PROVE  /\ IsFiniteSet(heard) /\ Cardinality(heard) \in Nat
           /\ IsFiniteSet(gone) /\ Cardinality(gone) \in Nat
           /\ \A S \in SUBSET heard : IsFiniteSet(S) /\ Cardinality(S) \in Nat
           /\ \A S \in SUBSET gone : IsFiniteSet(S) /\ Cardinality(S) \in Nat
<1>1. IsFiniteSet(0..(r - 1))
    BY FS_Interval
<1>2. IsFiniteSet(heard) /\ IsFiniteSet(gone)
    BY <1>1, FS_Subset DEF HistoryIs
<1>3. ASSUME NEW S, IsFiniteSet(S) PROVE Cardinality(S) \in Nat
    BY <1>3, FS_CardinalityType
<1> QED  BY <1>2, <1>3, FS_Subset

\* What was read of [a, b) is what sounded of it and what was discarded.
LEMMA ReadIsSplit ==
    ASSUME NEW r \in Nat, NEW heard, NEW gone, HistoryIs(r, heard, gone),
           NEW a \in Nat, NEW b \in Nat, a <= b, a..(b - 1) \subseteq heard \cup gone
    PROVE  b - a = Cardinality(heard \cap a..(b - 1)) + Cardinality(gone \cap a..(b - 1))
<1> DEFINE H == heard \cap a..(b - 1)
           G == gone \cap a..(b - 1)
<1>1. H \cup G = a..(b - 1) /\ H \cap G = {}
    BY DEF HistoryIs
<1>2. IsFiniteSet(H) /\ IsFiniteSet(G) /\ Cardinality(H) \in Nat /\ Cardinality(G) \in Nat
    BY Counting
<1>3. Cardinality(a..(b - 1)) = b - a
    <2> DEFINE d == b - 1
    <2>1. d \in Int /\ b = d + 1 /\ a \in Int /\ a <= d + 1
        OBVIOUS
    <2> HIDE DEF d
    <2>2. Cardinality(a..d) = IF a > d THEN 0 ELSE d - a + 1
        BY <2>1, FS_Interval
    <2>3. Cardinality(a..d) = b - a
        BY <2>1, <2>2
    <2> QED  BY <2>3 DEF d
<1>4. Cardinality(H \cup G) = Cardinality(H) + Cardinality(G) - Cardinality(H \cap G)
    BY <1>2, FS_Union
<1>5. Cardinality({}) = 0
    BY FS_EmptySet
<1>6. Cardinality(H \cup G) = b - a /\ Cardinality(H \cap G) = 0
    BY <1>1, <1>3, <1>5
<1> HIDE DEF H, G
<1>7. b - a = Cardinality(H) + Cardinality(G)
    BY <1>2, <1>4, <1>6
<1> QED  BY <1>7 DEF H, G

LEMMA FewerCount ==
    ASSUME NEW S, NEW T, S \subseteq T, IsFiniteSet(T)
    PROVE  IsFiniteSet(S) /\ Cardinality(S) \in Nat /\ Cardinality(T) \in Nat
           /\ Cardinality(S) <= Cardinality(T)
BY FS_Subset, FS_CardinalityType

LEMMA ConclusionIsGood ==
    ASSUME NEW w \in Nat, NEW r \in Nat, r <= w, NEW heard, NEW gone,
           HistoryIs(r, heard, gone), NEW s, SegIs(s, w, r, heard, gone),
           s.endAbs # Unsealed, r >= s.endAbs - 1
    PROVE  Conclusion(s) \in Terminals /\ Good(Conclusion(s), heard)
<1> DEFINE a == s.startAbs
           b == s.endAbs
           H == heard \cap a..(b - 1)
           L == LostOf(s, gone)
<1>1. /\ s.generation \in Nat /\ s.seq \in Turns /\ a \in Nat /\ b \in Nat /\ a <= b
      /\ s.taintedSamples = Cardinality(L) /\ a..(r - 1) \subseteq heard \cup gone
      /\ ~s.tainted => s.taintedSamples = 0
    BY DEF SegIs, Segs, Unsealed
<1>2. /\ IsFiniteSet(L) /\ Cardinality(L) \in Nat /\ IsFiniteSet(H) /\ Cardinality(H) \in Nat
    <2>1. L \subseteq gone /\ H \subseteq heard
        BY DEF LostOf
    <2> QED  BY <2>1, Counting
<1>3. Cardinality(H) + Cardinality(L) + 1 >= b - a
    <2>1. CASE a = b
        <3> HIDE DEF H, L
        <3> QED  BY <1>1, <1>2, <2>1
    <2>2. CASE a < b
        <3> DEFINE c == b - 1
        <3>1. c \in Nat /\ a <= c /\ a..(c - 1) \subseteq heard \cup gone
            BY <1>1, <2>2
        <3>2. c - a = Cardinality(heard \cap a..(c - 1)) + Cardinality(gone \cap a..(c - 1))
            BY <1>1, <3>1, ReadIsSplit
        <3>3. heard \cap a..(c - 1) \subseteq H /\ gone \cap a..(c - 1) \subseteq L
            BY <1>1, <3>1 DEF LostOf
        <3>4. /\ Cardinality(heard \cap a..(c - 1)) <= Cardinality(H)
              /\ Cardinality(gone \cap a..(c - 1)) <= Cardinality(L)
              /\ Cardinality(heard \cap a..(c - 1)) \in Nat /\ Cardinality(gone \cap a..(c - 1)) \in Nat
            BY <1>2, <3>3, FewerCount
        <3> HIDE DEF H, L
        <3> QED  BY <1>1, <1>2, <3>1, <3>2, <3>4
    <2>3. a = b \/ a < b
        BY <1>1
    <2> QED  BY <2>1, <2>2, <2>3, Zenon
<1>4. s.taintedSamples = 0 => a..(b - 2) \subseteq heard
    <2> SUFFICES ASSUME s.taintedSamples = 0, NEW p \in a..(b - 2) PROVE p \in heard
        OBVIOUS
    <2>1. L = {}
        BY <1>1, <1>2, FS_EmptySet
    <2>2. p \in a..(r - 1) /\ p \in Nat /\ p < b
        BY <1>1
    <2>3. p \notin gone
        BY <2>1, <2>2, <1>1 DEF LostOf
    <2> QED  BY <1>1, <2>2, <2>3
<1> HIDE DEF L, H
<1>5. CASE s.tainted \/ ~s.rendered
    <2> DEFINE pos == IF s.rendered THEN Greater(0, (b - a) - s.taintedSamples) ELSE 0
    <2>1. Conclusion(s) = [generation |-> s.generation, seq |-> s.seq, outcome |-> "aborted",
                           position |-> pos, startAbs |-> a, endAbs |-> b]
        BY <1>5, Zenon DEF Conclusion, Terminal
    <2>2. pos \in Nat /\ pos <= Cardinality(H) + 1
        BY <1>1, <1>2, <1>3 DEF Greater
    <2> HIDE DEF pos
    <2>3. Conclusion(s) \in Terminals
        BY <1>1, <2>1, <2>2 DEF Terminals
    <2>4. Conclusion(s).outcome # "played" /\ Conclusion(s).position = pos
          /\ Conclusion(s).startAbs = a /\ Conclusion(s).endAbs = b
        BY <2>1
    <2> QED  BY <2>2, <2>3, <2>4, Zenon DEF Good, H
<1>6. CASE ~(s.tainted \/ ~s.rendered)
    <2>1. Conclusion(s) = [generation |-> s.generation, seq |-> s.seq, outcome |-> "played",
                           position |-> b - a, startAbs |-> a, endAbs |-> b]
        BY <1>6, Zenon DEF Conclusion, Terminal
    <2>2. b - a \in Nat /\ b - a <= Cardinality(H) + 1
        BY <1>1, <1>2, <1>3, <1>6
    <2>3. Conclusion(s) \in Terminals
        BY <1>1, <2>1, <2>2 DEF Terminals
    <2>4. Conclusion(s).position = b - a
          /\ Conclusion(s).startAbs = a /\ Conclusion(s).endAbs = b
        BY <2>1
    <2>5. a..(b - 2) \subseteq heard
        BY <1>1, <1>4, <1>6
    <2> QED  BY <2>2, <2>3, <2>4, <2>5, Zenon DEF Good, H
<1> QED  BY <1>5, <1>6

LEMMA CutOffIsGood ==
    ASSUME NEW w \in Nat, NEW heard, NEW gone, RenderAbs \in Nat, RenderAbs <= w,
           HistoryIs(RenderAbs, heard, gone), NEW s, SegIs(s, w, RenderAbs, heard, gone)
    PROVE  CutOff(s) \in Terminals /\ Good(CutOff(s), heard)
<1> DEFINE r == RenderAbs
           a == s.startAbs
           upper == IF s.endAbs = Unsealed THEN r ELSE s.endAbs
           b == Greater(upper, a)
           c == Lesser(r, upper)
           H == heard \cap a..(b - 1)
           L == LostOf(s, gone)
           pos == Greater(0, c - a - s.taintedSamples)
<1>1. /\ s.generation \in Nat /\ s.seq \in Turns /\ a \in Nat /\ upper \in Nat /\ r \in Nat
      /\ s.taintedSamples = Cardinality(L) /\ a..(r - 1) \subseteq heard \cup gone
      /\ s.endAbs # Unsealed => s.endAbs \in Nat
    BY DEF SegIs, Segs, Unsealed
<1>2. IsFiniteSet(L) /\ Cardinality(L) \in Nat /\ IsFiniteSet(H) /\ Cardinality(H) \in Nat
    <2>1. L \subseteq gone /\ H \subseteq heard
        BY DEF LostOf
    <2> QED  BY <2>1, Counting
<1>3. b \in Nat /\ c \in Nat /\ c <= r /\ c <= b /\ c <= upper /\ upper <= b
    BY <1>1 DEF Greater, Lesser
<1>4. pos \in Nat /\ pos <= Cardinality(H) + 1
    <2>1. CASE c <= a
        BY <1>1, <1>2, <1>3, <2>1 DEF Greater
    <2>2. CASE a < c
        <3>1. a..(c - 1) \subseteq heard \cup gone
            BY <1>1, <1>3
        <3>2. c - a = Cardinality(heard \cap a..(c - 1)) + Cardinality(gone \cap a..(c - 1))
            BY <1>1, <1>3, <2>2, <3>1, ReadIsSplit
        <3>3. heard \cap a..(c - 1) \subseteq H
            BY <1>1, <1>3
        <3>4. gone \cap a..(c - 1) \subseteq L
            <4> SUFFICES ASSUME NEW p \in gone \cap a..(c - 1) PROVE p \in L
                OBVIOUS
            <4>1. a <= p /\ p < c /\ p \in Nat
                BY <1>1, <1>3
            <4>2. s.endAbs # Unsealed => p < s.endAbs
                BY <1>1, <1>3, <4>1
            <4> QED  BY <4>1, <4>2 DEF LostOf
        <3>5. /\ Cardinality(heard \cap a..(c - 1)) <= Cardinality(H)
              /\ Cardinality(gone \cap a..(c - 1)) <= Cardinality(L)
              /\ Cardinality(heard \cap a..(c - 1)) \in Nat /\ Cardinality(gone \cap a..(c - 1)) \in Nat
            BY <1>2, <3>3, <3>4, FewerCount
        <3> HIDE DEF H, L, c, r
        <3> QED  BY <1>1, <1>2, <1>3, <2>2, <3>2, <3>5 DEF Greater
    <2> QED  BY <1>1, <1>3, <2>1, <2>2
<1>5. CutOff(s) = [generation |-> s.generation, seq |-> s.seq, outcome |-> "aborted",
                   position |-> pos, startAbs |-> a, endAbs |-> b]
    BY Zenon DEF CutOff, Terminal
<1> HIDE DEF pos, b, upper, c, H, L
<1>6. CutOff(s) \in Terminals
    BY <1>1, <1>3, <1>4, <1>5 DEF Terminals
<1>7. /\ CutOff(s).outcome # "played" /\ CutOff(s).position = pos
      /\ CutOff(s).startAbs = a /\ CutOff(s).endAbs = b
    BY <1>5
<1> QED  BY <1>4, <1>6, <1>7, Zenon DEF Good, H

-----------------------------------------------------------------------------
\* What holds of the player between any two steps.
QueueIn ==
    /\ QueueIs(chunks, readIdx, queued, writeAbs) /\ queued \in Nat /\ writeAbs \in Nat
    /\ queued <= writeAbs /\ phase \in 0..(OutRate - 1)

LedgerIn ==
    /\ ledger \in Seq(Segs)
    /\ \A i \in 1..Len(ledger) : SegIs(ledger[i], writeAbs, RenderAbs, sounded, lost)

\* No turn before the one the check has come to is over and not reported.
LookedAt(n) ==
    \A i \in 1..Len(ledger) :
        i < n /\ ledger[i].endAbs # Unsealed => RenderAbs < ledger[i].endAbs - Eps

HandlerIn ==
    /\ turnAt \in Nat \ {0} /\ handler \in {"idle", "check", "flush"}
    /\ generation \in Nat /\ tombstone \in BOOLEAN
    /\ handler # "check" => turnAt = 1
    /\ handler = "check" => LookedAt(turnAt)
    /\ tombstone => chunks = <<>> /\ ledger = <<>>

ToldIn == \A i \in 1..Len(told) : Good(told[i], sounded)

PlayerInv ==
    /\ QueueIn /\ LedgerIn /\ HandlerIn /\ Record /\ ToldIn
    /\ HistoryIs(RenderAbs, sounded, lost) /\ NoneIsForgotten

\* How far the sound was read is a number, and only grows.
LEMMA Reading ==
    ASSUME QueueIn
    PROVE  RenderAbs \in Nat /\ RenderAbs <= writeAbs
BY DEF QueueIn, RenderAbs

LEMMA MoreHeard ==
    ASSUME NEW r \in Nat, NEW heard, NEW gone, HistoryIs(r, heard, gone),
           NEW old, old \subseteq heard, NEW e \in Terminals, Good(e, old)
    PROVE  Good(e, heard)
<1> DEFINE R == e.startAbs..(e.endAbs - 1)
<1>1. old \cap R \subseteq heard \cap R /\ IsFiniteSet(heard \cap R)
    BY Counting
<1>2. /\ Cardinality(old \cap R) \in Nat /\ Cardinality(heard \cap R) \in Nat
      /\ Cardinality(old \cap R) <= Cardinality(heard \cap R)
    BY <1>1, FewerCount
<1>3. e.position \in Nat
    BY DEF Terminals
<1>4. e.position <= Cardinality(old \cap R) + 1
    BY DEF Good
<1>5. e.position <= Cardinality(heard \cap R) + 1
    <2> HIDE DEF R
    <2> QED BY <1>2, <1>3, <1>4
<1>6. e.outcome = "played" => e.startAbs..(e.endAbs - 2) \subseteq heard
    BY DEF Good
<1> QED  BY <1>5, <1>6 DEF Good

LEMMA ReportIsGood ==
    ASSUME Upsampling, PlayerInv, NEW e \in Terminals, Good(e, sounded), Emits(e),
           UNCHANGED sounded
    PROVE  Record' /\ ToldIn'
<1>1. Record' /\ (told' = told \/ told' = Append(told, e))
    BY EmitsRecord DEF PlayerInv
<1>2. CASE told' = told
    BY <1>1, <1>2 DEF PlayerInv, ToldIn
<1>3. CASE told' = Append(told, e)
    <2>1. told \in Seq(Terminals)
        BY DEF PlayerInv, Record
    <2>2. /\ Len(told') = Len(told) + 1 /\ told'[Len(told) + 1] = e /\ Len(told) \in Nat
          /\ \A i \in 1..Len(told) : told'[i] = told[i]
        BY <1>3, <2>1
    <2>3. ASSUME NEW i \in 1..Len(told') PROVE Good(told'[i], sounded)
        <3>1. i \in 1..Len(told) \/ i = Len(told) + 1
            BY <2>2
        <3> QED  BY <2>2, <3>1 DEF PlayerInv, ToldIn
    <2> QED  BY <1>1, <2>3 DEF ToldIn
<1> QED  BY <1>1, <1>2, <1>3

\* A sealed turn that is over has been read to its end.
LEMMA ReachedIsRead ==
    ASSUME Upsampling, QueueIn, LedgerIn, NEW i \in 1..Len(ledger)
    PROVE  Reached(i) <=> ledger[i].endAbs # Unsealed /\ RenderAbs >= ledger[i].endAbs - 1
<1> DEFINE s == ledger[i]
<1>1. SegIs(s, writeAbs, RenderAbs, sounded, lost) /\ (s.endAbs # Unsealed => s.endAbs \in Nat)
    BY DEF LedgerIn, SegIs, Segs
<1>2. Drained => queued <= 1
    <2> SUFFICES ASSUME Drained, queued > 1 PROVE FALSE
        BY DEF QueueIn
    <2> DEFINE q == queued - 1
    <2>1. q \in Nat \ {0} /\ OutRate \in Nat /\ InRate \in Nat \ {0} /\ InRate <= OutRate
        BY DEF QueueIn, Upsampling
    <2>2. (q * OutRate) \div InRate = 0
        BY <2>1 DEF Drained
    <2> HIDE DEF q
    <2> DEFINE p == q * OutRate
    <2>3. p \in Nat /\ p >= InRate
        BY <2>1, SMT
    <2> HIDE DEF p
    <2>4. (p \div InRate) # 0
        BY <2>1, <2>3, SMT
    <2> QED  BY <2>2, <2>4 DEF p
<1>3. s.endAbs # Unsealed => s.endAbs <= writeAbs
    BY <1>1 DEF SegIs
<1> HIDE DEF s
<1>4. Drained /\ s.endAbs # Unsealed => RenderAbs >= s.endAbs - 1
    BY <1>1, <1>2, <1>3 DEF QueueIn, RenderAbs
<1> QED  BY <1>4 DEF Reached, s, Eps

-----------------------------------------------------------------------------
(* The steps                                                                 *)

LEMMA WithoutFacts ==
    ASSUME NEW S, NEW s \in Seq(S), NEW i \in 1..Len(s)
    PROVE  /\ Without(s, i) \in Seq(S) /\ Len(Without(s, i)) = Len(s) - 1
           /\ \A j \in 1..(Len(s) - 1) : Without(s, i)[j] = s[IF j < i THEN j ELSE j + 1]
<1> DEFINE u == SubSeq(s, 1, i - 1)
           v == SubSeq(s, i + 1, Len(s))
<1>1. /\ u \in Seq(S) /\ Len(u) = i - 1 /\ \A j \in 1..(i - 1) : u[j] = s[j]
      /\ v \in Seq(S) /\ Len(v) = Len(s) - i /\ \A j \in 1..(Len(s) - i) : v[j] = s[i + j]
    OBVIOUS
<1> HIDE DEF u, v
<1>2. /\ u \o v \in Seq(S) /\ Len(u \o v) = Len(s) - 1
      /\ \A j \in 1..(Len(s) - 1) : (u \o v)[j] = IF j <= Len(u) THEN u[j] ELSE v[j - Len(u)]
    <2>1. u \o v \in Seq(S) /\ Len(u \o v) = Len(u) + Len(v)
          /\ \A j \in 1..(Len(u) + Len(v)) :
                (u \o v)[j] = IF j <= Len(u) THEN u[j] ELSE v[j - Len(u)]
        BY <1>1, ConcatProperties
    <2>2. Len(u) + Len(v) = Len(s) - 1
        BY <1>1
    <2> QED  BY <2>1, <2>2
<1>3. ASSUME NEW j \in 1..(Len(s) - 1) PROVE (u \o v)[j] = s[IF j < i THEN j ELSE j + 1]
    <2>1. CASE j < i
        BY <1>1, <1>2, <2>1
    <2>2. CASE ~(j < i)
        <3>1. j - Len(u) \in 1..(Len(s) - i) /\ i + (j - Len(u)) = j + 1 /\ ~(j <= Len(u))
            BY <1>1, <2>2
        <3> QED  BY <1>1, <1>2, <2>2, <3>1
    <2> QED  BY <2>1, <2>2
<1> QED  BY <1>2, <1>3 DEF Without, u, v

LEMMA SameRecord == ASSUME Record, UNCHANGED <<finalized, told>> PROVE Record'
BY DEF Record, RepeatsLieApart

LEMMA CheckSegStep == ASSUME Upsampling, PlayerInv, CheckSeg PROVE PlayerInv'
<1>1. /\ handler = "check" /\ turnAt <= Len(ledger) /\ turnAt \in 1..Len(ledger)
      /\ UNCHANGED <<chunks, readIdx, phase, queued, writeAbs, generation, tombstone, handler,
                     sounded, lost>>
    BY DEF CheckSeg, PlayerInv, HandlerIn, LedgerIn, sampleQueue
<1>2. QueueIn' /\ RenderAbs' = RenderAbs /\ RenderAbs \in Nat /\ RenderAbs <= writeAbs
    BY <1>1, Reading DEF PlayerInv, QueueIn, QueueIs, Gapless, RenderAbs
<1>3. HistoryIs(RenderAbs, sounded, lost)' /\ NoneIsForgotten' /\ ~tombstone
    BY <1>1, <1>2 DEF PlayerInv, HistoryIs, NoneIsForgotten, HandlerIn
<1>4. ledger \in Seq(Segs) /\ SegIs(ledger[turnAt], writeAbs, RenderAbs, sounded, lost)
    BY <1>1 DEF PlayerInv, LedgerIn
<1>5. CASE Reached(turnAt)
    <2>1. Emits(Conclusion(ledger[turnAt])) /\ ledger' = Without(ledger, turnAt) /\ turnAt' = turnAt
        BY <1>5, Zenon DEF CheckSeg
    <2>2. ledger[turnAt].endAbs # Unsealed /\ RenderAbs >= ledger[turnAt].endAbs - 1
        BY <1>1, <1>5, ReachedIsRead DEF PlayerInv
    <2>3. Conclusion(ledger[turnAt]) \in Terminals /\ Good(Conclusion(ledger[turnAt]), sounded)
        <3>1. writeAbs \in Nat /\ HistoryIs(RenderAbs, sounded, lost)
            BY DEF PlayerInv, QueueIn
        <3> QED  BY <1>2, <1>4, <2>2, <3>1, ConclusionIsGood
    <2>4. Record' /\ ToldIn'
        BY <1>1, <2>1, <2>3, ReportIsGood
    <2>5. /\ ledger' \in Seq(Segs) /\ Len(ledger') = Len(ledger) - 1
          /\ \A j \in 1..Len(ledger') : ledger'[j] = ledger[IF j < turnAt THEN j ELSE j + 1]
        BY <1>1, <1>4, <2>1, WithoutFacts
    <2>6. LedgerIn'
        <3> SUFFICES ASSUME NEW j \in 1..Len(ledger')
                     PROVE  SegIs(ledger'[j], writeAbs, RenderAbs, sounded, lost)
            BY <1>1, <1>2, <2>5 DEF LedgerIn
        <3>1. (IF j < turnAt THEN j ELSE j + 1) \in 1..Len(ledger)
            BY <1>1, <2>5
        <3> QED  BY <2>5, <3>1 DEF PlayerInv, LedgerIn
    <2>7. LookedAt(turnAt)'
        <3> SUFFICES ASSUME NEW j \in 1..Len(ledger'), j < turnAt, ledger'[j].endAbs # Unsealed
                     PROVE  RenderAbs < ledger'[j].endAbs - Eps
            BY <1>2, <2>1 DEF LookedAt
        <3>1. j \in 1..Len(ledger) /\ ledger'[j] = ledger[j]
            BY <1>1, <2>5
        <3> QED  BY <1>1, <3>1 DEF PlayerInv, HandlerIn, LookedAt
    <2> QED  BY <1>1, <1>2, <1>3, <2>1, <2>4, <2>6, <2>7 DEF PlayerInv, HandlerIn
<1>6. CASE ~Reached(turnAt)
    <2>1. turnAt' = turnAt + 1 /\ UNCHANGED <<ledger, finalized, told>>
        BY <1>6, Zenon DEF CheckSeg
    <2>2. Record' /\ ToldIn' /\ LedgerIn'
        BY <1>1, <1>2, <2>1, SameRecord DEF PlayerInv, ToldIn, LedgerIn
    <2>3. LookedAt(turnAt)'
        <3> SUFFICES ASSUME NEW j \in 1..Len(ledger), j < turnAt + 1, ledger[j].endAbs # Unsealed
                     PROVE  RenderAbs < ledger[j].endAbs - Eps
            BY <1>2, <2>1 DEF LookedAt
        <3>1. CASE j < turnAt
            BY <1>1, <3>1 DEF PlayerInv, HandlerIn, LookedAt
        <3>2. CASE j = turnAt
            <4>1. ~(RenderAbs >= ledger[j].endAbs - 1)
                BY <1>6, <3>2, ReachedIsRead DEF PlayerInv
            <4>2. ledger[j].endAbs \in Nat
                BY <1>4, <3>2 DEF SegIs, Segs
            <4> QED  BY <1>2, <4>1, <4>2 DEF Eps
        <3> QED  BY <1>1, <3>1, <3>2
    <2>4. turnAt' \in Nat \ {0}
        BY <1>1, <2>1
    <2> QED  BY <1>1, <1>2, <1>3, <2>1, <2>2, <2>3, <2>4 DEF PlayerInv, HandlerIn
<1> QED  BY <1>5, <1>6

LEMMA CheckReturnsStep == ASSUME Upsampling, PlayerInv, CheckReturns PROVE PlayerInv'
<1>1. /\ handler = "check" /\ turnAt > Len(ledger) /\ handler' = "idle" /\ turnAt' = 1
      /\ UNCHANGED <<chunks, readIdx, phase, queued, writeAbs, generation, ledger, tombstone,
                     finalized, told, sounded, lost>>
    BY DEF CheckReturns, sampleQueue
<1>2. QueueIn' /\ RenderAbs' = RenderAbs
    BY <1>1 DEF PlayerInv, QueueIn, QueueIs, Gapless, RenderAbs
<1>3. HistoryIs(RenderAbs, sounded, lost)' /\ Record' /\ ToldIn' /\ LedgerIn'
    BY <1>1, <1>2, SameRecord DEF PlayerInv, HistoryIs, ToldIn, LedgerIn
<1>4. NoneIsForgotten'
    <2>1. \A i \in 1..Len(ledger) : i < turnAt
        BY <1>1 DEF PlayerInv, LedgerIn, HandlerIn
    <2> QED  BY <1>1, <1>2, <2>1 DEF PlayerInv, HandlerIn, LookedAt, NoneIsForgotten
<1> QED  BY <1>1, <1>2, <1>3, <1>4 DEF PlayerInv, HandlerIn

LEMMA FlushAllStep == ASSUME Upsampling, PlayerInv, FlushAll PROVE PlayerInv'
<1>1. /\ handler = "idle" /\ handler' = "flush"
      /\ UNCHANGED <<chunks, readIdx, phase, queued, writeAbs, generation, ledger, tombstone,
                     finalized, turnAt, told, sounded, lost>>
    BY DEF FlushAll, sampleQueue
<1>2. QueueIn' /\ RenderAbs' = RenderAbs
    BY <1>1 DEF PlayerInv, QueueIn, QueueIs, Gapless, RenderAbs
<1>3. HistoryIs(RenderAbs, sounded, lost)' /\ Record' /\ ToldIn' /\ LedgerIn'
    BY <1>1, <1>2, SameRecord DEF PlayerInv, HistoryIs, ToldIn, LedgerIn
<1> QED  BY <1>1, <1>2, <1>3 DEF PlayerInv, HandlerIn, NoneIsForgotten

LEMMA FlushSegStep == ASSUME Upsampling, PlayerInv, FlushSeg PROVE PlayerInv'
<1>1. /\ handler = "flush" /\ ledger # <<>> /\ Emits(CutOff(ledger[1])) /\ ledger' = Tail(ledger)
      /\ UNCHANGED <<chunks, readIdx, phase, queued, writeAbs, generation, tombstone, handler,
                     turnAt, sounded, lost>>
    BY DEF FlushSeg, sampleQueue
<1>2. QueueIn' /\ RenderAbs' = RenderAbs /\ RenderAbs \in Nat /\ RenderAbs <= writeAbs
    BY <1>1, Reading DEF PlayerInv, QueueIn, QueueIs, Gapless, RenderAbs
<1>3. ledger \in Seq(Segs) /\ 1 \in 1..Len(ledger)
    BY <1>1 DEF PlayerInv, LedgerIn
<1>4. CutOff(ledger[1]) \in Terminals /\ Good(CutOff(ledger[1]), sounded)
    <2>1. writeAbs \in Nat /\ HistoryIs(RenderAbs, sounded, lost)
        BY DEF PlayerInv, QueueIn
    <2>2. SegIs(ledger[1], writeAbs, RenderAbs, sounded, lost)
        BY <1>3 DEF PlayerInv, LedgerIn
    <2> QED  BY <1>2, <2>1, <2>2, CutOffIsGood
<1>5. Record' /\ ToldIn'
    BY <1>1, <1>4, ReportIsGood
<1>6. LedgerIn'
    <2>1. /\ ledger' \in Seq(Segs) /\ Len(ledger') = Len(ledger) - 1
          /\ \A j \in 1..Len(ledger') : ledger'[j] = ledger[j + 1] /\ j + 1 \in 1..Len(ledger)
        BY <1>1, <1>3
    <2> QED  BY <1>1, <1>2, <2>1 DEF PlayerInv, LedgerIn
<1>7. HistoryIs(RenderAbs, sounded, lost)' /\ NoneIsForgotten' /\ ~tombstone
    BY <1>1, <1>2 DEF PlayerInv, HistoryIs, NoneIsForgotten, HandlerIn
<1> QED  BY <1>1, <1>2, <1>5, <1>6, <1>7 DEF PlayerInv, HandlerIn

\* Emptying the queue brings the read position to the written one.
LEMMA ClearsStep ==
    ASSUME Upsampling, PlayerInv, Clears, UNCHANGED <<writeAbs, sounded, lost>>
    PROVE  QueueIn' /\ HistoryIs(RenderAbs, sounded, lost)' /\ chunks' = <<>>
<1>1. /\ chunks' = <<>> /\ readIdx' = 0 /\ phase' = 0 /\ queued' = 0
      /\ writeAbs' = writeAbs /\ sounded' = sounded /\ lost' = lost
    BY DEF Clears
<1>2. RenderAbs' = writeAbs /\ writeAbs \in Nat /\ RenderAbs \in Nat /\ RenderAbs <= writeAbs
    BY <1>1, Reading DEF RenderAbs, PlayerInv, QueueIn
<1>3. 0 \in 0..(OutRate - 1) /\ <<>> \in Seq(Chunks)
    BY DEF Upsampling
<1>4. QueueIn'
    BY <1>1, <1>2, <1>3 DEF QueueIn, QueueIs, Gapless
<1>5. 0..(RenderAbs - 1) \subseteq 0..(writeAbs - 1)
    BY <1>2
<1>6. HistoryIs(writeAbs, sounded, lost)
    BY <1>5 DEF PlayerInv, HistoryIs
<1> QED  BY <1>1, <1>2, <1>4, <1>6

LEMMA FlushQueueStep == ASSUME Upsampling, PlayerInv, FlushQueue PROVE PlayerInv'
<1>1. /\ handler = "idle" /\ ledger = <<>> /\ ~tombstone /\ Clears
      /\ UNCHANGED <<writeAbs, generation, ledger, tombstone, finalized, handler, turnAt, told,
                     sounded, lost>>
    BY DEF FlushQueue
<1>2. QueueIn' /\ HistoryIs(RenderAbs, sounded, lost)'
    BY <1>1, ClearsStep
<1>3. Record' /\ ToldIn' /\ LedgerIn' /\ NoneIsForgotten'
    BY <1>1, SameRecord DEF PlayerInv, ToldIn, LedgerIn, NoneIsForgotten
<1> QED  BY <1>1, <1>2, <1>3 DEF PlayerInv, HandlerIn

LEMMA FlushReturnsStep == ASSUME Upsampling, PlayerInv, FlushReturns PROVE PlayerInv'
<1>1. /\ handler = "flush" /\ ledger = <<>> /\ Clears
      /\ generation' = generation + 1 /\ tombstone' = TRUE /\ handler' = "idle"
      /\ UNCHANGED <<writeAbs, ledger, finalized, turnAt, told, sounded, lost>>
    BY DEF FlushReturns
<1>2. QueueIn' /\ HistoryIs(RenderAbs, sounded, lost)' /\ chunks' = <<>>
    BY <1>1, ClearsStep
<1>3. Record' /\ ToldIn' /\ LedgerIn' /\ NoneIsForgotten'
    BY <1>1, SameRecord DEF PlayerInv, ToldIn, LedgerIn, NoneIsForgotten
<1>4. generation' \in Nat
    BY <1>1 DEF PlayerInv, HandlerIn
<1> QED  BY <1>1, <1>2, <1>3, <1>4 DEF PlayerInv, HandlerIn

\* A step that reports nothing and moves only forward.
LEMMA HeardGrows ==
    ASSUME PlayerInv, UNCHANGED <<finalized, told>>, sounded \subseteq sounded',
           NEW r \in Nat, NEW gone, HistoryIs(r, sounded', gone)
    PROVE  Record' /\ ToldIn'
<1>1. Record' /\ told' = told
    BY SameRecord DEF PlayerInv
<1>2. ASSUME NEW i \in 1..Len(told) PROVE Good(told[i], sounded')
    <2>1. told[i] \in Terminals /\ Good(told[i], sounded)
        BY DEF PlayerInv, Record, ToldIn
    <2> QED  BY <2>1, MoreHeard
<1> QED  BY <1>1, <1>2 DEF ToldIn

LEMMA BeginTurnStep ==
    ASSUME Upsampling, PlayerInv, NEW t \in Turns, BeginTurn(t) PROVE PlayerInv'
<1> DEFINE s == [generation |-> generation, seq |-> t, startAbs |-> writeAbs,
                 endAbs |-> Unsealed, tainted |-> FALSE, taintedSamples |-> 0,
                 rendered |-> FALSE]
           l == Append(ledger, s)
<1>1. /\ handler = "idle" /\ tombstone' = FALSE
      /\ ledger' = IF InLedgerNow(t) THEN ledger
                   ELSE IF Len(l) > LedgerMax THEN Tail(l) ELSE l
      /\ UNCHANGED <<chunks, readIdx, phase, queued, writeAbs, generation, finalized, handler,
                     turnAt, told, sounded, lost>>
    BY DEF BeginTurn, sampleQueue
<1>2. QueueIn' /\ RenderAbs' = RenderAbs /\ RenderAbs \in Nat /\ RenderAbs <= writeAbs
    BY <1>1, Reading DEF PlayerInv, QueueIn, QueueIs, Gapless, RenderAbs
<1>3. HistoryIs(RenderAbs, sounded, lost)' /\ Record' /\ ToldIn'
    BY <1>1, <1>2, SameRecord DEF PlayerInv, HistoryIs, ToldIn
<1>4. generation \in Nat /\ writeAbs \in Nat /\ ledger \in Seq(Segs)
    BY DEF PlayerInv, HandlerIn, QueueIn, LedgerIn
<1>5. s \in Segs /\ s.startAbs = writeAbs /\ s.endAbs = Unsealed /\ s.taintedSamples = 0
    BY <1>4 DEF Segs, Unsealed
<1> HIDE DEF s
<1>6. SegIs(s, writeAbs, RenderAbs, sounded, lost)
    <2>1. LostOf(s, lost) = {}
        <3>1. ASSUME NEW p \in lost PROVE ~(writeAbs <= p)
            <4>1. p \in 0..(RenderAbs - 1)
                BY DEF PlayerInv, HistoryIs
            <4> QED  BY <1>2, <1>4, <4>1
        <3> QED  BY <1>5, <3>1 DEF LostOf
    <2>2. writeAbs..(RenderAbs - 1) = {}
        BY <1>2, <1>4
    <2> QED  BY <1>4, <1>5, <2>1, <2>2, FS_EmptySet DEF SegIs
<1>7. /\ l \in Seq(Segs) /\ Len(l) = Len(ledger) + 1 /\ l[Len(ledger) + 1] = s
      /\ \A i \in 1..Len(ledger) : l[i] = ledger[i]
    BY <1>4, <1>5
<1> HIDE DEF l
<1>8. \A i \in 1..Len(l) : /\ SegIs(l[i], writeAbs, RenderAbs, sounded, lost)
                           /\ l[i].endAbs # Unsealed => RenderAbs < l[i].endAbs - Eps
    <2> TAKE i \in 1..Len(l)
    <2>1. i \in 1..Len(ledger) \/ i = Len(ledger) + 1
        BY <1>4, <1>7
    <2> QED  BY <1>1, <1>5, <1>6, <1>7, <2>1 DEF PlayerInv, LedgerIn, NoneIsForgotten
<1>9. CASE ledger' = ledger
    BY <1>1, <1>2, <1>3, <1>9 DEF PlayerInv, LedgerIn, HandlerIn, NoneIsForgotten
<1>10. CASE ledger' = l
    BY <1>1, <1>2, <1>3, <1>7, <1>8, <1>10 DEF PlayerInv, LedgerIn, HandlerIn, NoneIsForgotten
<1>11. CASE ledger' = Tail(l)
    <2>1. /\ ledger' \in Seq(Segs) /\ Len(ledger') = Len(l) - 1
          /\ \A i \in 1..Len(ledger') : ledger'[i] = l[i + 1] /\ i + 1 \in 1..Len(l)
        BY <1>4, <1>7, <1>11
    <2>2. LedgerIn' /\ NoneIsForgotten'
        BY <1>1, <1>2, <1>8, <2>1 DEF LedgerIn, NoneIsForgotten
    <2> QED  BY <1>1, <1>2, <1>3, <2>2 DEF PlayerInv, HandlerIn
<1> QED  BY <1>1, <1>9, <1>10, <1>11

LEMMA EndTurnStep ==
    ASSUME Upsampling, PlayerInv, NEW t \in Turns, EndTurn(t) PROVE PlayerInv'
<1>1. /\ handler = "idle" /\ handler' = "check"
      /\ UNCHANGED <<chunks, readIdx, phase, queued, writeAbs, generation, tombstone, finalized,
                     turnAt, told, sounded, lost>>
    BY DEF EndTurn, sampleQueue
<1>2. PICK k \in 1..Len(ledger) :
        ledger[k].seq = t /\ ledger' = [ledger EXCEPT ![k].endAbs = writeAbs]
    BY DEF EndTurn
<1>3. QueueIn' /\ RenderAbs' = RenderAbs /\ RenderAbs \in Nat /\ RenderAbs <= writeAbs
    BY <1>1, Reading DEF PlayerInv, QueueIn, QueueIs, Gapless, RenderAbs
<1>4. HistoryIs(RenderAbs, sounded, lost)' /\ Record' /\ ToldIn'
    BY <1>1, <1>3, SameRecord DEF PlayerInv, HistoryIs, ToldIn
<1>5. writeAbs \in Nat /\ ledger \in Seq(Segs) /\ ledger[k] \in Segs
    BY DEF PlayerInv, QueueIn, LedgerIn
<1> DEFINE s == [ledger[k] EXCEPT !.endAbs = writeAbs]
<1>6. /\ s \in Segs /\ s.startAbs = ledger[k].startAbs /\ s.endAbs = writeAbs
      /\ s.taintedSamples = ledger[k].taintedSamples /\ s.tainted = ledger[k].tainted
    BY <1>5, Zenon DEF Segs
<1>7. /\ ledger' \in Seq(Segs) /\ Len(ledger') = Len(ledger)
      /\ \A i \in 1..Len(ledger) : ledger'[i] = IF i = k THEN s ELSE ledger[i]
    BY <1>2, <1>5, <1>6
<1> HIDE DEF s
<1>8. SegIs(s, writeAbs, RenderAbs, sounded, lost)
    <2>1. SegIs(ledger[k], writeAbs, RenderAbs, sounded, lost)
        BY DEF PlayerInv, LedgerIn
    <2>2. ledger[k].endAbs # Unsealed => RenderAbs < ledger[k].endAbs - 1 /\ ledger[k].endAbs \in Nat
        BY <1>1, <1>5 DEF PlayerInv, NoneIsForgotten, Segs, Eps
    <2>3. LostOf(s, lost) = LostOf(ledger[k], lost)
        <3>1. ASSUME NEW p \in lost
              PROVE  (p < writeAbs) /\ (ledger[k].endAbs # Unsealed => p < ledger[k].endAbs)
            <4>1. p \in 0..(RenderAbs - 1)
                BY DEF PlayerInv, HistoryIs
            <4> QED  BY <1>3, <1>5, <2>2, <4>1
        <3>2. writeAbs # Unsealed
            BY <1>5 DEF Unsealed
        <3> QED  BY <1>6, <3>1, <3>2 DEF LostOf
    <2>4. ledger[k].startAbs <= writeAbs
        BY <2>1 DEF SegIs
    <2> QED  BY <1>5, <1>6, <2>1, <2>3, <2>4 DEF SegIs
<1>9. LedgerIn'
    BY <1>1, <1>3, <1>7, <1>8 DEF PlayerInv, LedgerIn
<1>10. LookedAt(turnAt)' /\ NoneIsForgotten' /\ ~tombstone
    BY <1>1, <1>7 DEF PlayerInv, HandlerIn, LookedAt, NoneIsForgotten
<1> QED  BY <1>1, <1>3, <1>4, <1>9, <1>10 DEF PlayerInv, HandlerIn

LEMMA PullStep ==
    ASSUME Upsampling, PlayerInv, NEW n \in 1..Quantum, Pull(n)
    PROVE  PlayerInv' /\ RenderAbs' >= RenderAbs
<1>1. PICK w \in 0..n :
        /\ handler = "idle"
        /\ \A k \in 0..(w - 1) : Sounds(k)
        /\ w > 0
        /\ MovesTo(chunks, Cursor(chunks) + Passed(w))
        /\ phase' = (phase + w * InRate) % OutRate
        /\ queued' = Greater(0, queued - Passed(w))
        /\ ledger' = [i \in DOMAIN ledger |-> [ledger[i] EXCEPT !.rendered = TRUE]]
        /\ sounded' = sounded \cup RenderAbs..(RenderAbs + Passed(w) - 1)
        /\ handler' = "check"
        /\ UNCHANGED <<writeAbs, generation, tombstone, finalized, turnAt, told, lost>>
    BY DEF Pull
<1> DEFINE u == Passed(w - 1)
           v == Passed(w)
           c == Cursor(chunks)
<1>2. /\ w \in Nat /\ w - 1 \in 0..(w - 1) /\ InRate \in Nat \ {0} /\ OutRate \in Nat \ {0}
      /\ InRate <= OutRate /\ phase \in Nat
    BY <1>1 DEF Upsampling, PlayerInv, QueueIn
<1>3. u \in Nat /\ v \in Nat /\ v <= u + 1 /\ phase' \in 0..(OutRate - 1)
    <2> DEFINE a == phase + (w - 1) * InRate
    <2>1. (w - 1) * InRate \in Nat /\ w * InRate \in Nat /\ w * InRate = (w - 1) * InRate + InRate
        BY <1>1, <1>2, SMT
    <2>2. a \in Nat /\ phase + w * InRate = a + InRate /\ a + InRate \in Nat
        BY <1>2, <2>1
    <2> HIDE DEF a
    <2>3. /\ a \div OutRate \in Nat
          /\ (a + InRate) \div OutRate \in (a \div OutRate)..((a \div OutRate) + 1)
          /\ (a + InRate) % OutRate \in 0..(OutRate - 1)
        BY <1>2, <2>2, OneFurther
    <2>4. u = a \div OutRate /\ v = (a + InRate) \div OutRate
        BY <2>2 DEF Passed, a
    <2>5. phase' = (a + InRate) % OutRate
        BY <1>1, <2>2
    <2> QED  BY <2>3, <2>4, <2>5
<1> HIDE DEF u, v
<1>4. Sounds(w - 1)
    BY <1>1, <1>2
<1>5. chunks # <<>> /\ c + u + 1 < chunks[Len(chunks)].to
    BY <1>4, Zenon DEF Sounds, u
<1>6. /\ Gapless(chunks) /\ chunks \in Seq(Chunks) /\ chunks[Len(chunks)].to = writeAbs
      /\ c = chunks[1].from + readIdx /\ readIdx \in Nat
      /\ queued = writeAbs - c /\ queued \in Nat /\ writeAbs \in Nat /\ queued <= writeAbs
    BY <1>5 DEF PlayerInv, QueueIn, QueueIs, Gapless, Cursor
<1>7. chunks[1].from \in Nat
    <2>1. chunks[1] \in Chunks
        BY <1>5, <1>6
    <2> QED  BY <2>1 DEF Chunks
<1> HIDE DEF c
<1>8. c \in Nat /\ c + v < writeAbs /\ chunks[1].from <= c + v /\ queued - v \in Nat
      /\ queued - v = writeAbs - (c + v) /\ c + v \in Nat
    <2>1. c \in Nat /\ chunks[1].from <= c
        BY SMTT(30), <1>6, <1>7
    <2>2. c + u + 1 < writeAbs
        BY <1>5, <1>6, Zenon
    <2>3. queued = writeAbs - c /\ writeAbs \in Nat
        BY <1>6, Zenon
    <2> QED  BY <1>3, <1>7, <2>1, <2>2, <2>3
<1>9. QueueIs(chunks', readIdx', writeAbs - (c + v), writeAbs)
    <2>1. MovesTo(chunks, c + v)
        BY <1>1 DEF c, v
    <2>2. c + v <= chunks[Len(chunks)].to
        BY SMTT(30), <1>6, <1>8
    <2> HIDE DEF MovesTo
    <2>3. QueueIs(chunks', readIdx', chunks[Len(chunks)].to - (c + v), chunks[Len(chunks)].to)
        BY <1>5, <1>6, <1>8, <2>1, <2>2, MovesFacts
    <2> QED  BY <1>6, <2>3
<1>10. queued' = queued - v
    BY <1>1, <1>8 DEF Greater, v
<1>11. QueueIn'
    <2>1. writeAbs' = writeAbs /\ queued' = writeAbs - (c + v)
        BY <1>1, <1>8, <1>10
    <2>2. QueueIs(chunks', readIdx', queued', writeAbs')
        BY <1>9, <2>1
    <2>3. queued' \in Nat /\ queued' <= writeAbs' /\ writeAbs' \in Nat
        BY SMTT(30), <1>6, <1>8, <2>1
    <2> QED  BY <1>3, <2>2, <2>3 DEF QueueIn
<1> DEFINE r == RenderAbs
<1>12. r \in Nat /\ r <= writeAbs /\ RenderAbs' = r + v
    BY SMTT(30), <1>1, <1>6, <1>8, <1>10 DEF RenderAbs
<1> HIDE DEF r
<1>13. sounded' = sounded \cup r..(r + v - 1) /\ lost' = lost /\ writeAbs' = writeAbs
    BY <1>1 DEF r, v
<1>14. HistoryIs(r, sounded, lost)
    BY DEF PlayerInv, r
<1>15. HistoryIs(r + v, sounded', lost) /\ sounded \subseteq sounded'
    <2>1. 0..(r - 1) \subseteq 0..((r + v) - 1) /\ r..((r + v) - 1) \subseteq 0..((r + v) - 1)
          /\ 0..(r - 1) \cap r..((r + v) - 1) = {}
        BY <1>3, <1>12
    <2> DEFINE A == 0..(r - 1)
               B == r..((r + v) - 1)
               C == 0..((r + v) - 1)
    <2>2. sounded' = sounded \cup B
        <3>1. (r + v) - 1 = r + v - 1
            BY <1>3, <1>12
        <3> QED  BY <1>13, <3>1
    <2>3. sounded \subseteq A /\ lost \subseteq A /\ sounded \cap lost = {}
        BY <1>14 DEF HistoryIs
    <2>4. A \subseteq C /\ B \subseteq C /\ A \cap B = {}
        BY <2>1
    <2> HIDE DEF A, B
    <2>5. sounded' \subseteq C /\ lost \subseteq C /\ sounded' \cap lost = {}
        BY <2>2, <2>3, <2>4
    <2>6. sounded \subseteq sounded'
        BY <2>2
    <2> QED  BY <2>5, <2>6, Zenon DEF HistoryIs
<1>16. Record' /\ ToldIn'
    <2>1. r + v \in Nat /\ UNCHANGED <<finalized, told>>
        BY <1>1, <1>3, <1>12
    <2> QED  BY <1>15, <2>1, HeardGrows
<1>17. LedgerIn'
    <2>1. ledger \in Seq(Segs)
        BY DEF PlayerInv, LedgerIn
    <2>2. ASSUME NEW i \in 1..Len(ledger)
          PROVE  SegIs([ledger[i] EXCEPT !.rendered = TRUE], writeAbs, r + v, sounded', lost)
        <3> DEFINE s == ledger[i]
                   z == [s EXCEPT !.rendered = TRUE]
        <3>1. SegIs(s, writeAbs, r, sounded, lost) /\ s \in Segs
            BY <2>1 DEF PlayerInv, LedgerIn, r
        <3> HIDE DEF s
        <3>2. /\ z \in Segs /\ z.startAbs = s.startAbs /\ z.endAbs = s.endAbs
              /\ z.tainted = s.tainted /\ z.taintedSamples = s.taintedSamples
            BY <3>1, Zenon DEF Segs
        <3> HIDE DEF z
        <3>3. LostOf(z, lost) = LostOf(s, lost)
            BY <3>2 DEF LostOf
        <3>4. s.startAbs..((r + v) - 1) \subseteq sounded' \cup lost
            <4> SUFFICES ASSUME NEW p \in s.startAbs..((r + v) - 1) PROVE p \in sounded' \cup lost
                OBVIOUS
            <4>0. s.startAbs \in Nat
                BY <3>1 DEF Segs
            <4>1. CASE p < r
                <5>1. p \in s.startAbs..(r - 1)
                    BY <1>12, <4>0, <4>1
                <5> QED  BY <1>15, <3>1, <5>1 DEF SegIs
            <4>2. CASE ~(p < r)
                <5>1. p \in r..((r + v) - 1)
                    BY <1>12, <4>0, <4>2
                <5>2. (r + v) - 1 = r + v - 1
                    BY <1>3, <1>12
                <5> QED  BY <1>13, <5>1, <5>2
            <4> QED  BY <4>1, <4>2
        <3>5. SegIs(z, writeAbs, r + v, sounded', lost)
            <4>1. /\ s.startAbs <= writeAbs
                  /\ s.endAbs # Unsealed => s.startAbs <= s.endAbs /\ s.endAbs <= writeAbs
                  /\ s.taintedSamples = Cardinality(LostOf(s, lost))
                  /\ ~s.tainted => s.taintedSamples = 0
                BY <3>1 DEF SegIs
            <4>2. /\ z.startAbs <= writeAbs
                  /\ z.endAbs # Unsealed => z.startAbs <= z.endAbs /\ z.endAbs <= writeAbs
                  /\ ~z.tainted => z.taintedSamples = 0
                BY <3>2, <4>1
            <4>3. z.taintedSamples = Cardinality(LostOf(z, lost))
                BY <3>2, <3>3, <4>1
            <4>4. z.startAbs..((r + v) - 1) \subseteq sounded' \cup lost
                BY <3>2, <3>4
            <4> QED  BY <3>2, <4>2, <4>3, <4>4, Zenon DEF SegIs
        <3> QED  BY <3>5 DEF z, s
    <2>3. /\ Len(ledger') = Len(ledger) /\ ledger' \in Seq(Segs)
          /\ \A i \in 1..Len(ledger) : ledger'[i] = [ledger[i] EXCEPT !.rendered = TRUE]
        <3>1. ledger' = [i \in 1..Len(ledger) |-> [ledger[i] EXCEPT !.rendered = TRUE]]
            BY <1>1, <2>1
        <3>2. \A i \in 1..Len(ledger) : [ledger[i] EXCEPT !.rendered = TRUE] \in Segs
            BY <2>2 DEF SegIs
        <3> QED  BY <2>1, <3>1, <3>2
    <2> QED  BY <1>12, <1>13, <2>2, <2>3 DEF LedgerIn
<1>18. HandlerIn' /\ NoneIsForgotten'
    <2>1. turnAt = 1 /\ ~tombstone
        BY <1>1, <1>5 DEF PlayerInv, HandlerIn
    <2>2. ledger' \in Seq(Segs)
        BY <1>17 DEF LedgerIn
    <2>3. LookedAt(turnAt)'
        BY <1>1, <2>1, <2>2 DEF LookedAt
    <2> QED  BY <1>1, <2>1, <2>3 DEF PlayerInv, HandlerIn, NoneIsForgotten
<1>19. HistoryIs(RenderAbs, sounded, lost)'
    BY <1>12, <1>13, <1>15
<1> QED  BY <1>3, <1>11, <1>12, <1>16, <1>17, <1>18, <1>19 DEF PlayerInv, r

\* An overflow of lo..hi-1 is counted in every turn it reaches.
LEMMA TaintIsCounted ==
    ASSUME NEW w \in Nat, NEW v \in Nat, NEW lo \in Nat, NEW hi \in Nat, lo <= hi, hi <= v, w <= v,
           lo <= w, NEW heard, NEW gone, HistoryIs(lo, heard, gone), NEW s, SegIs(s, w, lo, heard, gone),
           NEW z,
           LET top == Lesser(hi, IF s.endAbs = Unsealed THEN v ELSE s.endAbs)
               bottom == Greater(lo, s.startAbs)
           IN  z = IF bottom < top
                   THEN [s EXCEPT !.tainted = TRUE, !.taintedSamples = @ + (top - bottom)]
                   ELSE s
    PROVE  SegIs(z, v, hi, heard, gone \cup lo..(hi - 1))
<1> DEFINE top == Lesser(hi, IF s.endAbs = Unsealed THEN v ELSE s.endAbs)
           bottom == Greater(lo, s.startAbs)
           new == gone \cup lo..(hi - 1)
<1>1. /\ s \in Segs /\ s.startAbs \in Nat /\ s.startAbs <= w
      /\ s.endAbs # Unsealed => s.endAbs \in Nat /\ s.startAbs <= s.endAbs /\ s.endAbs <= w
      /\ s.startAbs..(lo - 1) \subseteq heard \cup gone
      /\ s.taintedSamples = Cardinality(LostOf(s, gone)) /\ s.taintedSamples \in Nat
      /\ ~s.tainted => s.taintedSamples = 0
    BY DEF SegIs, Segs
<1>2. top \in Nat /\ bottom \in Nat
    BY <1>1 DEF Lesser, Greater
<1>3. LostOf(s, new) = LostOf(s, gone) \cup bottom..(top - 1)
    <2>1. ASSUME NEW p PROVE p \in LostOf(s, lo..(hi - 1)) <=> p \in bottom..(top - 1)
        BY <1>1 DEF LostOf, Lesser, Greater
    <2>2. LostOf(s, new) = LostOf(s, gone) \cup LostOf(s, lo..(hi - 1))
        BY DEF LostOf
    <2>3. LostOf(s, lo..(hi - 1)) = bottom..(top - 1)
        BY <2>1, Zenon
    <2> QED  BY <2>2, <2>3, Zenon
<1>4. LostOf(s, gone) \cap bottom..(top - 1) = {} /\ IsFiniteSet(LostOf(s, gone))
    <2>1. LostOf(s, gone) \subseteq 0..(lo - 1)
        BY DEF HistoryIs, LostOf
    <2>2. bottom >= lo
        BY <1>1 DEF Greater
    <2>3. IsFiniteSet(0..(lo - 1))
        <3>1. 0 \in Int /\ lo - 1 \in Int
            OBVIOUS
        <3> QED  BY <3>1, FS_Interval
    <2>4. 0..(lo - 1) \cap bottom..(top - 1) = {}
        BY <1>2, <2>2
    <2> HIDE DEF bottom, top
    <2>5. IsFiniteSet(LostOf(s, gone))
        BY <2>1, <2>3, FS_Subset
    <2> QED  BY <2>1, <2>4, <2>5
<1>5. s.startAbs..(hi - 1) \subseteq heard \cup new
    <2> SUFFICES ASSUME NEW p \in s.startAbs..(hi - 1) PROVE p \in heard \cup new
        OBVIOUS
    <2>1. p \in s.startAbs..(lo - 1) \/ p \in lo..(hi - 1)
        BY <1>1
    <2> QED  BY <1>1, <2>1
<1> DEFINE N == bottom..(top - 1)
<1>6. /\ IsFiniteSet(N)
      /\ bottom < top => Cardinality(N) = top - bottom
      /\ ~(bottom < top) => N = {}
    <2> HIDE DEF bottom, top
    <2>1. IsFiniteSet(N)
        BY <1>2, FS_Interval
    <2>2. ASSUME bottom < top PROVE Cardinality(N) = top - bottom
        <3> DEFINE d == top - 1
        <3>1. d \in Int /\ bottom \in Int /\ ~(bottom > d) /\ d - bottom + 1 = top - bottom
            BY <1>2, <2>2
        <3> HIDE DEF d
        <3>2. Cardinality(bottom..d) = IF bottom > d THEN 0 ELSE d - bottom + 1
            BY <3>1, FS_Interval
        <3> QED  BY <3>1, <3>2 DEF d
    <2>3. ~(bottom < top) => N = {}
        BY <1>2
    <2> QED  BY <2>1, <2>2, <2>3
<1>7. CASE bottom < top
    <2> DEFINE t == s.taintedSamples + (top - bottom)
    <2>1. t \in Nat /\ z = [s EXCEPT !.tainted = TRUE, !.taintedSamples = t]
        BY <1>1, <1>2, <1>7
    <2>2. Cardinality(LostOf(s, new)) = t
        <3> HIDE DEF new, bottom, top, N
        <3>1. LostOf(s, new) = LostOf(s, gone) \cup N /\ LostOf(s, gone) \cap N = {}
            BY <1>3, <1>4 DEF N
        <3>2. Cardinality(LostOf(s, gone) \cup N) = Cardinality(LostOf(s, gone)) + Cardinality(N)
                                                      - Cardinality(LostOf(s, gone) \cap N)
            BY <1>4, <1>6, FS_Union
        <3>3. Cardinality(LostOf(s, gone) \cap N) = 0
            BY <3>1, FS_EmptySet
        <3>4. Cardinality(LostOf(s, new)) = s.taintedSamples + Cardinality(N) - 0
            BY <1>1, <3>1, <3>2, <3>3
        <3> QED  BY <1>1, <1>2, <1>6, <1>7, <3>4
    <2> HIDE DEF t, top, bottom, new
    <2>3. /\ z \in Segs /\ z.startAbs = s.startAbs /\ z.endAbs = s.endAbs
          /\ z.tainted = TRUE /\ z.taintedSamples = t
        BY <1>1, <2>1, Zenon DEF Segs
    <2>4. LostOf(z, new) = LostOf(s, new)
        BY <2>3 DEF LostOf
    <2>5. /\ z.startAbs <= v /\ z.endAbs # Unsealed => z.startAbs <= z.endAbs /\ z.endAbs <= v
        BY <1>1, <2>3
    <2>6. SegIs(z, v, hi, heard, new)
        <3>1. z.endAbs # Unsealed => z.startAbs <= z.endAbs /\ z.endAbs <= v
            BY <1>1, <2>3
        <3>2. z.startAbs <= v
            BY <1>1, <2>3
        <3>3. z.startAbs..(hi - 1) \subseteq heard \cup new
            BY <1>5, <2>3
        <3>4. z.taintedSamples = Cardinality(LostOf(z, new))
            BY <2>2, <2>3, <2>4
        <3> QED  BY <2>3, <3>1, <3>2, <3>3, <3>4 DEF SegIs
    <2> QED  BY <2>6 DEF new
<1>8. CASE ~(bottom < top)
    <2>1. z = s
        BY <1>8
    <2>2. LostOf(s, new) = LostOf(s, gone)
        BY <1>3, <1>6, <1>8
    <2> HIDE DEF new
    <2>3. s.startAbs <= v /\ (s.endAbs # Unsealed => s.startAbs <= s.endAbs /\ s.endAbs <= v)
        BY <1>1
    <2>4. SegIs(s, v, hi, heard, new)
        BY <1>1, <1>5, <2>2, <2>3 DEF SegIs
    <2> QED  BY <2>1, <2>4 DEF new
<1> QED  BY <1>7, <1>8

LEMMA PushStep ==
    ASSUME Upsampling, PlayerInv, NEW n \in 1..MaxFrame, Push(n)
    PROVE  PlayerInv' /\ RenderAbs' >= RenderAbs
<1> DEFINE e == [from |-> writeAbs, to |-> writeAbs + n]
           cs == Append(chunks, e)
           over == queued + n - Capacity
           lo == RenderAbs
           hi == lo + over
<1>1. /\ handler = "idle" /\ ~tombstone /\ writeAbs' = writeAbs + n
      /\ IF over <= 0
         THEN /\ chunks' = cs /\ queued' = queued + n
              /\ UNCHANGED <<readIdx, phase, ledger, handler, lost>>
         ELSE /\ ledger' = Taints(lo, hi, writeAbs + n)
              /\ MovesTo(cs, Cursor(cs) + over)
              /\ queued' = queued + n - over /\ phase' = 0
              /\ lost' = lost \cup lo..(hi - 1)
              /\ handler' = "check"
      /\ UNCHANGED <<generation, tombstone, finalized, turnAt, told, sounded>>
    BY DEF Push
<1>2. /\ n \in Nat \ {0} /\ Capacity \in Nat \ {0} /\ queued \in Nat /\ writeAbs \in Nat
      /\ queued <= writeAbs /\ readIdx \in Nat /\ chunks \in Seq(Chunks)
      /\ QueueIs(chunks, readIdx, queued, writeAbs) /\ phase \in 0..(OutRate - 1)
      /\ 0 \in 0..(OutRate - 1)
    <2>1. /\ QueueIs(chunks, readIdx, queued, writeAbs) /\ queued \in Nat /\ writeAbs \in Nat
          /\ queued <= writeAbs /\ phase \in 0..(OutRate - 1)
        BY DEF PlayerInv, QueueIn
    <2>2. chunks \in Seq(Chunks) /\ readIdx \in Nat
        BY <2>1 DEF QueueIs, Gapless
    <2>3. n \in Nat \ {0} /\ Capacity \in Nat \ {0} /\ 0 \in 0..(OutRate - 1)
        BY DEF Upsampling
    <2> QED  BY <2>1, <2>2, <2>3
<1>3. lo \in Nat /\ lo <= writeAbs /\ lo = writeAbs - queued
    BY <1>2, Reading DEF PlayerInv, RenderAbs
<1>4. e \in Chunks /\ e.from = writeAbs /\ e.to = writeAbs + n
    BY <1>2 DEF Chunks
<1> HIDE DEF e
<1>5. /\ cs \in Seq(Chunks) /\ Len(cs) = Len(chunks) + 1 /\ cs[Len(chunks) + 1] = e
      /\ Len(chunks) \in Nat /\ \A i \in 1..Len(chunks) : cs[i] = chunks[i]
    BY <1>2, <1>4
<1> HIDE DEF cs
<1>6. Gapless(cs)
    <2>1. \A i \in 1..Len(cs) : i \in 1..Len(chunks) \/ i = Len(chunks) + 1
        BY <1>5
    <2>2. \A i \in 1..Len(cs) : cs[i].from < cs[i].to
        BY SMTT(30), <1>2, <1>4, <1>5, <2>1 DEF QueueIs, Gapless
    <2>3. ASSUME NEW i \in 1..Len(cs), i < Len(cs) PROVE cs[i].to = cs[i + 1].from
        <3>1. i \in 1..Len(chunks)
            BY <1>5, <2>3
        <3>2. CASE i = Len(chunks)
            <4>1. chunks # <<>> /\ chunks[Len(chunks)].to = writeAbs
                BY <1>2, <3>1 DEF QueueIs
            <4> QED  BY <1>4, <1>5, <3>1, <3>2, <4>1
        <3>3. CASE i < Len(chunks)
            <4>1. i + 1 \in 1..Len(chunks)
                BY <1>5, <3>1, <3>3
            <4>2. chunks[i].to = chunks[i + 1].from
                BY <1>2, <3>1, <3>3 DEF QueueIs, Gapless
            <4> QED  BY <1>5, <3>1, <4>1, <4>2
        <3> QED  BY <1>5, <3>1, <3>2, <3>3
    <2> QED  BY <1>5, <2>2, <2>3 DEF Gapless
<1>7. /\ cs # <<>> /\ cs[Len(cs)].to = writeAbs + n
      /\ cs[1].from \in Nat /\ cs[1].from + readIdx = writeAbs - queued
      /\ cs[1].from + readIdx < cs[1].to
    <2>1. cs # <<>> /\ cs[Len(cs)].to = writeAbs + n
        BY <1>4, <1>5
    <2>2. CASE chunks = <<>>
        <3>1. cs[1] = e /\ readIdx = 0 /\ queued = 0
            BY <1>2, <1>5, <2>2 DEF QueueIs
        <3> QED  BY <1>2, <1>4, <2>1, <3>1
    <2>3. CASE chunks # <<>>
        <3>1. cs[1] = chunks[1] /\ chunks[1] \in Chunks
            BY <1>2, <1>5, <2>3
        <3>2. chunks[1].from \in Nat /\ chunks[1].to \in Nat
            BY <3>1 DEF Chunks
        <3>3. chunks[1].from + readIdx < chunks[1].to
              /\ queued = writeAbs - (chunks[1].from + readIdx)
            BY <1>2, <2>3 DEF QueueIs
        <3> QED  BY SMTT(30), <1>2, <2>1, <3>1, <3>2, <3>3
    <2> QED  BY <2>2, <2>3
<1>8. turnAt = 1
    BY <1>1 DEF PlayerInv, HandlerIn
<1>9. ledger \in Seq(Segs)
      /\ \A i \in 1..Len(ledger) : SegIs(ledger[i], writeAbs, lo, sounded, lost)
    BY DEF PlayerInv, LedgerIn
<1>10. HistoryIs(lo, sounded, lost)
    BY DEF PlayerInv
<1> HIDE DEF lo
<1>11. CASE over <= 0
    <2>1. /\ chunks' = cs /\ queued' = queued + n
          /\ UNCHANGED <<readIdx, phase, ledger, handler, lost>>
        BY <1>1, <1>11
    <2>2. QueueIn'
        <3>1. QueueIs(cs, readIdx, queued + n, writeAbs + n)
            BY <1>2, <1>6, <1>7 DEF QueueIs
        <3> QED  BY <1>1, <1>2, <2>1, <3>1 DEF QueueIn
    <2>3. RenderAbs' = lo
        BY <1>1, <1>2, <1>3, <2>1 DEF RenderAbs
    <2>4. LedgerIn'
        <3> SUFFICES ASSUME NEW i \in 1..Len(ledger)
                     PROVE  SegIs(ledger[i], writeAbs + n, lo, sounded, lost)
            BY <1>1, <1>9, <2>1, <2>3 DEF LedgerIn
        <3>1. SegIs(ledger[i], writeAbs, lo, sounded, lost)
            BY <1>9
        <3> DEFINE s == ledger[i]
        <3>2. /\ s.startAbs \in Nat /\ s.startAbs <= writeAbs
              /\ s.endAbs # Unsealed => s.endAbs \in Nat /\ s.endAbs <= writeAbs
            BY <3>1 DEF SegIs, Segs
        <3> HIDE DEF s
        <3>3. s.startAbs <= writeAbs + n /\ (s.endAbs # Unsealed => s.endAbs <= writeAbs + n)
            BY SMTT(30), <1>2, <3>2
        <3> QED  BY <3>1, <3>3 DEF SegIs, s
    <2>5. Record' /\ ToldIn' /\ HistoryIs(RenderAbs, sounded, lost)' /\ NoneIsForgotten' /\ HandlerIn'
        <3>1. Record'
            BY <1>1, SameRecord DEF PlayerInv
        <3>2. ToldIn' /\ HistoryIs(RenderAbs, sounded, lost)'
            BY <1>1, <1>10, <2>1, <2>3 DEF PlayerInv, ToldIn
        <3>3. NoneIsForgotten' /\ HandlerIn'
            BY <1>1, <2>1, <2>3 DEF PlayerInv, NoneIsForgotten, HandlerIn, lo
        <3> QED  BY <3>1, <3>2, <3>3
    <2> QED  BY <1>3, <2>2, <2>3, <2>4, <2>5 DEF PlayerInv, lo
<1>12. CASE ~(over <= 0)
    <2>1. /\ ledger' = Taints(lo, hi, writeAbs + n)
          /\ MovesTo(cs, Cursor(cs) + over)
          /\ queued' = queued + n - over /\ phase' = 0
          /\ lost' = lost \cup lo..(hi - 1)
          /\ handler' = "check"
        BY <1>1, <1>12
    <2>2. /\ over \in Nat \ {0} /\ over <= queued + n /\ queued + n - over = Capacity
          /\ hi \in Nat /\ lo <= hi /\ hi <= writeAbs + n /\ hi = writeAbs + n - Capacity
        BY <1>2, <1>3, <1>12
    <2>3. Cursor(cs) + over = hi /\ cs[1].from <= hi
        <3>1. Cursor(cs) = lo /\ cs[1].from <= lo
            BY SMTT(30), <1>2, <1>3, <1>7 DEF Cursor
        <3> HIDE DEF over
        <3> QED  BY SMTT(30), <1>3, <1>7, <2>2, <3>1
    <2> HIDE DEF over, hi
    <2>4. QueueIn' /\ chunks' = chunks' /\ RenderAbs' = hi
        <3>1. MovesTo(cs, hi)
            BY <2>1, <2>3
        <3>2. cs[Len(cs)].to = writeAbs + n
            BY <1>7
        <3>3. QueueIs(chunks', readIdx', cs[Len(cs)].to - hi, cs[Len(cs)].to)
            BY <1>5, <1>6, <1>7, <2>2, <2>3, <3>1, <3>2, MovesFacts
        <3>4. writeAbs' = writeAbs + n /\ queued' = Capacity
            BY <1>1, <2>1, <2>2
        <3>5. (writeAbs + n) - hi = Capacity /\ Capacity <= writeAbs + n
            BY <1>2, <2>2
        <3>6. QueueIs(chunks', readIdx', queued', writeAbs')
            BY <3>2, <3>3, <3>4, <3>5
        <3>7. queued' \in Nat /\ writeAbs' \in Nat /\ queued' <= writeAbs' /\ phase' \in 0..(OutRate - 1)
            BY <1>2, <2>1, <3>4, <3>5
        <3>8. RenderAbs' = hi
            BY <1>2, <2>2, <3>4 DEF RenderAbs
        <3> QED  BY <3>6, <3>7, <3>8 DEF QueueIn
    <2>5. HistoryIs(hi, sounded, lost')
        <3>1. 0..(lo - 1) \subseteq 0..(hi - 1) /\ lo..(hi - 1) \subseteq 0..(hi - 1)
              /\ 0..(lo - 1) \cap lo..(hi - 1) = {}
            BY <1>3, <2>2
        <3> QED  BY <1>10, <2>1, <3>1 DEF HistoryIs
    <2>6. LedgerIn'
        <3>1. /\ DOMAIN ledger = 1..Len(ledger) /\ Len(ledger) \in Nat
            BY <1>9
        <3>2. ledger' = [i \in 1..Len(ledger) |-> Taints(lo, hi, writeAbs + n)[i]]
            BY <2>1, <3>1 DEF Taints
        <3>3. ASSUME NEW i \in 1..Len(ledger)
              PROVE  SegIs(ledger'[i], writeAbs + n, hi, sounded, lost')
            <4> DEFINE s == ledger[i]
                       z == ledger'[i]
                       top == Lesser(hi, IF s.endAbs = Unsealed THEN writeAbs + n ELSE s.endAbs)
                       bottom == Greater(lo, s.startAbs)
            <4>1. z = IF bottom < top
                      THEN [s EXCEPT !.tainted = TRUE, !.taintedSamples = @ + (top - bottom)]
                      ELSE s
                BY <2>1, <3>1, Zenon DEF Taints
            <4>2. SegIs(s, writeAbs, lo, sounded, lost)
                BY <1>9
            <4>3. writeAbs + n \in Nat /\ writeAbs <= writeAbs + n
                BY <1>2
            <4> HIDE DEF s, z
            <4>4. SegIs(z, writeAbs + n, hi, sounded, lost \cup lo..(hi - 1))
                BY <1>2, <1>3, <1>10, <2>2, <4>1, <4>2, <4>3, TaintIsCounted
            <4> QED  BY <2>1, <4>4 DEF z
        <3>4. ledger' \in Seq(Segs) /\ Len(ledger') = Len(ledger)
            <4>1. \A i \in 1..Len(ledger) : ledger'[i] \in Segs
                BY <3>3 DEF SegIs
            <4>2. \A i \in 1..Len(ledger) : Taints(lo, hi, writeAbs + n)[i] \in Segs
                BY <2>1, <4>1
            <4> HIDE DEF Taints
            <4> QED  BY <3>1, <3>2, <4>2
        <3> QED  BY <1>1, <2>4, <3>3, <3>4 DEF LedgerIn
    <2>7. Record' /\ ToldIn' /\ HandlerIn' /\ NoneIsForgotten'
        <3>1. Record' /\ ToldIn'
            BY <1>1, SameRecord DEF PlayerInv, ToldIn
        <3>2. LookedAt(turnAt)'
            BY <1>1, <1>8, <2>6 DEF LookedAt, LedgerIn
        <3> QED  BY <1>1, <1>8, <2>1, <3>1, <3>2 DEF PlayerInv, HandlerIn, NoneIsForgotten
    <2>8. HistoryIs(RenderAbs, sounded, lost)'
        BY <1>1, <2>4, <2>5
    <2> QED  BY <1>3, <2>2, <2>4, <2>6, <2>7, <2>8 DEF PlayerInv, lo
<1> QED  BY <1>11, <1>12

-----------------------------------------------------------------------------
LEMMA PlayerInvInit == ASSUME Upsampling, PlayerInit PROVE PlayerInv
<1>1. /\ chunks = <<>> /\ readIdx = 0 /\ phase = 0 /\ queued = 0 /\ writeAbs = 0
      /\ generation = 0 /\ tombstone = FALSE /\ ledger = <<>> /\ finalized = <<>>
      /\ handler = "idle" /\ turnAt = 1 /\ told = <<>> /\ sounded = {} /\ lost = {}
    BY DEF PlayerInit
<1>2. QueueIn
    BY <1>1 DEF Upsampling, QueueIn, QueueIs, Gapless
<1>3. LedgerIn /\ ToldIn /\ NoneIsForgotten
    BY <1>1 DEF LedgerIn, ToldIn, NoneIsForgotten
<1>6. HandlerIn
    <2>1. turnAt \in Nat \ {0} /\ generation \in Nat /\ turnAt = 1 /\ handler # "check"
        BY <1>1
    <2>2. tombstone \in BOOLEAN /\ ~tombstone /\ handler \in {"idle", "check", "flush"}
        BY <1>1
    <2> QED  BY <2>1, <2>2, Zenon DEF HandlerIn
<1>4. Record
    BY <1>1 DEF Record, RepeatsLieApart, Upsampling
<1>5. HistoryIs(RenderAbs, sounded, lost)
    BY <1>1 DEF HistoryIs
<1> QED  BY <1>2, <1>3, <1>4, <1>5, <1>6 DEF PlayerInv

LEMMA PlayerStep ==
    ASSUME Upsampling, PlayerInv, [PlayerNext]_playerVars
    PROVE  PlayerInv' /\ RenderAbs' >= RenderAbs
<1>0. RenderAbs \in Nat
    BY Reading DEF PlayerInv
<1>1. CASE UNCHANGED playerVars
    <2>1. /\ UNCHANGED <<chunks, readIdx, phase, queued, writeAbs, generation, ledger, tombstone>>
          /\ UNCHANGED <<finalized, handler, turnAt, told, sounded, lost>>
        BY <1>1 DEF playerVars, sampleQueue
    <2>2. QueueIn' /\ RenderAbs' = RenderAbs
        BY <2>1 DEF PlayerInv, QueueIn, QueueIs, Gapless, RenderAbs
    <2>3. HistoryIs(RenderAbs, sounded, lost)' /\ Record' /\ ToldIn' /\ LedgerIn'
        BY <2>1, <2>2, SameRecord DEF PlayerInv, HistoryIs, ToldIn, LedgerIn
    <2>4. HandlerIn' /\ NoneIsForgotten'
        BY <2>1, <2>2 DEF PlayerInv, HandlerIn, NoneIsForgotten, LookedAt
    <2> QED  BY <1>0, <2>2, <2>3, <2>4 DEF PlayerInv
<1>2. ASSUME UNCHANGED <<writeAbs, queued>> PROVE RenderAbs' >= RenderAbs
    BY <1>0, <1>2 DEF RenderAbs
<1>3. CASE CheckSeg
    BY <1>2, <1>3, CheckSegStep DEF CheckSeg, sampleQueue
<1>4. CASE CheckReturns
    BY <1>2, <1>4, CheckReturnsStep DEF CheckReturns, sampleQueue
<1>5. CASE FlushSeg
    BY <1>2, <1>5, FlushSegStep DEF FlushSeg, sampleQueue
<1>6. CASE FlushAll
    BY <1>2, <1>6, FlushAllStep DEF FlushAll, sampleQueue
<1>7. ASSUME Clears, UNCHANGED writeAbs PROVE RenderAbs' >= RenderAbs
    <2>1. RenderAbs' = writeAbs /\ RenderAbs <= writeAbs /\ writeAbs \in Nat
        BY <1>7, Reading DEF Clears, RenderAbs, PlayerInv, QueueIn
    <2> QED  BY <1>0, <2>1
<1>8. CASE FlushReturns
    BY <1>7, <1>8, FlushReturnsStep DEF FlushReturns
<1>9. CASE FlushQueue
    BY <1>7, <1>9, FlushQueueStep DEF FlushQueue
<1>10. CASE \E n \in 1..MaxFrame : Push(n)
    BY <1>10, PushStep
<1>11. CASE \E n \in 1..Quantum : Pull(n)
    BY <1>11, PullStep
<1>12. ASSUME NEW t \in Turns, BeginTurn(t) PROVE PlayerInv' /\ RenderAbs' >= RenderAbs
    BY <1>2, <1>12, BeginTurnStep DEF BeginTurn, sampleQueue
<1>13. ASSUME NEW t \in Turns, EndTurn(t) PROVE PlayerInv' /\ RenderAbs' >= RenderAbs
    BY <1>2, <1>13, EndTurnStep DEF EndTurn, sampleQueue
<1> QED  BY <1>1, <1>3, <1>4, <1>5, <1>6, <1>8, <1>9, <1>10, <1>11, <1>12, <1>13 DEF PlayerNext

LEMMA PlayerPromises ==
    ASSUME Upsampling, PlayerInv
    PROVE  NoDrift /\ PlayedIsSounded /\ NothingOverstated /\ RepeatsLieApart
           /\ NoneIsForgotten /\ CutOffIsSilent
<1>1. NoDrift
    BY DEF PlayerInv, QueueIn, QueueIs, NoDrift, Cursor
<1>2. PlayedIsSounded /\ NothingOverstated
    BY DEF PlayerInv, ToldIn, Good, PlayedIsSounded, NothingOverstated
<1> QED  BY <1>1, <1>2 DEF PlayerInv, Record, HandlerIn, CutOffIsSilent

LEMMA PlayerIsSound == ASSUME Upsampling PROVE PlayerSpec => []PlayerInv
<1>1. PlayerInit => PlayerInv
    BY PlayerInvInit
<1>2. PlayerInv /\ [PlayerNext]_playerVars => PlayerInv'
    BY PlayerStep
<1> QED  BY <1>1, <1>2, PTL DEF PlayerSpec

\* On a device at least as fast as the stream the count of what waits never
\* drifts, no turn that is over is left unreported, and what is reported as
\* played sounded to its last sample but one, nothing of it discarded; no
\* report claims more than sounded.
THEOREM ReportsAreHeard ==
    ASSUME Upsampling
    PROVE  PlayerSpec => [](/\ NoDrift /\ PlayedIsSounded /\ NothingOverstated
                            /\ NoneIsForgotten /\ CutOffIsSilent)
<1>1. PlayerInv => /\ NoDrift /\ PlayedIsSounded /\ NothingOverstated
                   /\ NoneIsForgotten /\ CutOffIsSilent
    BY PlayerPromises
<1> QED  BY <1>1, PlayerIsSound, PTL

\* Two reports of a turn of one generation lie FinalizedMax reports apart.
THEOREM ReportsLieApart == ASSUME Upsampling PROVE PlayerSpec => []RepeatsLieApart
<1>1. PlayerInv => RepeatsLieApart
    BY PlayerPromises
<1> QED  BY <1>1, PlayerIsSound, PTL

\* The read position never goes back.
THEOREM ReadingGoesForward == ASSUME Upsampling PROVE PlayerSpec => NeverBackward
<1>1. PlayerInv /\ [PlayerNext]_playerVars => [RenderAbs' >= RenderAbs]_playerVars
    BY PlayerStep
<1> QED  BY <1>1, PlayerIsSound, PTL DEF PlayerSpec, NeverBackward
================================================================================
