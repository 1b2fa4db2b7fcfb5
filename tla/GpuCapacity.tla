----------------------------- MODULE GpuCapacity -----------------------------
(***************************************************************************)
(* How many GPU instances run: the configuration administrators edit under *)
(* an optimistic lock (routers/admin_capacity.py, db.py), the rounds of    *)
(* the reconciler, which moves ECS to what the configuration and the       *)
(* demand call for (capacity_reconciler.py, capacity_service.py), and the  *)
(* drain of an instance ASG wants to terminate (capacity_lifecycle.py).    *)
(*                                                                         *)
(* The reconciler runs once at a time (reserved concurrency 1) and may     *)
(* fail between any two of its calls; the lifecycle function does not, so  *)
(* the event of an instance and a poll of it overlap.                      *)
(***************************************************************************)
EXTENDS Integers

CONSTANTS Admins, Instances,
          None, Blank,    \* no row; a form nothing was loaded into
          HardMax,        \* GPU_HARD_MAX
          PerInstance,    \* GPU_SESSIONS_PER_INSTANCE
          ScaleOutStep,   \* GPU_MAX_SCALE_OUT_STEP
          Cooldown,       \* scale_in_cooldown_min
          Utils,          \* values of target_util offered, in percent
          MaxVersion, MaxDemand, MaxClock   \* bounds

VARIABLES
    config,   \* the row gpu_capacity_config, None before it is seeded
    past,     \* what the row was and is: what a lagging read may return
    form,     \* per admin, what the last GET or PUT answered; Blank before
    put,      \* per admin, the PUT under way
    desired,  \* desiredCount of the ECS service
    since,    \* scale_in_candidate_since of the row gpu_capacity_live
    round,    \* the reconciler's round
    now,      \* minutes
    busiest,  \* history: when a round last reported anything but a scale-in
              \* that auto mode asks for
    hook,     \* per instance, where its lifecycle stands with ASG
    tasks,    \* per instance, whether a GPU task runs on it
    row,      \* per instance, whether its token is stored
    visit     \* per instance, the invocations of the lifecycle function

configVars == <<config, past, form, put>>
roundVars == <<desired, since, round, busiest>>
drainVars == <<hook, tasks, row, visit>>
capacityVars == <<configVars, roundVars, now, drainVars>>

-----------------------------------------------------------------------------
(* The configuration: what validate_config lets through. A configuration   *)
(* has the fields of both modes; the code stores those of its own mode and *)
(* reads no others.                                                        *)

Valid(body) ==
    \/ body.mode = "fixed" /\ body.fixed_count \in 0..HardMax
    \/ /\ body.mode = "auto"
       /\ body.auto_min \in 0..body.auto_max /\ body.auto_max \in 0..HardMax
       /\ body.target_util \in Utils

Counts == 0..HardMax + 1
Bodies == [mode : {"fixed", "auto"}, fixed_count : Counts,
           auto_min : Counts, auto_max : Counts, target_util : Utils]

Versioned(body, current) ==
    [config_version |-> IF current = None THEN 1
                        ELSE current.config_version + 1,
     body |-> body]

Stored == {b \in Bodies : Valid(b)}
Configs == [config_version : Nat \ {0}, body : Stored]

\* What the deployment promises about the parameters.
CapacityAssumption ==
    /\ HardMax \in Nat \ {0} /\ PerInstance \in Nat \ {0}
    /\ ScaleOutStep \in Nat /\ Cooldown \in Nat
    /\ Utils \subseteq 1..100 /\ Utils # {}
    /\ MaxDemand \in Nat
    /\ None \notin Nat \cup Configs /\ Blank \notin Configs \cup {None}

Version(read) == IF read = None THEN None ELSE read.config_version

\* get_gpu_capacity_config is an eventually consistent read.
Reads == past

\* The conditional write: the row must not exist, or have the version.
Store(item) == config' = item /\ past' = past \cup {item}
Accepts(expected) == Version(config) = expected

NoPut == [pc |-> "none"]

Get(a) ==
    /\ put[a] = NoPut
    /\ \E read \in Reads : form' = [form EXCEPT ![a] = read]
    /\ UNCHANGED <<config, past, put, roundVars, now, drainVars>>

\* put_capacity up to the write: it reads the row again, and refuses a
\* client that saw none where there is one. When it reads none, the version
\* the client sent is not used.
PutReads(a) ==
    /\ put[a] = NoPut /\ form[a] # Blank
    /\ \E body \in Bodies, current \in Reads :
        /\ Valid(body)
        /\ current # None =>
            form[a] # None /\ current.config_version < MaxVersion
        /\ put' = [put EXCEPT ![a] =
                [pc |-> "writes", item |-> Versioned(body, current),
                 expected |-> IF current = None THEN None
                              ELSE Version(form[a])]]
    /\ UNCHANGED <<config, past, form, roundVars, now, drainVars>>

\* put_gpu_capacity_config, and the answer: the row written, or 409.
PutWrites(a) ==
    /\ put[a] # NoPut /\ Accepts(put[a].expected)
    /\ Store(put[a].item)
    /\ form' = [form EXCEPT ![a] = put[a].item]
    /\ put' = [put EXCEPT ![a] = NoPut]
    /\ UNCHANGED <<roundVars, now, drainVars>>

PutConflicts(a) ==
    /\ put[a] # NoPut /\ ~Accepts(put[a].expected)
    /\ put' = [put EXCEPT ![a] = NoPut]
    /\ UNCHANGED <<config, past, form, roundVars, now, drainVars>>

-----------------------------------------------------------------------------
(* A round of the reconciler *)

Larger(m, n) == IF m > n THEN m ELSE n
Smaller(m, n) == IF m < n THEN m ELSE n

\* ceil(sessions / max(g * util, 1)), with util in percent.
Needed(sessions, util) ==
    LET served == Larger(PerInstance * util, 100)
    IN (100 * sessions + served - 1) \div served

\* compute_desired: only the part of the growth that running sessions ask
\* for is limited to a step; booked and waiting ones get what they need.
ComputeDesired(cfg, current, active, coming) ==
    IF cfg.mode = "fixed" THEN cfg.fixed_count
    ELSE LET full == Needed(active + coming, cfg.target_util)
             sure == Needed(coming, cfg.target_util)
             target == IF full > current
                       THEN Larger(sure, Smaller(full, current + ScaleOutStep))
                       ELSE full
         IN Larger(cfg.auto_min, Smaller(target, cfg.auto_max))

Seed == [mode |-> "fixed", fixed_count |-> 1, auto_min |-> 0,
         auto_max |-> 0, target_util |-> CHOOSE u \in Utils : TRUE]

NoRound == [pc |-> "none"]

RoundStarts ==
    /\ round = NoRound
    /\ \E read \in Reads :
        round' = IF read = None THEN [pc |-> "seeds", at |-> now]
                 ELSE [pc |-> "decides", at |-> now, cfg |-> read.body]
    /\ UNCHANGED <<configVars, desired, since, busiest, now, drainVars>>

\* The row is missing: write the default, unless another writer was first.
RoundSeeds ==
    /\ round.pc = "seeds"
    /\ IF config = None
       THEN /\ Store(Versioned(Seed, None))
            /\ round' = [pc |-> "decides", at |-> round.at, cfg |-> Seed]
       ELSE /\ UNCHANGED <<config, past>>
            /\ \E read \in Reads : round' =
                [pc |-> "decides", at |-> round.at,
                 cfg |-> IF read = None THEN Seed ELSE read.body]
    /\ UNCHANGED <<form, put, desired, since, busiest, now, drainVars>>

\* What the round does about its target: auto mode lowers the count only
\* after a cooldown during which the target stayed below it.
Decision(cfg, at, target) ==
    LET decide(final, candidate) ==
            [pc |-> "sets", at |-> at, cfg |-> cfg, final |-> final,
             since |-> candidate, lower |-> cfg.mode = "auto" /\ target < desired]
    IN IF target >= desired \/ cfg.mode = "fixed" THEN decide(target, None)
       ELSE IF since = None THEN decide(desired, at)
       ELSE IF at - since >= Cooldown THEN decide(target, None)
       ELSE decide(desired, since)

\* The demand is counted and compared with ECS and with the last round.
RoundDecides ==
    /\ round.pc = "decides"
    /\ \E active, coming \in 0..MaxDemand :
        round' = Decision(round.cfg, round.at,
                          ComputeDesired(round.cfg, desired, active, coming))
    /\ UNCHANGED <<configVars, desired, since, busiest, now, drainVars>>

\* set_desired, when it changes anything.
RoundSets ==
    /\ round.pc = "sets"
    /\ desired' = round.final
    /\ round' = [round EXCEPT !.pc = "reports"]
    /\ UNCHANGED <<configVars, since, busiest, now, drainVars>>

\* update_gpu_capacity_live ends the round.
RoundReports ==
    /\ round.pc = "reports"
    /\ since' = round.since
    /\ busiest' = IF round.lower THEN busiest ELSE round.at
    /\ round' = NoRound
    /\ UNCHANGED <<configVars, desired, now, drainVars>>

\* Any call raises, or the function is killed: the round is given up.
RoundFails ==
    /\ round # NoRound
    /\ round' = NoRound
    /\ UNCHANGED <<configVars, desired, since, busiest, now, drainVars>>

Tick ==
    /\ now < MaxClock
    /\ now' = now + 1
    /\ UNCHANGED <<configVars, roundVars, drainVars>>

-----------------------------------------------------------------------------
(* The drain of an instance. Invocations of the lifecycle function are for *)
(* the event ASG sends once, or for a poll of a stored token.              *)

Invocations == {"event", "poll"}

\* A task ends by itself; ECS places none on an instance that terminates.
TaskStarts(i) ==
    /\ hook[i] = "running"
    /\ tasks' = [tasks EXCEPT ![i] = TRUE]
    /\ UNCHANGED <<configVars, roundVars, now, hook, row, visit>>

TaskEnds(i) ==
    /\ tasks[i]
    /\ tasks' = [tasks EXCEPT ![i] = FALSE]
    /\ UNCHANGED <<configVars, roundVars, now, hook, row, visit>>

\* ASG wants the instance gone and says so; the event may be lost.
Terminates(i) ==
    /\ hook[i] = "running"
    /\ hook' = [hook EXCEPT ![i] = "waits"]
    /\ \/ visit' = [visit EXCEPT ![i]["event"] = "records"]
       \/ UNCHANGED visit
    /\ UNCHANGED <<configVars, roundVars, now, tasks, row>>

Records(i) ==
    /\ visit[i]["event"] = "records"
    /\ row' = [row EXCEPT ![i] = TRUE]
    /\ visit' = [visit EXCEPT ![i]["event"] = "checks"]
    /\ UNCHANGED <<configVars, roundVars, now, hook, tasks>>

Polls(i) ==
    /\ row[i] /\ visit[i]["poll"] = "away"
    /\ visit' = [visit EXCEPT ![i]["poll"] = "checks"]
    /\ UNCHANGED <<configVars, roundVars, now, hook, tasks, row>>

\* _instance_busy: a query that fails counts as busy.
Checks(i, k) ==
    /\ visit[i][k] = "checks"
    /\ \/ visit' = [visit EXCEPT ![i][k] = "busy"]
       \/ ~tasks[i] /\ visit' = [visit EXCEPT ![i][k] = "idle"]
    /\ UNCHANGED <<configVars, roundVars, now, hook, tasks, row>>

\* Busy: the hook is prolonged, or the call fails and the token is dropped
\* (unless dropping it fails too).
Heartbeats(i, k) ==
    /\ visit[i][k] = "busy"
    /\ row' \in {row, [row EXCEPT ![i] = FALSE]}
    /\ visit' = [visit EXCEPT ![i][k] = "away"]
    /\ UNCHANGED <<configVars, roundVars, now, hook, tasks>>

\* Idle: ASG may go on, or the call fails; either way the token is dropped.
Completes(i, k) ==
    /\ visit[i][k] = "idle"
    /\ hook' \in {hook, [hook EXCEPT ![i] =
                            IF @ = "waits" THEN "released" ELSE @]}
    /\ row' \in {row, [row EXCEPT ![i] = FALSE]}
    /\ visit' = [visit EXCEPT ![i][k] = "away"]
    /\ UNCHANGED <<configVars, roundVars, now, tasks>>

\* The function is killed, or the write of the token raises.
Dies(i, k) ==
    /\ visit[i][k] # "away"
    /\ visit' = [visit EXCEPT ![i][k] = "away"]
    /\ UNCHANGED <<configVars, roundVars, now, hook, tasks, row>>

\* No heartbeat for the whole timeout: ASG terminates the instance.
Expires(i) ==
    /\ hook[i] = "waits"
    /\ hook' = [hook EXCEPT ![i] = "expired"]
    /\ UNCHANGED <<configVars, roundVars, now, tasks, row, visit>>

-----------------------------------------------------------------------------
CapacityInit ==
    /\ config = None /\ past = {None}
    /\ form = [a \in Admins |-> Blank]
    /\ put = [a \in Admins |-> NoPut]
    /\ desired \in 0..HardMax /\ since = None /\ busiest = 0
    /\ round = NoRound /\ now = 0
    /\ hook = [i \in Instances |-> "running"]
    /\ tasks = [i \in Instances |-> FALSE]
    /\ row = [i \in Instances |-> FALSE]
    /\ visit = [i \in Instances |-> [k \in Invocations |-> "away"]]

AdminStep(a) == Get(a) \/ PutReads(a) \/ PutWrites(a) \/ PutConflicts(a)

RoundStep ==
    \/ RoundStarts \/ RoundSeeds \/ RoundDecides
    \/ RoundSets \/ RoundReports \/ RoundFails

DrainStep(i) ==
    \/ TaskStarts(i) \/ TaskEnds(i) \/ Terminates(i)
    \/ Records(i) \/ Polls(i) \/ Expires(i)
    \/ \E k \in Invocations :
        Checks(i, k) \/ Heartbeats(i, k) \/ Completes(i, k) \/ Dies(i, k)

CapacityNext ==
    \/ \E a \in Admins : AdminStep(a)
    \/ RoundStep
    \/ Tick
    \/ \E i \in Instances : DrainStep(i)

CapacitySpec == CapacityInit /\ [][CapacityNext]_capacityVars

-----------------------------------------------------------------------------
(* Properties *)

\* The count the reconciler asks ECS for stays within the hard maximum: it
\* relies on the validation of every configuration an admin may store.
DesiredIsBounded == desired \in 0..HardMax

\* A PUT that is accepted replaces the very configuration its admin saw: no
\* two admins overwrite each other unknowingly (ConfigVersionConflict).
\* put_capacity numbers the new row after the row it read, so a lagging read
\* gives one version to two configurations, and from then on this may fail.
NoLostUpdate ==
    [][\A a \in Admins : PutWrites(a) => config = form[a]]_capacityVars

\* In auto mode the count is lowered only when every round that reported
\* within the cooldown asked for less, whatever rounds failed in between.
ScaleInWaits ==
    [][desired' < desired /\ round.cfg.mode = "auto"
        => round.at - busiest >= Cooldown]_capacityVars

\* The lifecycle function lets ASG go on only with an instance on which no
\* task runs any more; only ASG's own timeout ends a busy one.
ReleasedIsDrained == \A i \in Instances : hook[i] = "released" => ~tasks[i]
==============================================================================
