------------------------------ MODULE LaunchProofs -----------------------------
(***************************************************************************)
(* Proofs about what a launch rests on: LlmRoute, the model configuration  *)
(* a launch is checked against and its turns keep to, for any models,      *)
(* hosts, administrators and calls; and Integration, the requests that     *)
(* share an idempotency key and what follows the end of a session, for any *)
(* requests, hooks and faults.  At the end, Transcripts, the lines of an   *)
(* interview that its evaluation reads.  The three share nothing: their    *)
(* specifications are RouteSpec, Spec and TranscriptSpec.                  *)
(***************************************************************************)
EXTENDS LlmRoute, Integration, Transcripts, FiniteSetTheorems, TLAPS

(***************************************************************************)
(* LlmRoute: a command is sound when it is made and never changes on its   *)
(* way into a turn; what a turn tries are models of its command.           *)
(***************************************************************************)

Commands == [method : {"mantle", "bedrock_converse"}, token : BOOLEAN,
             key : BOOLEAN, host : Hosts,
             model : Models \cup {NoModel, IamModel},
             fallback : SUBSET Models, allowed : SUBSET Models]

\* Every model a command names can answer, or was overlooked, and was in its catalogue.
Targets(e) == {e.model} \cup Fallbacks(e)
Sound(e) ==
    \A m \in Targets(e) : /\ CanAnswer(e, m) \/ Overlooked(e, m)
                          /\ e.allowed # {} => m \in e.allowed

\* On its way a command may still lack a model: the bridge has one.
Stored(e) == [e EXCEPT !.model = IF @ = NoModel THEN IamModel ELSE @]

\* Only validated configurations are in force.
SecretInv == /\ secret \in {c \in Configs : Valid(c)}
             /\ put \in [Admins -> {Nothing} \cup {c \in Configs : Valid(c)}]
             /\ agent \in Models \cup {NoModel}

ReadyInv == ready \in [Callers -> {Nothing} \cup
                                    {e \in Commands : Sound(Stored(e))}]
HeldInv == /\ context \in {Nothing} \cup {e \in Commands : Sound(e)}
           /\ engine \in {Nothing} \cup {e \in Commands : Sound(e)}

\* The attempts of a turn; nothing was said in those that gave way.
TurnInv ==
    /\ DOMAIN turn = DOMAIN NoTurn
    /\ engine = Nothing => turn = NoTurn
    /\ turn.pc = "idle" => turn = NoTurn
    /\ turn.pc # "idle" => turn.model \in Targets(engine)
    /\ turn.pc # "idle" => turn.model = NotedModel
    /\ turn.voices \subseteq {turn.model}
    /\ turn.voices # {} => turn.pushed

-----------------------------------------------------------------------------
(* The configuration and the commands *)

LEMMA SecretInit == ASSUME RouteAssumption, RouteInit PROVE SecretInv
<1>1. Blank \in Configs
  BY DEF RouteAssumption, Blank, Configs
<1>2. Valid(Blank)
  BY DEF Blank, Valid, InCatalog
<1> QED BY <1>1, <1>2 DEF RouteInit, SecretInv

LEMMA SecretStep == ASSUME RouteAssumption, SecretInv, [RouteNext]_routeVars
                    PROVE  SecretInv'
<1>1. ASSUME NEW a \in Admins, PutReads(a) PROVE SecretInv'
  <2>1. PICK d \in Merges(secret) :
          Valid(d) /\ put' = [put EXCEPT ![a] = d]
    BY <1>1 DEF PutReads
  <2>2. d \in {c \in Configs : Valid(c)}
    BY <2>1 DEF Merges
  <2> QED BY <1>1, <2>1, <2>2 DEF PutReads, SecretInv
<1>2. ASSUME NEW a \in Admins, PutWrites(a) PROVE SecretInv'
  BY <1>2 DEF PutWrites, SecretInv
<1>3. ASSUME NEW a \in Admins, PutFails(a) PROVE SecretInv'
  BY <1>3 DEF PutFails, SecretInv
<1>4. CASE UNCHANGED <<secret, put, agent>>
  BY <1>4 DEF SecretInv
<1> QED BY <1>1, <1>2, <1>3, <1>4
      DEF RouteNext, routeVars, MakeReady, PutSessionContext, DispatchFails,
          ContextExpires, Connect, Disconnect, Turns, TurnStarts,
          TokenArrives, CallerAborts, StreamConcludes, StreamSwitches

\* A model behind a direct host in China is answered unless it is Anthropic's,
\* which the check refuses as far as it recognises it.
LEMMA CommandIsSound ==
    ASSUME RouteAssumption, SecretInv, IsEnabled(secret), Accepted(secret)
    PROVE  Command(secret) \in Commands /\ Sound(Stored(Command(secret)))
<1> DEFINE c == secret
           e == Command(secret)
<1>1. c \in Configs /\ Valid(c) /\ agent \in Models \cup {NoModel}
  BY DEF SecretInv
<1>2. Effective(c) \in Models
  BY <1>1 DEF Effective, Named, Configs
<1>3. /\ e \in Commands
      /\ e.model = Effective(c) /\ e.fallback = c.fallback \ {Effective(c)}
      /\ e.allowed = c.models /\ e.host = c.host /\ e.method = c.method
      /\ e.token = (c.method = "mantle" /\ c.token)
      /\ e.key = (c.method = "bedrock_converse" /\ c.key)
  BY <1>1, <1>2 DEF Command, Commands, Configs
<1>4. Effective(c) # NoModel
  BY <1>2 DEF RouteAssumption
<1>5. Stored(e) = e
  BY <1>3, <1>4 DEF Stored, Commands
<1>6. Targets(e) \subseteq {Effective(c)} \cup c.fallback
  BY <1>3 DEF Targets, Fallbacks
<1>7. ASSUME NEW m \in Targets(e) PROVE CanAnswer(e, m) \/ Overlooked(e, m)
  <2>1. CASE c.method = "mantle"
    <3>1. e.token /\ Route(e) = "mantle"
      BY <1>1, <1>3, <2>1 DEF IsEnabled, Credential, Route, Configs
    <3>2. China /\ e.host \in Direct => m \notin Recognised
      BY <1>3, <1>6, <1>7 DEF Accepted
    <3> QED BY <3>1, <3>2 DEF CanAnswer, Overlooked
  <2>2. CASE c.method = "bedrock_converse"
    <3>1. Route(e) = "converse" /\ e.key
      BY <1>1, <1>3, <2>2 DEF IsEnabled, Credential, Route, Configs
    <3>2. ~ (China /\ e.host \in Direct \cup Runtime)
      BY <1>3, <2>2 DEF Accepted
    <3> QED BY <3>1, <3>2 DEF CanAnswer
  <2> QED BY <1>1, <2>1, <2>2 DEF Configs
<1>8. ASSUME NEW m \in Targets(e), e.allowed # {} PROVE m \in e.allowed
  <2>1. InCatalog(c, Effective(c))
    BY <1>1 DEF Valid, Accepted, Effective
  <2>2. \A f \in c.fallback : InCatalog(c, f)
    BY DEF Accepted
  <2> QED BY <1>3, <1>6, <1>8, <2>1, <2>2 DEF InCatalog
<1> QED BY <1>3, <1>5, <1>7, <1>8 DEF Sound

LEMMA IamIsSound ==
    ASSUME RouteAssumption, SecretInv, IamAccepted
    PROVE  IamCommand \in Commands /\ Sound(Stored(IamCommand))
<1> DEFINE e == Stored(IamCommand)
<1>1. IamCommand \in Commands
  BY DEF RouteAssumption, SecretInv, IamCommand, Commands
<1>2. /\ e.model = IF agent = NoModel THEN IamModel ELSE agent
      /\ e.allowed = {} /\ e.method = "mantle" /\ e.token = FALSE
  BY DEF Stored, IamCommand
<1>3. Route(e) = "iam" /\ Targets(e) = {e.model}
  BY <1>2 DEF Route, Targets, Fallbacks
<1>4. ~ China /\ e.model \notin MantleOnly
  BY <1>2 DEF IamAccepted, Named, RouteAssumption
<1> QED BY <1>1, <1>2, <1>3, <1>4 DEF Sound, CanAnswer

LEMMA StoredIsCommand ==
    ASSUME NEW e \in Commands PROVE Stored(e) \in Commands
  BY DEF Stored, Commands

LEMMA CommandsInit == ASSUME RouteInit PROVE ReadyInv /\ HeldInv
  BY DEF RouteInit, ReadyInv, HeldInv

\* Only a check of the secret makes a command; the bridge completes it and
\* the engine keeps it.
LEMMA CommandsStep ==
    ASSUME RouteAssumption, SecretInv, ReadyInv, HeldInv, [RouteNext]_routeVars
    PROVE  ReadyInv' /\ HeldInv'
<1>1. ASSUME NEW r \in Callers, MakeReady(r) PROVE ReadyInv' /\ HeldInv'
  <2>1. CASE ready' = [ready EXCEPT ![r] = Command(secret)]
             /\ IsEnabled(secret) /\ Accepted(secret)
    <3>1. Command(secret) \in {e \in Commands : Sound(Stored(e))}
      BY <2>1, CommandIsSound
    <3> QED BY <1>1, <2>1, <3>1 DEF MakeReady, ReadyInv, HeldInv
  <2>2. CASE ready' = [ready EXCEPT ![r] = IamCommand] /\ IamAccepted
    <3>1. IamCommand \in {e \in Commands : Sound(Stored(e))}
      BY <2>2, IamIsSound
    <3> QED BY <1>1, <2>2, <3>1 DEF MakeReady, ReadyInv, HeldInv
  <2> QED BY <1>1, <2>1, <2>2 DEF MakeReady
<1>2. ASSUME NEW r \in Callers, PutSessionContext(r)
      PROVE  ReadyInv' /\ HeldInv'
  <2>1. ready[r] \in Commands /\ Sound(Stored(ready[r]))
    BY <1>2 DEF PutSessionContext, ReadyInv
  <2>2. context' = Stored(ready[r])
    BY <1>2 DEF PutSessionContext, Stored
  <2>3. context' \in {e \in Commands : Sound(e)}
    BY <2>1, <2>2, StoredIsCommand
  <2> QED BY <1>2, <2>3 DEF PutSessionContext, ReadyInv, HeldInv
<1>3. ASSUME NEW r \in Callers, DispatchFails(r) PROVE ReadyInv' /\ HeldInv'
  BY <1>3 DEF DispatchFails, ReadyInv, HeldInv
<1>4. CASE Connect
  BY <1>4 DEF Connect, ReadyInv, HeldInv
<1>5. CASE Disconnect
  BY <1>5 DEF Disconnect, ReadyInv, HeldInv
<1>6. CASE ContextExpires
  BY <1>6 DEF ContextExpires, ReadyInv, HeldInv
<1>7. CASE UNCHANGED <<ready, context, engine>>
  BY <1>7 DEF ReadyInv, HeldInv
<1> QED BY <1>1, <1>2, <1>3, <1>4, <1>5, <1>6, <1>7
      DEF RouteNext, routeVars, PutReads, PutWrites, PutFails, Turns, TurnStarts,
          TokenArrives, CallerAborts, StreamConcludes, StreamSwitches

-----------------------------------------------------------------------------
(* The turn *)

LEMMA TurnInit == ASSUME RouteInit PROVE TurnInv
  BY DEF RouteInit, TurnInv, NoTurn

\* A switch finds nothing said; a token is of the model that is tried.
LEMMA TurnStep ==
    ASSUME RouteAssumption, HeldInv, TurnInv, [RouteNext]_routeVars
    PROVE  TurnInv'
<1>1. CASE TurnStarts
  <2>1. /\ engine' = engine /\ engine # Nothing
        /\ turn' = [NoTurn EXCEPT !.pc = "attempt", !.model = engine.model,
                                  !.tried = {engine.model}]
    BY <1>1 DEF TurnStarts, Turns
  <2> QED BY <2>1 DEF TurnInv, NoTurn, NotedModel, Targets
<1>2. CASE TokenArrives
  <2>1. /\ engine' = engine /\ engine # Nothing /\ turn.pc = "attempt"
        /\ turn' = [turn EXCEPT !.pushed = TRUE,
                                !.voices = @ \cup {turn.model}]
    BY <1>2 DEF TokenArrives, Turns, Attempting
  <2> QED BY <2>1 DEF TurnInv, NoTurn, NotedModel
<1>3. CASE CallerAborts
  <2>1. /\ engine' = engine /\ engine # Nothing /\ turn.pc = "attempt"
        /\ turn' = [turn EXCEPT !.aborted = TRUE]
    BY <1>3 DEF CallerAborts, Turns, Attempting
  <2> QED BY <2>1 DEF TurnInv, NoTurn, NotedModel
<1>4. CASE StreamConcludes
  <2>1. /\ engine' = engine /\ engine # Nothing /\ turn.pc = "attempt"
        /\ turn' = [turn EXCEPT !.pc = "over"]
    BY <1>4 DEF StreamConcludes, Turns, Attempting
  <2> QED BY <2>1 DEF TurnInv, NoTurn, NotedModel
<1>5. CASE StreamSwitches
  <2>1. /\ engine' = engine /\ engine # Nothing /\ turn.pc = "attempt"
        /\ ~ turn.pushed
    BY <1>5 DEF StreamSwitches, Turns, Attempting
  <2>2. PICK m \in Fallbacks(engine) :
          turn' = [turn EXCEPT !.model = m, !.used = m,
                               !.tried = @ \cup {m}]
    BY <1>5 DEF StreamSwitches, Untried
  <2>3. m # NoModel /\ m \in Targets(engine)
    <3>1. engine.fallback \subseteq Models
      BY <2>1 DEF HeldInv, Commands
    <3> QED BY <3>1 DEF Fallbacks, Targets, RouteAssumption
  <2>4. turn.voices = {}
    BY <2>1 DEF TurnInv
  <2> QED BY <2>1, <2>2, <2>3, <2>4 DEF TurnInv, NoTurn, NotedModel
<1>6. CASE Connect
  BY <1>6 DEF Connect, TurnInv, NoTurn, NotedModel
<1>7. CASE Disconnect
  BY <1>7 DEF Disconnect, TurnInv, NoTurn
<1>8. CASE UNCHANGED <<engine, turn>>
  BY <1>8 DEF TurnInv, NotedModel
<1> QED BY <1>1, <1>2, <1>3, <1>4, <1>5, <1>6, <1>7, <1>8
      DEF RouteNext, routeVars, PutReads, PutWrites, PutFails, MakeReady,
          PutSessionContext, DispatchFails, ContextExpires

LEMMA TriesAreSound ==
    ASSUME HeldInv, TurnInv, turn.pc # "idle"
    PROVE  /\ CanAnswer(engine, turn.model) \/ Overlooked(engine, turn.model)
           /\ engine.allowed # {} => turn.model \in engine.allowed
<1>1. engine # Nothing
  BY DEF TurnInv, NoTurn
<1>2. Sound(engine)
  BY <1>1 DEF HeldInv
<1>3. turn.model \in Targets(engine)
  BY DEF TurnInv
<1> QED BY <1>2, <1>3 DEF Sound

RouteInv == SecretInv /\ ReadyInv /\ HeldInv /\ TurnInv

\* A secret validated, commands sound and turns that keep to them hold
\* together in every reachable state.
THEOREM RouteIsSound == ASSUME RouteAssumption PROVE RouteSpec => []RouteInv
<1>1. RouteInit => RouteInv
  BY SecretInit, CommandsInit, TurnInit DEF RouteInv
<1>2. RouteInv /\ [RouteNext]_routeVars => RouteInv'
  BY SecretStep, CommandsStep, TurnStep DEF RouteInv
<1> QED BY <1>1, <1>2, PTL DEF RouteSpec

\* No turn ever tries a model its route cannot reach, other than one of Anthropic's
\* whose spelling the check does not know, however the secret is rewritten and
\* commands overtake each other meanwhile.
THEOREM NoSilentAttempts ==
    ASSUME RouteAssumption PROVE RouteSpec => []NoSilentAttempt
<1>1. RouteInv => NoSilentAttempt
  BY TriesAreSound DEF RouteInv, NoSilentAttempt
<1> QED BY <1>1, RouteIsSound, PTL

\* Every model tried stood in the catalogue of the launch, the default model
\* included, which only the PUT checks.
THEOREM CatalogBinds ==
    ASSUME RouteAssumption PROVE RouteSpec => []AttemptsAreAllowed
<1>1. RouteInv => AttemptsAreAllowed
  BY TriesAreSound DEF RouteInv, AttemptsAreAllowed
<1> QED BY <1>1, RouteIsSound, PTL

\* A turn is never half one model's and half another's, and the metrics name
\* the model that was heard.
THEOREM TurnsHaveOneVoice ==
    ASSUME RouteAssumption PROVE RouteSpec => []OneVoice
<1>1. RouteInv => OneVoice
  BY DEF RouteInv, TurnInv, OneVoice, NoTurn
<1> QED BY <1>1, RouteIsSound, PTL

(***************************************************************************)
(* Integration: one request at a time computes the session of a key; what  *)
(* was answered is what is saved; a Lambda that writes saw no review.      *)
(***************************************************************************)

Stages == {"asleep", "score", "read", "write", "tell", "done"}
Rows == [score : Scores \cup {"none", "error"},
         review : {"none", "pending", "reviewed"}]
Lambdas == [at : Stages, got : Scores \cup {"none", "error"}, saw : Rows]

\* What the end of a session and its evaluation write.
EndInv ==
    /\ meta \in BOOLEAN /\ records \in 0..MaxRecords /\ stream \in 0..records
    /\ ~meta => records = 0
    /\ lambda \in Lambdas
    /\ lambda.at # "asleep" => stream > 0
    /\ res \in Rows /\ past \subseteq Rows /\ review \in Rows
    /\ thread \in [at : {"none", "list", "tell"}, todo : SUBSET Hooks]
    /\ heard \cup dead \cup hooks \subseteq Hooks

\* A review is of somebody's; a Lambda about to write saw a row without one.
ReviewInv ==
    /\ review # NoResult => Reviewed(review)
    /\ lambda.at = "write" => ~Reviewed(lambda.saw)

-------------------------------------------------------------------------------
(* The launches under a key                                                *)

Places == {"idle", "claim", "get", "put", "launch", "save", "delete"}

\* The request computes the session of the key.
Computes(r) == req[r].at \in {"put", "launch", "save", "delete"}

\* The requests that may still write a session row.
Writes(x) == x.at = "claim" \/ x.at = "put"
ToWrite == {r \in Requests : Writes(req[r])}

LaunchTyped ==
    /\ req \in [Requests -> [at : Places, s : Nat]]
    /\ tries \in 0..MaxTries /\ sessions \in Nat
    /\ sessions + Cardinality(ToWrite) <= tries
    /\ \A r \in Requests : req[r].s \in 0..sessions
    /\ \A r \in Requests : req[r].at \in {"launch", "save"} => req[r].s # None
    /\ key \in [st : {"free", "claimed", "saved"}, s : Nat]
    /\ key.st # "saved" => key.s = None
    /\ key.st = "saved" => key.s \in 1..sessions
    /\ faults \subseteq Faults

\* One request computes at a time, while the key is claimed; whoever was
\* answered was answered what is saved; and a claim nobody works on tells of a fault.
KeyInv ==
    /\ \A r \in Requests : Computes(r) => key = Claimed
    /\ \A r, o \in Requests : Computes(r) /\ Computes(o) => r = o
    /\ answers # {} => key.st = "saved" /\ answers = {key.s}
    /\ key = Claimed /\ (\A r \in Requests : ~Computes(r)) => faults # {}

LaunchInv == LaunchTyped /\ KeyInv

LEMMA FaultsKept ==
    ASSUME LaunchTyped, NEW k, Fails(k)
    PROVE  faults' \subseteq Faults /\ faults' # {}
  BY DEF LaunchTyped, Fails

LEMMA ToWriteFinite ==
    ASSUME IsFiniteSet(Requests)
    PROVE  IsFiniteSet(ToWrite) /\ Cardinality(ToWrite) \in Nat
<1>1. IsFiniteSet(ToWrite)
  BY FS_Subset DEF ToWrite
<1>2. QED
  BY <1>1, FS_CardinalityType

\* One request moves; how many may still write follows from where it was.
LEMMA MoveCounts ==
    ASSUME IsFiniteSet(Requests), LaunchTyped, NEW r \in Requests,
           NEW x \in [at : Places, s : Nat], req' = [req EXCEPT ![r] = x]
    PROVE  /\ req' \in [Requests -> [at : Places, s : Nat]]
           /\ req'[r] = x /\ \A o \in Requests \ {r} : req'[o] = req[o]
           /\ Cardinality(ToWrite') \in Nat
           /\ Cardinality(ToWrite) \in Nat
           /\ Cardinality(ToWrite') <= Cardinality(ToWrite) + 1
           /\ Writes(req[r]) \/ ~Writes(x) => Cardinality(ToWrite') <= Cardinality(ToWrite)
           /\ Writes(req[r]) /\ ~Writes(x)
                => Cardinality(ToWrite') <= Cardinality(ToWrite) - 1
<1>1. /\ req' \in [Requests -> [at : Places, s : Nat]]
      /\ req'[r] = x /\ \A o \in Requests \ {r} : req'[o] = req[o]
  BY DEF LaunchTyped
<1> DEFINE W == ToWrite
           V == {o \in Requests : Writes(req'[o])}
<1>2. IsFiniteSet(W) /\ Cardinality(W) \in Nat /\ V = ToWrite'
  BY ToWriteFinite DEF ToWrite
<1>3. r \in W <=> Writes(req[r])
  BY DEF ToWrite
<1>4. r \in V <=> Writes(x)
  BY <1>1
<1>5. \A o \in Requests \ {r} : o \in V <=> o \in W
  BY <1>1 DEF ToWrite
<1>6. V \subseteq Requests /\ W \subseteq Requests
  BY DEF ToWrite
<1> HIDE DEF V, W
<1>7. CASE r \in V /\ r \in W
  <2>1. V = W
    BY <1>5, <1>6, <1>7
  <2>2. QED
    BY <1>1, <1>2, <1>3, <1>4, <1>7, <2>1 DEF W
<1>8. CASE r \in V /\ r \notin W
  <2>1. V = W \cup {r}
    BY <1>5, <1>6, <1>8
  <2>2. Cardinality(V) = Cardinality(W) + 1
    BY <1>2, <1>8, <2>1, FS_AddElement
  <2>3. QED
    BY <1>1, <1>2, <1>3, <1>4, <1>8, <2>2 DEF W
<1>9. CASE r \notin V /\ r \in W
  <2>1. V = W \ {r}
    BY <1>5, <1>6, <1>9
  <2>2. Cardinality(V) = Cardinality(W) - 1 /\ Cardinality(V) \in Nat
    BY <1>2, <1>9, <2>1, FS_RemoveElement, FS_CardinalityType
  <2>3. QED
    BY <1>1, <1>2, <1>3, <1>4, <1>9, <2>2 DEF W
<1>10. CASE r \notin V /\ r \notin W
  <2>1. V = W
    BY <1>5, <1>6, <1>10
  <2>2. QED
    BY <1>1, <1>2, <1>3, <1>4, <1>10, <2>1 DEF W
<1>11. QED
  BY <1>7, <1>8, <1>9, <1>10

\* The steps that leave the launches alone; a fault may happen in them.
LEMMA LaunchApart ==
    ASSUME LaunchInv, UNCHANGED launchVars, faults' \subseteq Faults, faults \subseteq faults'
    PROVE  LaunchInv'
  BY DEF LaunchInv, LaunchTyped, KeyInv, Computes, ToWrite, launchVars

\* What the requests other than the one that moves go on with.
LEMMA KeyKept ==
    ASSUME LaunchInv, NEW r \in Requests,
           \A o \in Requests \ {r} : req'[o] = req[o],
           \/ ~Computes(r)' /\ (key' = key \/ \A o \in Requests \ {r} : ~Computes(o))
           \/ Computes(r) /\ Computes(r)' /\ key' = key
           \/ key = Free /\ Computes(r)' /\ key' = Claimed,
           answers' # {} => key'.st = "saved" /\ answers' = {key'.s},
           \/ Computes(r)' \/ key' # Claimed \/ faults' # {}
           \/ ~Computes(r) /\ key' = key /\ faults' = faults
    PROVE  KeyInv'
<1>1. \A o \in Requests \ {r} : Computes(o)' <=> Computes(o)
  BY DEF Computes
<1>2. key = Free => \A o \in Requests : ~Computes(o)
  BY DEF LaunchInv, KeyInv, Free, Claimed
<1>3. \A o \in Requests : Computes(o)' => key' = Claimed
  BY <1>1, <1>2 DEF LaunchInv, KeyInv
<1>4. \A o, p \in Requests : Computes(o)' /\ Computes(p)' => o = p
  BY <1>1, <1>2 DEF LaunchInv, KeyInv
<1>5. key' = Claimed /\ (\A o \in Requests : ~Computes(o)') => faults' # {}
  BY <1>1 DEF LaunchInv, KeyInv
<1>6. QED
  BY <1>3, <1>4, <1>5 DEF KeyInv, Computes

LEMMA KeyTyped ==
    /\ Free \in [st : {"free", "claimed", "saved"}, s : Nat] /\ Free.st = "free" /\ Free.s = None
    /\ Claimed \in [st : {"free", "claimed", "saved"}, s : Nat]
    /\ Claimed.st = "claimed" /\ Claimed.s = None
    /\ Idle \in [at : Places, s : Nat] /\ Idle.at = "idle" /\ Idle.s = None
  BY DEF Free, Claimed, Idle, None, Places

LEMMA GoesTo ==
    ASSUME LaunchTyped, NEW r \in Requests, NEW from, NEW to \in Places, Goes(r, from, to)
    PROVE  \E x \in [at : Places, s : Nat] :
              x.at = to /\ x.s = req[r].s /\ req' = [req EXCEPT ![r] = x]
<1> DEFINE x == [req[r] EXCEPT !.at = to]
<1>1. req[r] \in [at : Places, s : Nat] /\ req \in [Requests -> [at : Places, s : Nat]]
  BY DEF LaunchTyped
<1>2. x \in [at : Places, s : Nat] /\ x.at = to /\ x.s = req[r].s
  BY <1>1
<1>3. req' = [req EXCEPT ![r] = x]
  BY <1>1 DEF Goes
<1> HIDE DEF x
<1>4. QED
  BY <1>2, <1>3

LEMMA RequestKeeps ==
    ASSUME LaunchInv, IsFiniteSet(Requests), NEW r \in Requests, Request(r)
    PROVE  LaunchInv'
<1>1. /\ req[r].at = "idle" /\ tries' = tries + 1 /\ tries < MaxTries
      /\ key' = key /\ sessions' = sessions /\ answers' = answers /\ faults' = faults
  BY DEF Request, Goes
<1>2. PICK x \in [at : Places, s : Nat] :
          x.at = "claim" /\ x.s = req[r].s /\ req' = [req EXCEPT ![r] = x]
  BY GoesTo DEF Request, LaunchInv, Places
<1>3. /\ req' \in [Requests -> [at : Places, s : Nat]]
      /\ req'[r] = x /\ \A o \in Requests \ {r} : req'[o] = req[o]
      /\ Cardinality(ToWrite') \in Nat /\ Cardinality(ToWrite') <= Cardinality(ToWrite) + 1
      /\ Cardinality(ToWrite) \in Nat
  BY <1>1, <1>2, MoveCounts DEF LaunchInv, Writes
<1>4. LaunchTyped'
  BY <1>1, <1>2, <1>3, IntegrationAssumption DEF LaunchInv, LaunchTyped
<1>5. ~Computes(r) /\ ~Computes(r)'
  BY <1>1, <1>2, <1>3 DEF Computes
<1>6. KeyInv'
  BY <1>1, <1>3, <1>5, KeyKept DEF LaunchInv, KeyInv
<1>7. QED
  BY <1>4, <1>6 DEF LaunchInv

LEMMA ClaimKeeps ==
    ASSUME LaunchInv, IsFiniteSet(Requests), NEW r \in Requests, Claim(r)
    PROVE  LaunchInv'
<1>1. /\ req[r].at = "claim" /\ tries' = tries
      /\ sessions' = sessions /\ answers' = answers
      /\ \/ key = Free /\ key' = Claimed /\ Goes(r, "claim", "put") /\ faults' = faults
         \/ key = Free /\ key' = Claimed /\ Goes(r, "claim", "get") /\ Fails("db")
         \/ key # Free /\ key' = key /\ Goes(r, "claim", "get") /\ faults' = faults
  BY DEF Claim, Goes
<1>2. PICK x \in [at : Places, s : Nat] :
          /\ x.s = req[r].s /\ req' = [req EXCEPT ![r] = x]
          /\ \/ key = Free /\ key' = Claimed /\ x.at = "put" /\ faults' = faults
             \/ key = Free /\ key' = Claimed /\ x.at = "get" /\ Fails("db")
             \/ key # Free /\ key' = key /\ x.at = "get" /\ faults' = faults
  BY <1>1, GoesTo DEF LaunchInv, Places
<1>3. /\ req' \in [Requests -> [at : Places, s : Nat]]
      /\ req'[r] = x /\ \A o \in Requests \ {r} : req'[o] = req[o]
      /\ Cardinality(ToWrite') \in Nat /\ Cardinality(ToWrite') <= Cardinality(ToWrite)
      /\ Cardinality(ToWrite) \in Nat
  BY <1>1, <1>2, MoveCounts DEF LaunchInv, Writes
<1>4. faults' \subseteq Faults /\ (Fails("db") => faults' # {})
  BY <1>2, FaultsKept DEF LaunchInv, LaunchTyped
<1>5. LaunchTyped'
  BY <1>1, <1>2, <1>3, <1>4, KeyTyped DEF LaunchInv, LaunchTyped
<1>6. ~Computes(r) /\ (Computes(r)' <=> x.at = "put")
  BY <1>1, <1>2, <1>3 DEF Computes
<1>7. key = Free => answers = {} /\ \A o \in Requests : ~Computes(o)
  BY DEF LaunchInv, KeyInv, Free, Claimed
<1>8. answers' # {} => key'.st = "saved" /\ answers' = {key'.s}
  BY <1>1, <1>2, <1>7 DEF LaunchInv, KeyInv
<1>9. KeyInv'
  BY <1>1, <1>2, <1>3, <1>4, <1>6, <1>7, <1>8, KeyKept
<1>10. QED
  BY <1>5, <1>9 DEF LaunchInv

LEMMA AnswerKeeps ==
    ASSUME LaunchInv, IsFiniteSet(Requests), NEW r \in Requests, Answer(r)
    PROVE  LaunchInv'
<1>1. /\ req[r].at = "get" /\ req' = [req EXCEPT ![r] = Idle] /\ tries' = tries
      /\ sessions' = sessions /\ key' = key /\ faults' = faults
      /\ answers' = IF key.st = "saved" THEN answers \cup {key.s} ELSE answers
  BY DEF Answer, Ends
<1>2. /\ req' \in [Requests -> [at : Places, s : Nat]]
      /\ req'[r] = Idle /\ \A o \in Requests \ {r} : req'[o] = req[o]
      /\ Cardinality(ToWrite') \in Nat /\ Cardinality(ToWrite') <= Cardinality(ToWrite)
      /\ Cardinality(ToWrite) \in Nat
  BY <1>1, KeyTyped, MoveCounts DEF LaunchInv, Writes
<1>3. LaunchTyped'
  BY <1>1, <1>2, KeyTyped DEF LaunchInv, LaunchTyped, None
<1>4. ~Computes(r) /\ ~Computes(r)'
  BY <1>1, <1>2, KeyTyped DEF Computes
<1>5. answers' # {} => key'.st = "saved" /\ answers' = {key'.s}
  BY <1>1 DEF LaunchInv, KeyInv
<1>6. KeyInv'
  BY <1>1, <1>2, <1>4, <1>5, KeyKept
<1>7. QED
  BY <1>3, <1>6 DEF LaunchInv

LEMMA PutSessionKeeps ==
    ASSUME LaunchInv, IsFiniteSet(Requests), NEW r \in Requests, PutSession(r)
    PROVE  LaunchInv'
<1>1. /\ req[r].at = "put" /\ tries' = tries /\ key' = key /\ answers' = answers
      /\ \/ /\ sessions' = sessions + 1 /\ faults' = faults
            /\ req' = [req EXCEPT ![r] = [at |-> "launch", s |-> sessions + 1]]
         \/ Fails("db") /\ Goes(r, "put", "delete") /\ sessions' \in {sessions, sessions + 1}
  BY DEF PutSession
<1>2. sessions \in Nat
  BY DEF LaunchInv, LaunchTyped
<1>3. PICK x \in [at : Places, s : Nat] :
          /\ req' = [req EXCEPT ![r] = x] /\ x.at \in {"launch", "delete"}
          /\ x.at = "launch" => x.s = sessions + 1 /\ sessions' = sessions + 1
          /\ x.s = req[r].s \/ x.s = sessions'
  <2>1. CASE req' = [req EXCEPT ![r] = [at |-> "launch", s |-> sessions + 1]]
               /\ sessions' = sessions + 1
    <3> DEFINE x == [at |-> "launch", s |-> sessions + 1]
    <3>1. x \in [at : Places, s : Nat] /\ x.at = "launch" /\ x.s = sessions + 1
      BY <1>2 DEF Places
    <3> HIDE DEF x
    <3>2. req' = [req EXCEPT ![r] = x]
      BY <2>1 DEF x
    <3>3. QED
      BY <2>1, <3>1, <3>2
  <2>2. CASE Goes(r, "put", "delete")
    BY <2>2, GoesTo DEF LaunchInv, Places
  <2>3. QED
    BY <1>1, <2>1, <2>2
<1>4. /\ req' \in [Requests -> [at : Places, s : Nat]]
      /\ req'[r] = x /\ \A o \in Requests \ {r} : req'[o] = req[o]
      /\ Cardinality(ToWrite') \in Nat /\ Cardinality(ToWrite') <= Cardinality(ToWrite) - 1
      /\ Cardinality(ToWrite) \in Nat
  BY <1>1, <1>3, MoveCounts DEF LaunchInv, Writes
<1>5. faults' \subseteq Faults
  BY <1>1, FaultsKept DEF LaunchInv, LaunchTyped
<1>6. sessions' \in {sessions, sessions + 1}
  BY <1>1
<1>7. LaunchTyped'
  <2>1. sessions' \in Nat /\ sessions' >= sessions
    BY <1>2, <1>6
  <2>2. sessions' + Cardinality(ToWrite') <= tries'
    BY <1>1, <1>2, <1>4, <1>6 DEF LaunchInv, LaunchTyped
  <2>3. \A o \in Requests : req'[o].s \in 0..sessions'
    BY <1>2, <1>3, <1>4, <2>1 DEF LaunchInv, LaunchTyped
  <2>4. \A o \in Requests : req'[o].at \in {"launch", "save"} => req'[o].s # None
    BY <1>2, <1>3, <1>4 DEF LaunchInv, LaunchTyped, None
  <2>5. key.st = "saved" => key.s \in 1..sessions'
    BY <1>2, <2>1 DEF LaunchInv, LaunchTyped
  <2>6. QED
    BY <1>1, <1>4, <1>5, <2>1, <2>2, <2>3, <2>4, <2>5 DEF LaunchInv, LaunchTyped
<1>8. Computes(r) /\ Computes(r)'
  BY <1>1, <1>3, <1>4 DEF Computes
<1>9. KeyInv'
  BY <1>1, <1>4, <1>8, KeyKept DEF LaunchInv, KeyInv
<1>10. QED
  BY <1>7, <1>9 DEF LaunchInv

LEMMA LaunchKeeps ==
    ASSUME LaunchInv, IsFiniteSet(Requests), NEW r \in Requests, Launch(r)
    PROVE  LaunchInv'
<1>1. /\ req[r].at = "launch" /\ tries' = tries /\ key' = key /\ answers' = answers
      /\ sessions' = sessions /\ faults' = faults
      /\ Goes(r, "launch", "save") \/ Goes(r, "launch", "delete")
  BY DEF Launch, Goes
<1>2. PICK x \in [at : Places, s : Nat] :
          /\ req' = [req EXCEPT ![r] = x] /\ x.at \in {"save", "delete"} /\ x.s = req[r].s
  BY <1>1, GoesTo DEF LaunchInv, Places
<1>3. /\ req' \in [Requests -> [at : Places, s : Nat]]
      /\ req'[r] = x /\ \A o \in Requests \ {r} : req'[o] = req[o]
      /\ Cardinality(ToWrite') \in Nat /\ Cardinality(ToWrite') <= Cardinality(ToWrite)
      /\ Cardinality(ToWrite) \in Nat
  BY <1>1, <1>2, MoveCounts DEF LaunchInv, Writes
<1>4. LaunchTyped'
  BY <1>1, <1>2, <1>3 DEF LaunchInv, LaunchTyped
<1>5. Computes(r) /\ Computes(r)'
  BY <1>1, <1>2, <1>3 DEF Computes
<1>6. KeyInv'
  BY <1>1, <1>3, <1>5, KeyKept DEF LaunchInv, KeyInv
<1>7. QED
  BY <1>4, <1>6 DEF LaunchInv

LEMMA SaveKeeps ==
    ASSUME LaunchInv, IsFiniteSet(Requests), NEW r \in Requests, Save(r)
    PROVE  LaunchInv'
<1> DEFINE saved == [st |-> "saved", s |-> req[r].s]
<1>1. /\ req[r].at = "save" /\ req' = [req EXCEPT ![r] = Idle] /\ tries' = tries
      /\ sessions' = sessions
      /\ \/ key' = saved /\ answers' = answers \cup {req[r].s} /\ faults' = faults
         \/ Fails("db") /\ key' \in {key, saved} /\ answers' = answers
  BY DEF Save, Ends
<1>2. /\ req' \in [Requests -> [at : Places, s : Nat]]
      /\ req'[r] = Idle /\ \A o \in Requests \ {r} : req'[o] = req[o]
      /\ Cardinality(ToWrite') \in Nat /\ Cardinality(ToWrite') <= Cardinality(ToWrite)
      /\ Cardinality(ToWrite) \in Nat
  BY <1>1, KeyTyped, MoveCounts DEF LaunchInv, Writes
<1>3. faults' \subseteq Faults /\ (Fails("db") => faults' # {})
  BY <1>1, FaultsKept DEF LaunchInv, LaunchTyped
<1>4. req[r].s \in 1..sessions /\ sessions \in Nat
  BY <1>1 DEF LaunchInv, LaunchTyped, None
<1>5. /\ saved \in [st : {"free", "claimed", "saved"}, s : Nat] /\ saved.st = "saved"
      /\ saved.s = req[r].s
  BY <1>4
<1>6. Computes(r) /\ ~Computes(r)' /\ key = Claimed /\ \A o \in Requests \ {r} : ~Computes(o)
  BY <1>1, <1>2, KeyTyped DEF LaunchInv, KeyInv, Computes
<1>7. answers = {}
  BY <1>6, KeyTyped DEF LaunchInv, KeyInv
<1> HIDE DEF saved
<1>8. LaunchTyped'
  BY <1>1, <1>2, <1>3, <1>4, <1>5, KeyTyped DEF LaunchInv, LaunchTyped, None
<1>9. answers' # {} => key'.st = "saved" /\ answers' = {key'.s}
  BY <1>1, <1>5, <1>7
<1>10. key' # Claimed \/ faults' # {}
  BY <1>1, <1>3, <1>5, KeyTyped
<1>11. KeyInv'
  BY <1>2, <1>6, <1>9, <1>10, KeyKept
<1>12. QED
  BY <1>8, <1>11 DEF LaunchInv

LEMMA DeleteKeeps ==
    ASSUME LaunchInv, IsFiniteSet(Requests), NEW r \in Requests, Delete(r)
    PROVE  LaunchInv'
<1>1. /\ req[r].at = "delete" /\ req' = [req EXCEPT ![r] = Idle] /\ tries' = tries
      /\ sessions' = sessions /\ answers' = answers
      /\ \/ key' = Free /\ faults' = faults
         \/ Fails("db") /\ key' \in {key, Free}
  BY DEF Delete, Ends
<1>2. /\ req' \in [Requests -> [at : Places, s : Nat]]
      /\ req'[r] = Idle /\ \A o \in Requests \ {r} : req'[o] = req[o]
      /\ Cardinality(ToWrite') \in Nat /\ Cardinality(ToWrite') <= Cardinality(ToWrite)
      /\ Cardinality(ToWrite) \in Nat
  BY <1>1, KeyTyped, MoveCounts DEF LaunchInv, Writes
<1>3. faults' \subseteq Faults /\ (Fails("db") => faults' # {})
  BY <1>1, FaultsKept DEF LaunchInv, LaunchTyped
<1>4. Computes(r) /\ ~Computes(r)' /\ key = Claimed /\ \A o \in Requests \ {r} : ~Computes(o)
  BY <1>1, <1>2, KeyTyped DEF LaunchInv, KeyInv, Computes
<1>5. answers = {}
  BY <1>4, KeyTyped DEF LaunchInv, KeyInv
<1>6. LaunchTyped'
  BY <1>1, <1>2, <1>3, KeyTyped DEF LaunchInv, LaunchTyped, None
<1>7. key' # Claimed \/ faults' # {}
  BY <1>1, <1>3, KeyTyped
<1>8. KeyInv'
  BY <1>1, <1>2, <1>4, <1>5, <1>7, KeyKept
<1>9. QED
  BY <1>6, <1>8 DEF LaunchInv

LEMMA CrashKeeps ==
    ASSUME LaunchInv, IsFiniteSet(Requests), Crash
    PROVE  LaunchInv'
<1>1. /\ req' = [r \in Requests |-> Idle] /\ Fails("crash")
      /\ UNCHANGED <<key, sessions, tries, answers>>
  BY DEF Crash
<1>2. \A r \in Requests : req'[r] = Idle
  BY <1>1
<1>3. ToWrite' = {}
  BY <1>2, KeyTyped DEF ToWrite, Writes
<1>4. Cardinality(ToWrite') = 0
  BY <1>3, FS_EmptySet
<1>5. Cardinality(ToWrite) \in Nat
  BY ToWriteFinite
<1>6. faults' \subseteq Faults /\ faults' # {}
  BY <1>1, FaultsKept DEF LaunchInv
<1>7. LaunchTyped'
  BY <1>1, <1>2, <1>4, <1>5, <1>6, KeyTyped DEF LaunchInv, LaunchTyped, None
<1>8. \A r \in Requests : ~Computes(r)'
  BY <1>2, KeyTyped DEF Computes
<1>9. KeyInv'
  BY <1>1, <1>6, <1>8 DEF LaunchInv, KeyInv, Computes
<1>10. QED
  BY <1>7, <1>9 DEF LaunchInv

LEMMA LaunchInit ==
    ASSUME Init PROVE LaunchInv
<1>1. /\ key = Free /\ req = [r \in Requests |-> Idle] /\ sessions = 0 /\ tries = 0
      /\ answers = {} /\ faults = {}
  BY DEF Init
<1>2. \A r \in Requests : req[r] = Idle
  BY <1>1
<1>3. ToWrite = {}
  BY <1>2, KeyTyped DEF ToWrite, Writes
<1>4. Cardinality(ToWrite) = 0
  BY <1>3, FS_EmptySet
<1>5. LaunchTyped
  BY <1>1, <1>2, <1>4, KeyTyped, IntegrationAssumption DEF LaunchTyped, None
<1>6. KeyInv
  BY <1>1, <1>2, KeyTyped DEF KeyInv, Computes
<1>7. QED
  BY <1>5, <1>6 DEF LaunchInv

LEMMA LaunchStep ==
    ASSUME LaunchInv, IsFiniteSet(Requests), [Next]_vars
    PROVE  LaunchInv'
<1>1. ASSUME NEW r \in Requests,
             Request(r) \/ Claim(r) \/ Answer(r) \/ PutSession(r) \/ Launch(r)
                \/ Save(r) \/ Delete(r)
      PROVE  LaunchInv'
  BY <1>1, RequestKeeps, ClaimKeeps, AnswerKeeps, PutSessionKeeps, LaunchKeeps, SaveKeeps,
     DeleteKeeps
<1>2. CASE Crash
  BY <1>2, CrashKeeps
<1>3. CASE \/ Completes \/ CompletesAgain \/ ListHooks \/ TellHook \/ ThreadEnds
           \/ Invoke \/ LambdaSteps \/ Killed \/ ReadForReview \/ WriteReview
           \/ (\E h \in Hooks : RegisterWebhook(h) \/ DeleteWebhook(h)) \/ UNCHANGED vars
  <2>1. UNCHANGED launchVars
    BY <1>3 DEF Completes, CompletesAgain, ListHooks, TellHook, ThreadEnds, Invoke, LambdaSteps,
       Killed, ReadForReview, WriteReview, RegisterWebhook, DeleteWebhook, Score, ReadResult,
       WriteResult, TellSubscribers, RecordDone, Lambda, Reviewing, vars
  <2>2. faults' = faults \/ \E k \in FaultKinds : Fails(k)
    BY <1>3 DEF Completes, CompletesAgain, ListHooks, TellHook, ThreadEnds, Invoke, LambdaSteps,
       Killed, ReadForReview, WriteReview, RegisterWebhook, DeleteWebhook, Score, ReadResult,
       WriteResult, TellSubscribers, RecordDone, Reviewing, vars, FaultKinds
  <2>3. faults \subseteq faults' /\ faults' \subseteq Faults
    BY <2>2, FaultsKept DEF Fails, LaunchInv, LaunchTyped
  <2>4. QED
    BY <2>1, <2>3, LaunchApart
<1>4. QED
  BY <1>1, <1>2, <1>3 DEF Next

-------------------------------------------------------------------------------
(* The end of a session, its evaluation and its review                     *)

LEMMA EndInit ==
    ASSUME Init PROVE EndInv /\ ReviewInv
<1>1. /\ meta = FALSE /\ stream = 0 /\ records = 0 /\ lambda = Asleep /\ res = NoResult
      /\ past = {} /\ review = NoResult /\ thread = NoThread /\ hooks = {} /\ heard = {} /\ dead = {}
  BY DEF Init
<1>3. NoResult \in Rows
  BY DEF NoResult, Rows
<1>2. Asleep \in Lambdas /\ Asleep.at = "asleep"
  BY <1>3 DEF Asleep, Stages, Lambdas
<1>4. NoThread \in [at : {"none", "list", "tell"}, todo : SUBSET Hooks]
  BY DEF NoThread
<1>5. MaxRecords \in Nat
  BY IntegrationAssumption
<1>6. /\ meta \in BOOLEAN /\ records \in 0..MaxRecords /\ stream \in 0..records
      /\ (~meta => records = 0) /\ (lambda.at # "asleep" => stream > 0)
      /\ heard \cup dead \cup hooks \subseteq Hooks
  <2>1. meta \in BOOLEAN /\ lambda.at = "asleep"
    BY <1>1, <1>2
  <2>2. records \in 0..MaxRecords /\ stream \in 0..records /\ records = 0
    BY <1>1, <1>5
  <2>3. heard \cup dead \cup hooks \subseteq Hooks
    BY <1>1
  <2>4. QED
    BY <2>1, <2>2, <2>3
<1>7. EndInv
  BY <1>1, <1>2, <1>3, <1>4, <1>6, Zenon DEF EndInv
<1>8. ReviewInv
  BY <1>1, <1>2 DEF ReviewInv
<1>9. QED
  BY <1>7, <1>8

LEMMA EndApart ==
    ASSUME EndInv, ReviewInv, UNCHANGED <<meta, records, evalVars, hookVars>>,
           review' \in {review, NoResult}, thread' \in {thread, NoThread}
    PROVE  EndInv' /\ ReviewInv'
<1>1. NoResult \in Rows
  BY DEF NoResult, Rows
<1>2. NoThread \in [at : {"none", "list", "tell"}, todo : SUBSET Hooks]
  BY DEF NoThread
<1>3. EndInv'
  BY <1>1, <1>2, Zenon DEF EndInv, evalVars, hookVars
<1>4. ReviewInv'
  BY DEF ReviewInv, evalVars, Reviewed
<1>5. QED
  BY <1>3, <1>4

\* The steps of the hooks: they touch neither the evaluation nor the review.
LEMMA HookKeeps ==
    ASSUME EndInv, ReviewInv,
           \/ ListHooks \/ TellHook \/ ThreadEnds
           \/ \E h \in Hooks : RegisterWebhook(h) \/ DeleteWebhook(h)
    PROVE  EndInv' /\ ReviewInv'
<1>1. UNCHANGED <<meta, records, evalVars, review>>
  BY DEF ListHooks, TellHook, ThreadEnds, RegisterWebhook, DeleteWebhook
<1>2. /\ thread' \in [at : {"none", "list", "tell"}, todo : SUBSET Hooks]
      /\ heard' \cup dead' \cup hooks' \subseteq Hooks
  <2>1. /\ thread \in [at : {"none", "list", "tell"}, todo : SUBSET Hooks]
        /\ heard \cup dead \cup hooks \subseteq Hooks
    BY DEF EndInv
  <2>2. CASE ListHooks \/ ThreadEnds
    BY <2>1, <2>2 DEF ListHooks, ThreadEnds, NoThread, hookVars
  <2>3. CASE TellHook
    <3>1. PICK h \in thread.todo :
             \/ /\ \E ok \in BOOLEAN : Tell(h, ok)
                /\ thread' = [thread EXCEPT !.todo = @ \ {h}]
             \/ thread' = NoThread /\ heard' \in {heard, heard \cup {h}} /\ dead' = dead
      BY <2>3 DEF TellHook
    <3>2. h \in Hooks /\ hooks' = hooks
      BY <2>1, <2>3 DEF TellHook
    <3>3. heard' \cup dead' \cup hooks' \subseteq Hooks
      BY <2>1, <3>1, <3>2 DEF Tell
    <3>4. thread' \in [at : {"none", "list", "tell"}, todo : SUBSET Hooks]
      BY <2>1, <3>1 DEF NoThread
    <3>5. QED
      BY <3>3, <3>4
  <2>4. CASE \E h \in Hooks : RegisterWebhook(h) \/ DeleteWebhook(h)
    BY <2>1, <2>4 DEF RegisterWebhook, DeleteWebhook
  <2>5. QED
    BY <2>2, <2>3, <2>4
<1>3. EndInv'
  BY <1>1, <1>2, Zenon DEF EndInv, evalVars
<1>4. ReviewInv'
  BY <1>1 DEF ReviewInv, evalVars, Reviewed
<1>5. QED
  BY <1>3, <1>4

LEMMA CompletionKeeps ==
    ASSUME EndInv, ReviewInv, Completes \/ CompletesAgain
    PROVE  EndInv' /\ ReviewInv'
<1>1. UNCHANGED <<lambda, res, past, review, hookVars>>
  BY DEF Completes, CompletesAgain
<1>2. /\ meta' \in BOOLEAN /\ records' \in 0..MaxRecords /\ stream' \in 0..records'
      /\ (~meta' => records' = 0) /\ (lambda.at # "asleep" => stream' > 0)
  <2>1. MaxRecords \in Nat \ {0}
    BY IntegrationAssumption
  <2>2. CASE Completes
    BY <2>1, <2>2 DEF Completes, EndInv
  <2>3. CASE CompletesAgain
    BY <2>1, <2>3 DEF CompletesAgain, EndInv
  <2>4. QED
    BY <2>2, <2>3
<1>3. thread' \in [at : {"none", "list", "tell"}, todo : SUBSET Hooks]
  BY DEF Completes, CompletesAgain, EndInv
<1>4. EndInv'
  BY <1>1, <1>2, <1>3, Zenon DEF EndInv, hookVars
<1>5. ReviewInv'
  BY <1>1 DEF ReviewInv, Reviewed
<1>6. QED
  BY <1>4, <1>5

\* A Lambda's step; it goes on to write only what saw no review.
LEMMA LambdaKeeps ==
    ASSUME EndInv, ReviewInv, Invoke \/ LambdaSteps \/ Killed
    PROVE  EndInv' /\ ReviewInv'
<1>1. /\ UNCHANGED <<meta, records, review, thread, hookVars>>
      /\ lambda \in Lambdas /\ stream \in 0..records /\ records \in Nat
      /\ res \in Rows /\ past \subseteq Rows
  <2>1. UNCHANGED <<meta, records, review, thread, hookVars>>
    BY DEF Invoke, LambdaSteps, Killed, Score, ReadResult, WriteResult, TellSubscribers,
       RecordDone, Lambda
  <2>2. MaxRecords \in Nat
    BY IntegrationAssumption
  <2>3. QED
    BY <2>1, <2>2 DEF EndInv
<1>2. /\ Asleep \in Lambdas /\ Asleep.at = "asleep"
      /\ \A x \in Stages : [Asleep EXCEPT !.at = x] \in Lambdas /\ [Asleep EXCEPT !.at = x].at = x
  BY DEF Asleep, Stages, Lambdas, Rows, NoResult
<1>3. Verdict \in Rows
  BY <1>1 DEF Verdict, Rows, Lambdas
<1>4. After \in Stages /\ After # "write" /\ After # "asleep"
  BY DEF After, Stages
<1>5. ReadResult => \/ lambda' = [Asleep EXCEPT !.at = After]
                    \/ \E row \in Rows : /\ ~Reviewed(row)
                                         /\ lambda' = [lambda EXCEPT !.at = "write", !.saw = row]
  BY <1>1 DEF ReadResult
<1>6. lambda' \in Lambdas
  <2>1. CASE Killed \/ RecordDone
    BY <1>2, <2>1 DEF Killed, RecordDone
  <2>2. CASE Invoke \/ Score \/ TellSubscribers
    BY <1>1, <2>2 DEF Invoke, Score, TellSubscribers, Stages, Lambdas
  <2>3. CASE WriteResult
    <3>1. "done" \in Stages
      BY DEF Stages
    <3>2. QED
      BY <1>2, <1>4, <2>3, <3>1, Zenon DEF WriteResult
  <2>4. CASE ReadResult
    <3>1. CASE lambda' = [Asleep EXCEPT !.at = After]
      BY <1>2, <1>4, <3>1, Zenon
    <3>2. CASE \E row \in Rows : lambda' = [lambda EXCEPT !.at = "write", !.saw = row]
      BY <1>1, <3>2 DEF Stages, Lambdas
    <3>3. QED
      BY <1>5, <2>4, <3>1, <3>2
  <2>5. QED
    BY <2>1, <2>2, <2>3, <2>4 DEF LambdaSteps
<1>7. /\ stream' \in 0..records' /\ (lambda'.at # "asleep" => stream' > 0)
  <2>1. CASE Killed
    BY <1>1, <1>2, <2>1 DEF Killed
  <2>2. CASE RecordDone
    BY <1>1, <1>2, <2>2 DEF RecordDone, Lambda, EndInv
  <2>3. CASE Invoke
    BY <1>1, <2>3 DEF Invoke, Lambda
  <2>4. CASE Score \/ ReadResult \/ WriteResult \/ TellSubscribers
    BY <1>1, <2>4 DEF Score, ReadResult, WriteResult, TellSubscribers, Lambda, EndInv
  <2>5. QED
    BY <2>1, <2>2, <2>3, <2>4 DEF LambdaSteps
<1>8. res' \in Rows /\ past' \subseteq Rows
  <2>1. (res' = res /\ past' = past) \/ Put(Verdict)
    BY DEF Invoke, LambdaSteps, Killed, Score, ReadResult, WriteResult, TellSubscribers,
       RecordDone
  <2>2. QED
    BY <1>1, <1>3, <2>1 DEF Put
<1>9. EndInv'
  BY <1>1, <1>6, <1>7, <1>8, Zenon DEF EndInv, hookVars
<1>10. lambda'.at = "write" => ~Reviewed(lambda'.saw)
  <2>1. CASE Killed \/ RecordDone
    BY <1>2, <2>1 DEF Killed, RecordDone
  <2>2. CASE Invoke \/ Score \/ TellSubscribers
    BY <1>1, <2>2 DEF Invoke, Score, TellSubscribers, Lambdas
  <2>3. CASE WriteResult
    <3>1. "done" \in Stages
      BY DEF Stages
    <3>2. lambda'.at # "write"
      BY <1>2, <1>4, <2>3, <3>1 DEF WriteResult
    <3>3. QED
      BY <3>2
  <2>4. CASE ReadResult
    <3>1. CASE lambda' = [Asleep EXCEPT !.at = After]
      BY <1>2, <1>4, <3>1
    <3>2. CASE \E row \in Rows : /\ ~Reviewed(row)
                                 /\ lambda' = [lambda EXCEPT !.at = "write", !.saw = row]
      BY <1>1, <3>2 DEF Lambdas
    <3>3. QED
      BY <1>5, <2>4, <3>1, <3>2
  <2>5. QED
    BY <2>1, <2>2, <2>3, <2>4 DEF LambdaSteps
<1>11. ReviewInv'
  BY <1>1, <1>10 DEF ReviewInv, Reviewed
<1>12. QED
  BY <1>9, <1>11

LEMMA ReviewKeeps ==
    ASSUME EndInv, ReviewInv, ReadForReview \/ WriteReview
    PROVE  EndInv' /\ ReviewInv'
<1>1. /\ UNCHANGED <<meta, records, stream, lambda, thread, hookVars>>
      /\ res \in Rows /\ past \subseteq Rows /\ review \in Rows
  BY DEF ReadForReview, WriteReview, Reviewing, EndInv
<1>2. NoResult \in Rows
  BY DEF NoResult, Rows
<1>3. CASE ReadForReview
  <2>1. PICK row \in Rows : review' = [row EXCEPT !.review = "reviewed"]
    BY <1>1, <1>3 DEF ReadForReview
  <2>2. review' \in Rows /\ Reviewed(review')
    BY <2>1 DEF Rows, Reviewed
  <2>3. res' = res /\ past' = past
    BY <1>3 DEF ReadForReview
  <2>4. EndInv'
    BY <1>1, <2>2, <2>3, Zenon DEF EndInv, hookVars
  <2>5. ReviewInv'
    BY <1>1, <2>2, <2>3 DEF ReviewInv, Reviewed
  <2>6. QED
    BY <2>4, <2>5
<1>4. CASE WriteReview
  <2>1. res' = review /\ past' = past \cup {res} /\ review' = NoResult
    BY <1>4 DEF WriteReview, Put
  <2>2. past' \subseteq Rows
    BY <1>1, <2>1
  <2>3. EndInv'
    BY <1>1, <1>2, <2>1, <2>2, Zenon DEF EndInv, hookVars
  <2>4. ReviewInv'
    BY <1>1, <2>1 DEF ReviewInv, Reviewed
  <2>5. QED
    BY <2>3, <2>4
<1>5. QED
  BY <1>3, <1>4

LEMMA EndStep ==
    ASSUME EndInv, ReviewInv, [Next]_vars
    PROVE  EndInv' /\ ReviewInv'
<1>1. CASE \/ \E r \in Requests :
                \/ Request(r) \/ Claim(r) \/ Answer(r) \/ PutSession(r) \/ Launch(r)
                \/ Save(r) \/ Delete(r)
           \/ Crash \/ UNCHANGED vars
  <2>1. UNCHANGED <<meta, records, evalVars, hookVars>>
    BY <1>1 DEF Request, Claim, Answer, PutSession, Launch, Save, Delete, Crash, Launching, vars
  <2>2. review' \in {review, NoResult} /\ thread' \in {thread, NoThread}
    BY <1>1 DEF Request, Claim, Answer, PutSession, Launch, Save, Delete, Crash, Launching, vars
  <2>3. QED
    BY <2>1, <2>2, EndApart
<1>2. QED
  BY <1>1, HookKeeps, CompletionKeeps, LambdaKeeps, ReviewKeeps DEF Next

-------------------------------------------------------------------------------
(* The theorems                                                            *)

LEMMA IntegrationInv ==
    ASSUME IsFiniteSet(Requests)
    PROVE  Spec => [](LaunchInv /\ EndInv /\ ReviewInv)
<1>1. Init => LaunchInv /\ EndInv /\ ReviewInv
  BY LaunchInit, EndInit
<1>2. LaunchInv /\ EndInv /\ ReviewInv /\ [Next]_vars => (LaunchInv /\ EndInv /\ ReviewInv)'
  BY LaunchStep, EndStep
<1>3. QED
  BY <1>1, <1>2, PTL DEF Spec

\* Type correctness, for any finite set of requests under way: a saved key names a
\* session that was put.
THEOREM LaunchesTypeCorrect == ASSUME IsFiniteSet(Requests) PROVE Spec => []TypeOK
<1>1. ASSUME LaunchInv, EndInv PROVE TypeOK
  <2>1. Cardinality(ToWrite) \in Nat
    BY ToWriteFinite
  <2>2. sessions \in 0..tries
    BY <1>1, <2>1, IntegrationAssumption DEF LaunchInv, LaunchTyped
  <2>3. answers \subseteq 1..sessions
    BY <1>1 DEF LaunchInv, LaunchTyped, KeyInv
  <2>4. key.st \in {"free", "claimed", "saved"}
    BY <1>1 DEF LaunchInv, LaunchTyped
  <2>5. IF key.st = "saved" THEN key.s \in 1 .. sessions ELSE key.s = None
    BY <1>1 DEF LaunchInv, LaunchTyped
  <2>6. /\ res.score \in Scores \cup {"none", "error"}
        /\ res.review \in {"none", "pending", "reviewed"}
    BY <1>1 DEF EndInv, Rows
  <2>7. thread.todo \cup heard \cup dead \cup hooks \subseteq Hooks
    BY <1>1 DEF EndInv
  <2>8. QED
    BY <1>1, <2>2, <2>3, <2>4, <2>5, <2>6, <2>7 DEF LaunchInv, LaunchTyped, EndInv, TypeOK
<1>2. QED
  BY <1>1, IntegrationInv, PTL

\* Every answer under a key names the same session, and without a fault a key that
\* nobody works on is free or saved.
THEOREM RetriesFindTheSession ==
    ASSUME IsFiniteSet(Requests) PROVE Spec => []OneSessionPerKey
<1>1. ASSUME LaunchInv PROVE OneSessionPerKey
  BY <1>1 DEF LaunchInv, KeyInv, OneSessionPerKey, Computes
<1>2. QED
  BY <1>1, IntegrationInv, PTL

\* What a person has approved or changed is replaced only by an evaluation that had
\* read another row: one that saw the review leaves it, and so does another review.
THEOREM ReviewsAreKept ==
    ASSUME IsFiniteSet(Requests) PROVE Spec => ReviewIsFinal
<1>1. EndInv /\ ReviewInv /\ [Next]_vars
        => (Reviewed(res) /\ ~Reviewed(res') => lambda.at = "write" /\ lambda.saw # res)
  <2> SUFFICES ASSUME EndInv, ReviewInv, [Next]_vars, Reviewed(res), ~Reviewed(res')
               PROVE  lambda.at = "write" /\ lambda.saw # res
    OBVIOUS
  <2>1. ~WriteReview
    BY DEF WriteReview, Put, ReviewInv
  <2>2. res' = res \/ WriteReview \/ WriteResult
    BY DEF Next, vars, evalVars, Request, Claim, Answer, PutSession, Launch, Save, Delete,
       Crash, Launching, Completes, CompletesAgain, RegisterWebhook, DeleteWebhook, ListHooks,
       TellHook, ThreadEnds, Invoke, LambdaSteps, Killed, Score, ReadResult, TellSubscribers,
       RecordDone, ReadForReview
  <2>3. lambda.at = "write"
    BY <2>1, <2>2 DEF WriteResult, Lambda
  <2>4. QED
    BY <2>3 DEF ReviewInv
<1>2. QED
  BY <1>1, IntegrationInv, PTL DEF Spec, ReviewIsFinal

(***************************************************************************)
(* Transcripts: lines are numbered in the order of their moments; a write  *)
(* and a row are of a line, and what is being corrected was shown.         *)
(***************************************************************************)

LinesInOrder ==
    /\ \A l \in said : l.seq < transcriptSeq /\ l.at <= now
    /\ \A l, m \in said : /\ l.seq = m.seq => l = m
                          /\ l.seq < m.seq => l.at <= m.at

IsOf(r, l) == l.seq = r.seq /\ l.by = r.by /\ l.at = r.at /\ l.question = r.question

WritesAreLines ==
    /\ \A p \in puts \cup rows : \E l \in said : IsOf(p, l)
    /\ \A r, s \in rows : r.at = s.at => r = s

CallsAreOfLines ==
    /\ IsFiniteSet(fixing) /\ IsFiniteSet(judging)
    /\ \A j \in judging : j.line \in said
    /\ \A l \in fixing : /\ l \in said /\ l.by = "user" /\ ~l.quiet
                         /\ over \/ [seq |-> l.seq, fixed |-> FALSE] \in shown

BarIsTimely ==
    untilMs > 0 => \E j \in verdict : /\ untilMs <= j.line.at + CorrelationMs + LoweredMs
                                      /\ forCursor = j.fireCursor

TranscriptInv ==
    /\ TranscriptTypeOK /\ LinesInOrder /\ WritesAreLines /\ CallsAreOfLines
    /\ CorrectionsAreSeen /\ CallsAreCounted /\ BarIsTimely

BarConfig == CorrelationMs \in Int /\ LoweredMs \in Int

LEMMA TranscriptInitOK == ASSUME TranscriptInit PROVE TranscriptInv
<1> USE DEF TranscriptInit
<1>1. TranscriptTypeOK /\ LinesInOrder
  <2>1. LinesInOrder /\ said \subseteq Lines /\ shown \subseteq Frames
    BY DEF LinesInOrder
  <2>2. /\ puts \subseteq RowWrites /\ rows \subseteq RowWrites /\ fixing \subseteq Lines
        /\ judging \cup verdict \subseteq Calls
    OBVIOUS
  <2>3. /\ over \in BOOLEAN /\ sounding \in BOOLEAN /\ halted \in BOOLEAN /\ guarded \in BOOLEAN
    OBVIOUS
  <2>4. now \in Nat /\ transcriptSeq \in Nat /\ untilMs \in Int
    OBVIOUS
  <2>5. cursor \in Nat \cup {-1} /\ forCursor \in Nat \cup {-1}
    OBVIOUS
  <2> QED BY <2>1, <2>2, <2>5, <2>3, <2>4 DEF TranscriptTypeOK
<1>2. WritesAreLines /\ BarIsTimely /\ CorrectionsAreSeen
  BY DEF WritesAreLines, BarIsTimely, CorrectionsAreSeen
<1>3. CallsAreOfLines /\ CallsAreCounted
  BY FS_EmptySet DEF CallsAreOfLines, CallsAreCounted, FixerMaxInFlight
<1> QED BY <1>1, <1>3, <1>2 DEF TranscriptInv

\* A new line is a line, has the last number, and is not older than any.
LEMMA NewLine ==
    ASSUME TranscriptTypeOK, LinesInOrder, NEW by \in {"user", "ai"}, NEW blank \in BOOLEAN,
           NEW q \in {NoQuestion} \cup 0..cursor
    PROVE  LET l == Line(by, q, blank)
           IN  /\ l \in Lines /\ l.seq = transcriptSeq /\ l.by = by /\ l.at = now
               /\ l.quiet = (by = "user" /\ guarded) /\ l.blank = blank
               /\ l \notin said
<1> DEFINE ln == Line(by, q, blank)
<1>1. q \in Nat \cup {NoQuestion}
  <2>1. CASE cursor \in Nat
    BY <2>1
  <2>2. CASE cursor = -1
    BY <2>2 DEF NoQuestion
  <2> QED BY <2>1, <2>2 DEF TranscriptTypeOK
<1>2. ln \in Lines
  BY <1>1, Zenon DEF Line, Lines, TranscriptTypeOK
<1>3. /\ ln.seq = transcriptSeq /\ ln.by = by /\ ln.at = now
      /\ ln.quiet = (by = "user" /\ guarded) /\ ln.blank = blank
  BY Zenon DEF Line
<1>4. ln \notin said
  <2>1. \A l \in said : l.seq < transcriptSeq
    BY DEF LinesInOrder
  <2>2. transcriptSeq \in Nat
    BY DEF TranscriptTypeOK
  <2> HIDE DEF ln
  <2> QED BY <2>1, <2>2, <1>3
<1> QED BY <1>2, <1>3, <1>4

\* What becomes of the lines when there is a new one.
LEMMA LinesKept ==
    ASSUME TranscriptTypeOK, LinesInOrder, NEW l \in Lines,
           l.seq = transcriptSeq, l.at = now, said' = said \cup {l},
           transcriptSeq' = transcriptSeq + 1, now' = now
    PROVE  LinesInOrder' /\ said' \subseteq Lines /\ transcriptSeq' \in Nat
<1>1. transcriptSeq \in Nat /\ now \in Nat /\ said \subseteq Lines
  BY DEF TranscriptTypeOK
<1>2. \A m \in said : m.seq \in Nat /\ m.at \in Nat
  BY <1>1 DEF Lines
<1>3. \A m \in said' : m = l \/ m \in said
  OBVIOUS
<1>4. \A m \in said : m.seq < transcriptSeq /\ m.at <= now
  BY DEF LinesInOrder
<1>5. \A m \in said' : m.seq < transcriptSeq' /\ m.at <= now'
  BY <1>1, <1>2, <1>3, <1>4
<1>6. ASSUME NEW m \in said', NEW n \in said'
      PROVE  /\ m.seq = n.seq => m = n
             /\ m.seq < n.seq => m.at <= n.at
  <2>1. CASE m \in said /\ n \in said
    BY <2>1 DEF LinesInOrder
  <2>2. CASE m = l /\ n \in said
    BY <2>2, <1>1, <1>2, <1>4
  <2>3. CASE m \in said /\ n = l
    BY <2>3, <1>1, <1>2, <1>4
  <2>4. CASE m = l /\ n = l
    BY <2>4, <1>1
  <2> QED BY <2>1, <2>2, <2>3, <2>4, <1>3
<1> QED BY <1>1, <1>5, <1>6 DEF LinesInOrder

\* A write that is begun is of its line.
LEMMA PutIsOfLine ==
    ASSUME TranscriptTypeOK, WritesAreLines, NEW l \in Lines, l \in said', said \subseteq said',
           NEW fixed \in BOOLEAN, PutFinal(l, fixed), rows' = rows
    PROVE  /\ WritesAreLines' /\ puts' \subseteq RowWrites
           /\ \A p \in puts' : \/ p \in puts
                               \/ p.fixed = fixed /\ p.seq = l.seq
<1> DEFINE w == [seq |-> l.seq, by |-> l.by, at |-> l.at, question |-> l.question,
                 fixed |-> fixed]
<1>1. w \in RowWrites
  <2>1. /\ l.seq \in Nat /\ l.by \in {"user", "ai"} /\ l.at \in Nat
        /\ l.question \in Nat \cup {NoQuestion}
    BY DEF Lines
  <2> QED BY <2>1, Zenon DEF RowWrites
<1>2. w.fixed = fixed /\ w.seq = l.seq /\ w.by = l.by /\ w.at = l.at /\ w.question = l.question
  BY Zenon
<1>3. puts' = puts \/ puts' = puts \cup {w}
  BY DEF PutFinal
<1> HIDE DEF w
<1>4. IsOf(w, l)
  BY <1>2 DEF IsOf
<1>5. \A p \in puts' \cup rows' : \E m \in said' : IsOf(p, m)
  BY <1>3, <1>4 DEF WritesAreLines
<1>6. \A r, s \in rows' : r.at = s.at => r = s
  BY DEF WritesAreLines
<1>7. WritesAreLines'
  BY <1>5, <1>6 DEF WritesAreLines, IsOf
<1> QED BY <1>1, <1>2, <1>3, <1>7 DEF TranscriptTypeOK

\* Nothing that is said is taken back.
LEMMA WritesKept ==
    ASSUME WritesAreLines, said \subseteq said', puts' = puts, rows' = rows PROVE WritesAreLines'
BY DEF WritesAreLines, IsOf

LEMMA EmitIsTyped ==
    ASSUME TranscriptTypeOK, NEW s \in Nat, NEW fixed \in BOOLEAN, Emit(s, fixed)
    PROVE  /\ shown' \subseteq Frames /\ shown \subseteq shown'
           /\ over \/ [seq |-> s, fixed |-> fixed] \in shown'
           /\ \A f \in shown' : \/ f \in shown
                                \/ f.seq = s /\ f.fixed = fixed
<1>1. [seq |-> s, fixed |-> fixed] \in Frames
  BY Zenon DEF Frames
<1>2. [seq |-> s, fixed |-> fixed].seq = s /\ [seq |-> s, fixed |-> fixed].fixed = fixed
  BY Zenon
<1> QED BY <1>1, <1>2 DEF Emit, TranscriptTypeOK

LEMMA CallBegins ==
    ASSUME NEW S, IsFiniteSet(S), NEW n, n = Cardinality(S), n < FixerMaxInFlight, NEW x, x \notin S
    PROVE  /\ IsFiniteSet(S \cup {x}) /\ n + 1 = Cardinality(S \cup {x})
           /\ n + 1 <= FixerMaxInFlight
BY FS_AddElement, FS_CardinalityType DEF FixerMaxInFlight

LEMMA CallReturns ==
    ASSUME NEW S, IsFiniteSet(S), NEW n, n = Cardinality(S), n <= FixerMaxInFlight, NEW x \in S
    PROVE  /\ IsFiniteSet(S \ {x}) /\ n - 1 = Cardinality(S \ {x})
           /\ n - 1 <= FixerMaxInFlight
BY FS_RemoveElement, FS_CardinalityType DEF FixerMaxInFlight

\* What is shown is shown of a line; a correction that is stored was shown.
LEMMA SeenKept ==
    ASSUME CorrectionsAreSeen, said \subseteq said', shown \subseteq shown',
           \A r \in rows' : r \in rows \cup puts,
           \A p \in puts' : \/ p \in puts
                            \/ p.fixed => [seq |-> p.seq, fixed |-> TRUE] \in shown',
           \A f \in shown' : \/ f \in shown
                             \/ f.fixed =>
                                  /\ [seq |-> f.seq, fixed |-> FALSE] \in shown'
                                  /\ \E l \in said' : l.seq = f.seq /\ l.by = "user" /\ ~l.quiet
    PROVE  CorrectionsAreSeen'
<1>1. \A r \in rows' \cup puts' : r.fixed => [seq |-> r.seq, fixed |-> TRUE] \in shown'
  BY DEF CorrectionsAreSeen
<1>2. \A f \in shown' : f.fixed =>
          /\ [seq |-> f.seq, fixed |-> FALSE] \in shown'
          /\ \E l \in said' : l.seq = f.seq /\ l.by = "user" /\ ~l.quiet
  BY DEF CorrectionsAreSeen
<1> QED BY <1>1, <1>2 DEF CorrectionsAreSeen

\* The steps that hand on no line and end no call.
Aside ==
    /\ UNCHANGED <<said, shown, puts, rows, transcriptSeq>>
    /\ UNCHANGED <<fixing, fixerInFlight, judging, eouInFlight>>
    /\ now' \in Nat /\ now <= now' /\ over' \in BOOLEAN /\ (over => over')
    /\ cursor' \in Nat \cup {-1}
    /\ sounding' \in BOOLEAN /\ halted' \in BOOLEAN /\ guarded' \in BOOLEAN
    /\ \/ UNCHANGED <<untilMs, forCursor, verdict>>
       \/ untilMs' = 0 /\ forCursor' = -1 /\ verdict' = verdict

LEMMA AsideKeeps == ASSUME TranscriptInv, Aside PROVE TranscriptInv'
<1> USE DEF TranscriptInv, Aside
<1>1. TranscriptTypeOK'
  <2>1. untilMs' \in Int /\ forCursor' \in Nat \cup {-1}
    BY DEF TranscriptTypeOK
  <2>2. /\ transcriptSeq' \in Nat /\ said' \subseteq Lines /\ shown' \subseteq Frames
        /\ puts' \subseteq RowWrites /\ rows' \subseteq RowWrites /\ fixing' \subseteq Lines
        /\ judging' \cup verdict' \subseteq Calls
    BY DEF TranscriptTypeOK
  <2> QED BY <2>1, <2>2 DEF TranscriptTypeOK
<1>2. LinesInOrder'
  <2>1. \A l \in said : l.at \in Nat /\ l.at <= now
    BY DEF LinesInOrder, TranscriptTypeOK, Lines
  <2>2. \A l \in said' : l.seq < transcriptSeq' /\ l.at <= now'
    BY <2>1 DEF LinesInOrder, TranscriptTypeOK
  <2> QED BY <2>2 DEF LinesInOrder
<1>3. WritesAreLines'
  BY WritesKept
<1>4. CallsAreOfLines' /\ CorrectionsAreSeen' /\ CallsAreCounted'
  BY DEF CallsAreOfLines, CorrectionsAreSeen, CallsAreCounted
<1>5. BarIsTimely'
  BY DEF BarIsTimely
<1> QED BY <1>1, <1>2, <1>3, <1>4, <1>5

LEMMA UserFinalKeeps ==
    ASSUME TranscriptInv, NEW q \in {NoQuestion} \cup 0..cursor, NEW blank \in BOOLEAN,
           UserFinal(q, blank)
    PROVE  TranscriptInv'
<1> DEFINE ln == Line("user", q, blank)
<1> USE DEF TranscriptInv
<1>1. /\ ln \in Lines /\ ln.seq = transcriptSeq /\ ln.by = "user" /\ ln.at = now
      /\ ln.quiet = guarded /\ ln.blank = blank /\ ln \notin said
  BY NewLine DEF TranscriptTypeOK
<1>2. /\ said' = said \cup {ln} /\ PutFinal(ln, FALSE) /\ Correct(ln) /\ Judge(ln)
      /\ IF guarded THEN UNCHANGED shown ELSE Emit(ln.seq, FALSE)
      /\ transcriptSeq' = transcriptSeq + 1
      /\ UNCHANGED <<aboutVars, rows, barVars>>
  BY DEF UserFinal
<1> HIDE DEF ln
<1>3. UNCHANGED <<now, over, cursor, sounding, halted, guarded, rows, untilMs, forCursor, verdict>>
  BY <1>2 DEF aboutVars, barVars
<1>4. LinesInOrder' /\ said' \subseteq Lines /\ transcriptSeq' \in Nat
  BY <1>1, <1>2, <1>3, LinesKept
<1>5. /\ WritesAreLines' /\ puts' \subseteq RowWrites
      /\ \A p \in puts' : p \in puts \/ ~p.fixed
  BY <1>1, <1>2, <1>3, PutIsOfLine
<1>6. /\ shown' \subseteq Frames /\ shown \subseteq shown'
      /\ \A f \in shown' : f \in shown \/ ~f.fixed
      /\ guarded \/ over \/ [seq |-> ln.seq, fixed |-> FALSE] \in shown'
  <2>1. CASE guarded
    BY <2>1, <1>2 DEF TranscriptTypeOK
  <2>2. CASE ~guarded
    <3>1. Emit(ln.seq, FALSE) /\ ln.seq \in Nat
      BY <2>2, <1>1, <1>2 DEF TranscriptTypeOK
    <3> QED BY <3>1, EmitIsTyped
  <2> QED BY <2>1, <2>2
<1>7. /\ fixing' \subseteq Lines /\ IsFiniteSet(fixing')
      /\ fixerInFlight' = Cardinality(fixing') /\ fixerInFlight' <= FixerMaxInFlight
      /\ \A l \in fixing' : l \in fixing \/ (l = ln /\ ~ln.quiet)
  <2>1. CASE MayCorrect(ln)
    <3>1. fixing' = fixing \cup {ln} /\ fixerInFlight' = fixerInFlight + 1
      BY <2>1, <1>2 DEF Correct
    <3>2. ln \notin fixing
      BY <1>1 DEF CallsAreOfLines
    <3>3. fixerInFlight < FixerMaxInFlight /\ ~ln.quiet
      BY <2>1 DEF MayCorrect
    <3>4. /\ IsFiniteSet(fixing') /\ fixerInFlight' = Cardinality(fixing')
          /\ fixerInFlight' <= FixerMaxInFlight
      BY <3>1, <3>2, <3>3, CallBegins DEF CallsAreOfLines, CallsAreCounted
    <3> QED BY <3>1, <3>3, <3>4, <1>1 DEF TranscriptTypeOK
  <2>2. CASE ~MayCorrect(ln)
    <3>1. fixing' = fixing /\ fixerInFlight' = fixerInFlight
      BY <2>2, <1>2 DEF Correct, fixVars
    <3> QED BY <3>1 DEF TranscriptTypeOK, CallsAreOfLines, CallsAreCounted
  <2> QED BY <2>1, <2>2
<1>8. /\ judging' \subseteq Calls /\ IsFiniteSet(judging')
      /\ eouInFlight' = Cardinality(judging') /\ eouInFlight' <= FixerMaxInFlight
      /\ \A j \in judging' : j \in judging \/ j.line = ln
  <2>1. CASE MayJudge(ln)
    <3> DEFINE call == [line |-> ln, fireCursor |-> cursor]
    <3>1. judging' = judging \cup {call} /\ eouInFlight' = eouInFlight + 1
      BY <2>1, <1>2 DEF Judge
    <3>2. call.line = ln /\ call \in Calls
      BY <1>1, Zenon DEF TranscriptTypeOK, Calls
    <3> HIDE DEF call
    <3>3. call \notin judging
      BY <1>1, <3>2 DEF CallsAreOfLines
    <3>4. eouInFlight < FixerMaxInFlight
      BY <2>1 DEF MayJudge
    <3>5. /\ IsFiniteSet(judging') /\ eouInFlight' = Cardinality(judging')
          /\ eouInFlight' <= FixerMaxInFlight
      BY <3>1, <3>3, <3>4, CallBegins DEF CallsAreOfLines, CallsAreCounted
    <3> QED BY <3>1, <3>2, <3>5 DEF TranscriptTypeOK
  <2>2. CASE ~MayJudge(ln)
    <3>1. judging' = judging /\ eouInFlight' = eouInFlight
      BY <2>2, <1>2 DEF Judge, judgeVars
    <3> QED BY <3>1 DEF TranscriptTypeOK, CallsAreOfLines, CallsAreCounted
  <2> QED BY <2>1, <2>2
<1>9. CallsAreOfLines'
  <2>1. \A j \in judging' : j.line \in said'
    BY <1>2, <1>8 DEF CallsAreOfLines
  <2>2. \A l \in fixing' : /\ l \in said' /\ l.by = "user" /\ ~l.quiet
                           /\ over' \/ [seq |-> l.seq, fixed |-> FALSE] \in shown'
    BY <1>1, <1>2, <1>3, <1>6, <1>7 DEF CallsAreOfLines
  <2> QED BY <2>1, <2>2, <1>7, <1>8 DEF CallsAreOfLines
<1>10. CorrectionsAreSeen'
  <2>1. said \subseteq said' /\ \A r \in rows' : r \in rows \cup puts
    BY <1>2, <1>3
  <2> QED BY <2>1, <1>5, <1>6, SeenKept
<1>11. CallsAreCounted' /\ BarIsTimely'
  BY <1>3, <1>7, <1>8 DEF CallsAreCounted, BarIsTimely
<1>12. TranscriptTypeOK'
  BY <1>3, <1>4, <1>5, <1>6, <1>7, <1>8 DEF TranscriptTypeOK
<1> QED BY <1>4, <1>5, <1>9, <1>10, <1>11, <1>12

LEMMA AiLineKeeps ==
    ASSUME TranscriptInv, NEW q \in {NoQuestion} \cup 0..cursor, NEW blank \in BOOLEAN,
           AiLine(q, blank)
    PROVE  TranscriptInv'
<1> DEFINE ln == Line("ai", q, blank)
<1> USE DEF TranscriptInv
<1>1. ln \in Lines /\ ln.seq = transcriptSeq /\ ln.at = now
  BY NewLine
<1>2. /\ said' = said \cup {ln} /\ PutFinal(ln, FALSE) /\ Emit(ln.seq, FALSE)
      /\ transcriptSeq' = transcriptSeq + 1
      /\ UNCHANGED <<aboutVars, rows, fixVars, judgeVars, barVars>>
  BY DEF AiLine
<1> HIDE DEF ln
<1>3. /\ UNCHANGED <<now, over, cursor, sounding, halted, guarded, rows, untilMs, forCursor, verdict>>
      /\ UNCHANGED <<fixing, fixerInFlight, judging, eouInFlight>>
  BY <1>2 DEF aboutVars, barVars, fixVars, judgeVars
<1>4. LinesInOrder' /\ said' \subseteq Lines /\ transcriptSeq' \in Nat
  BY <1>1, <1>2, <1>3, LinesKept
<1>5. /\ WritesAreLines' /\ puts' \subseteq RowWrites
      /\ \A p \in puts' : p \in puts \/ ~p.fixed
  BY <1>1, <1>2, <1>3, PutIsOfLine
<1>6. /\ shown' \subseteq Frames /\ shown \subseteq shown'
      /\ \A f \in shown' : f \in shown \/ ~f.fixed
  <2>1. ln.seq \in Nat
    BY <1>1 DEF TranscriptTypeOK
  <2> QED BY <2>1, <1>2, EmitIsTyped
<1>7. CallsAreOfLines' /\ CallsAreCounted' /\ BarIsTimely'
  BY <1>2, <1>3, <1>6 DEF CallsAreOfLines, CallsAreCounted, BarIsTimely
<1>8. CorrectionsAreSeen'
  <2>1. said \subseteq said' /\ \A r \in rows' : r \in rows \cup puts
    BY <1>2, <1>3
  <2> QED BY <2>1, <1>5, <1>6, SeenKept
<1>9. TranscriptTypeOK'
  BY <1>3, <1>4, <1>5, <1>6 DEF TranscriptTypeOK
<1> QED BY <1>4, <1>5, <1>7, <1>8, <1>9

LEMMA PutSettlesKeeps ==
    ASSUME TranscriptInv, NEW p \in puts, NEW landed \in BOOLEAN, PutSettles(p, landed)
    PROVE  TranscriptInv'
<1> USE DEF TranscriptInv
<1>1. /\ UNCHANGED <<now, over, cursor, sounding, halted, guarded, transcriptSeq, said, shown>>
      /\ UNCHANGED <<fixing, fixerInFlight, judging, eouInFlight, untilMs, forCursor, verdict>>
  BY DEF PutSettles, aboutVars, lineVars, fixVars, judgeVars, barVars
<1>2. /\ puts' = puts \ {p}
      /\ rows' = rows \/ rows' = {r \in rows : r.at # p.at} \cup {p}
  BY DEF PutSettles
<1>3. puts' \subseteq puts /\ \A r \in rows' : r \in rows \cup puts
  BY <1>2
<1>4. WritesAreLines'
  <2>1. \A w \in puts' \cup rows' : \E l \in said' : IsOf(w, l)
    BY <1>1, <1>3 DEF WritesAreLines
  <2>2. \A r, s \in rows' : r.at = s.at => r = s
    BY <1>2 DEF WritesAreLines
  <2> QED BY <2>1, <2>2 DEF WritesAreLines, IsOf
<1>5. CorrectionsAreSeen'
  BY <1>1, <1>3, SeenKept
<1>6. CallsAreOfLines' /\ CallsAreCounted' /\ BarIsTimely' /\ LinesInOrder'
  BY <1>1 DEF CallsAreOfLines, CallsAreCounted, BarIsTimely, LinesInOrder
<1>7. TranscriptTypeOK'
  BY <1>1, <1>3 DEF TranscriptTypeOK
<1> QED BY <1>4, <1>5, <1>6, <1>7

LEMMA FixReturnsKeeps ==
    ASSUME TranscriptInv, NEW l \in fixing, NEW outcome, NEW differs, FixReturns(l, outcome, differs)
    PROVE  TranscriptInv'
<1> USE DEF TranscriptInv
<1>1. /\ UNCHANGED <<now, over, cursor, sounding, halted, guarded, transcriptSeq, said, rows>>
      /\ UNCHANGED <<judging, eouInFlight, untilMs, forCursor, verdict>>
  BY DEF FixReturns, aboutVars, judgeVars, barVars
<1>2. fixing' = fixing \ {l} /\ fixerInFlight' = fixerInFlight - 1
  BY DEF FixReturns
<1>3. /\ l \in Lines /\ l \in said /\ l.by = "user" /\ ~l.quiet /\ l.seq \in Nat
      /\ over \/ [seq |-> l.seq, fixed |-> FALSE] \in shown
  BY DEF CallsAreOfLines, TranscriptTypeOK, Lines
<1>4. /\ WritesAreLines' /\ puts' \subseteq RowWrites /\ shown' \subseteq Frames
      /\ shown \subseteq shown' /\ CorrectionsAreSeen'
  <2>1. CASE ~over /\ Corrected(outcome, differs)
    <3>1. Emit(l.seq, TRUE) /\ PutFinal(l, TRUE)
      BY <2>1 DEF FixReturns
    <3>2. /\ WritesAreLines' /\ puts' \subseteq RowWrites
          /\ \A p \in puts' : p \in puts \/ p.seq = l.seq
      BY <3>1, <1>1, <1>3, PutIsOfLine
    <3>3. /\ shown' \subseteq Frames /\ shown \subseteq shown'
          /\ [seq |-> l.seq, fixed |-> TRUE] \in shown'
          /\ \A f \in shown' : f \in shown \/ f.seq = l.seq
      BY <3>1, <1>3, <2>1, EmitIsTyped
    <3>4. [seq |-> l.seq, fixed |-> FALSE] \in shown'
      BY <3>3, <1>3, <2>1
    <3>5. CorrectionsAreSeen'
      BY <1>1, <1>3, <3>2, <3>3, <3>4, SeenKept
    <3> QED BY <3>2, <3>3, <3>5
  <2>2. CASE ~(~over /\ Corrected(outcome, differs))
    <3>1. shown' = shown /\ puts' = puts
      BY <2>2 DEF FixReturns
    <3>2. WritesAreLines' /\ CorrectionsAreSeen'
      BY <3>1, <1>1, WritesKept, SeenKept
    <3> QED BY <3>1, <3>2 DEF TranscriptTypeOK
  <2> QED BY <2>1, <2>2
<1>5. /\ IsFiniteSet(fixing') /\ fixerInFlight' = Cardinality(fixing')
      /\ fixerInFlight' <= FixerMaxInFlight
  BY <1>2, CallReturns DEF CallsAreOfLines, CallsAreCounted
<1>6. CallsAreOfLines' /\ CallsAreCounted'
  BY <1>1, <1>2, <1>4, <1>5 DEF CallsAreOfLines, CallsAreCounted
<1>7. BarIsTimely' /\ LinesInOrder'
  BY <1>1 DEF BarIsTimely, LinesInOrder
<1>8. TranscriptTypeOK'
  BY <1>1, <1>2, <1>4 DEF TranscriptTypeOK
<1> QED BY <1>4, <1>6, <1>7, <1>8

LEMMA JudgeReturnsKeeps ==
    ASSUME BarConfig, TranscriptInv, NEW j \in judging, NEW outcome, NEW unfinished,
           JudgeReturns(j, outcome, unfinished)
    PROVE  TranscriptInv'
<1> USE DEF TranscriptInv
<1>1. /\ UNCHANGED <<now, over, cursor, sounding, halted, guarded, transcriptSeq, said, shown>>
      /\ UNCHANGED <<puts, rows, fixing, fixerInFlight>>
      /\ judging' = judging \ {j} /\ eouInFlight' = eouInFlight - 1
  BY DEF JudgeReturns, aboutVars, lineVars, storeVars, fixVars
<1>2. j \in Calls /\ j.line.at \in Nat /\ j.fireCursor \in Nat \cup {-1}
  BY DEF TranscriptTypeOK, Calls, Lines
<1>3. /\ untilMs' \in Int /\ forCursor' \in Nat \cup {-1} /\ BarIsTimely'
      /\ verdict' \subseteq Calls
  <2>1. CASE Heeded(j) /\ Incomplete(outcome, unfinished)
    <3>1. untilMs' = now + LoweredMs /\ forCursor' = j.fireCursor /\ verdict' = {j}
      BY <2>1 DEF JudgeReturns
    <3>2. now \in Nat /\ now - j.line.at <= CorrelationMs
      BY <2>1 DEF Heeded, TranscriptTypeOK
    <3>3. untilMs' \in Int /\ untilMs' <= j.line.at + CorrelationMs + LoweredMs
      BY <3>1, <3>2, <1>2 DEF BarConfig
    <3> QED BY <3>1, <3>3, <1>2 DEF BarIsTimely
  <2>2. CASE ~(Heeded(j) /\ Incomplete(outcome, unfinished))
    <3>1. UNCHANGED <<untilMs, forCursor, verdict>>
      BY <2>2 DEF JudgeReturns, barVars
    <3> QED BY <3>1 DEF BarIsTimely, TranscriptTypeOK
  <2> QED BY <2>1, <2>2
<1>4. /\ IsFiniteSet(judging') /\ eouInFlight' = Cardinality(judging')
      /\ eouInFlight' <= FixerMaxInFlight
  BY <1>1, CallReturns DEF CallsAreOfLines, CallsAreCounted
<1>5. CallsAreOfLines' /\ CallsAreCounted'
  BY <1>1, <1>4 DEF CallsAreOfLines, CallsAreCounted
<1>6. WritesAreLines' /\ CorrectionsAreSeen' /\ LinesInOrder'
  BY <1>1, WritesKept DEF CorrectionsAreSeen, LinesInOrder
<1>7. TranscriptTypeOK'
  BY <1>1, <1>3 DEF TranscriptTypeOK
<1> QED BY <1>3, <1>5, <1>6, <1>7

LEMMA TranscriptStep ==
    ASSUME BarConfig, TranscriptInv, [TranscriptNext]_transcriptVars PROVE TranscriptInv'
<1> USE DEF aboutVars, lineVars, storeVars, fixVars, judgeVars, barVars
<1>1. ASSUME Clock \/ CursorMoves \/ VoiceChanges \/ ResetTurn \/ Teardown \/ UNCHANGED transcriptVars
      PROVE  TranscriptInv'
  <2>1. /\ now \in Nat /\ over \in BOOLEAN /\ cursor \in Nat \cup {-1}
        /\ sounding \in BOOLEAN /\ halted \in BOOLEAN /\ guarded \in BOOLEAN
    BY DEF TranscriptInv, TranscriptTypeOK
  <2>2. /\ UNCHANGED <<said, shown, puts, rows, transcriptSeq>>
        /\ UNCHANGED <<fixing, fixerInFlight, judging, eouInFlight>>
    BY <1>1 DEF Clock, CursorMoves, VoiceChanges, ResetTurn, Teardown, transcriptVars
  <2>3. now' \in Nat /\ now <= now'
    BY <1>1, <2>1 DEF Clock, CursorMoves, VoiceChanges, ResetTurn, Teardown, transcriptVars
  <2>4. over' \in BOOLEAN /\ (over => over')
    <3>1. over' = over \/ over' = TRUE
      BY <1>1 DEF Clock, CursorMoves, VoiceChanges, ResetTurn, Teardown, transcriptVars
    <3> QED BY <3>1, <2>1, Zenon
  <2>5. cursor' \in Nat \cup {-1}
    BY <1>1, <2>1 DEF Clock, CursorMoves, VoiceChanges, ResetTurn, Teardown, transcriptVars
  <2>6. sounding' \in BOOLEAN /\ halted' \in BOOLEAN /\ guarded' \in BOOLEAN
    <3>1. CASE VoiceChanges
      BY <3>1, Zenon DEF VoiceChanges
    <3>2. CASE Clock \/ CursorMoves \/ Teardown \/ UNCHANGED transcriptVars
      <4>1. sounding' = sounding /\ halted' = halted /\ guarded' = guarded
        BY <3>2 DEF Clock, CursorMoves, Teardown, transcriptVars
      <4> QED BY <4>1, <2>1, Zenon
    <3>3. CASE ResetTurn
      <4>1. sounding' = sounding /\ halted' = FALSE /\ guarded' = guarded
        BY <3>3 DEF ResetTurn
      <4> QED BY <4>1, <2>1, Zenon
    <3> QED BY <1>1, <3>1, <3>2, <3>3
  <2>7. \/ UNCHANGED <<untilMs, forCursor, verdict>>
        \/ untilMs' = 0 /\ forCursor' = -1 /\ verdict' = verdict
    BY <1>1 DEF Clock, CursorMoves, VoiceChanges, ResetTurn, Teardown, transcriptVars
  <2>8. Aside
    BY <2>2, <2>3, <2>5, <2>7, <2>6, <2>4, Zenon DEF Aside
  <2> QED BY <2>8, AsideKeeps
<1> QED BY <1>1, UserFinalKeeps, AiLineKeeps, PutSettlesKeeps, FixReturnsKeeps, JudgeReturnsKeeps
      DEF TranscriptNext

LEMMA TranscriptInvHolds == ASSUME BarConfig PROVE TranscriptSpec => []TranscriptInv
BY TranscriptInitOK, TranscriptStep, PTL DEF TranscriptSpec

\* What the evaluator reads is in the order in which it was said, a row for a moment,
\* and every row is of its line, corrected or not and whenever the writes arrive
\* (putFinal, with the moment and the question taken when the line ended).
THEOREM TranscriptsKeepTheOrder ==
    ASSUME BarConfig PROVE TranscriptSpec => [](RowsAreLines /\ RowsKeepTheOrder)
<1>1. ASSUME TranscriptInv PROVE RowsAreLines /\ RowsKeepTheOrder
  <2>1. RowsAreLines
    BY <1>1 DEF TranscriptInv, WritesAreLines, RowsAreLines, IsOf
  <2>2. ASSUME NEW r \in rows, NEW s \in rows
        PROVE  /\ r.seq < s.seq => r.at < s.at
               /\ r.seq = s.seq => r = s
    <3>1. PICK l \in said : IsOf(r, l)
      BY <1>1 DEF TranscriptInv, WritesAreLines
    <3>2. PICK m \in said : IsOf(s, m)
      BY <1>1 DEF TranscriptInv, WritesAreLines
    <3>3. r.seq \in Nat /\ s.seq \in Nat /\ r.at \in Nat /\ s.at \in Nat
      BY <1>1 DEF TranscriptInv, TranscriptTypeOK, RowWrites
    <3>4. r.at = s.at => r = s
      BY <1>1 DEF TranscriptInv, WritesAreLines
    <3>5. /\ l.seq = m.seq => l = m
          /\ l.seq < m.seq => l.at <= m.at
      BY <1>1 DEF TranscriptInv, LinesInOrder
    <3> QED BY <3>1, <3>2, <3>3, <3>4, <3>5 DEF IsOf
  <2> QED BY <2>1, <2>2 DEF RowsKeepTheOrder
<1> QED BY <1>1, TranscriptInvHolds, PTL

\* A correction is of a line of the candidate's that was shown, and is stored only
\* when it is shown; and there are at most four calls of a kind under way
\* (maybeCorrectTranscript, maybeJudgeEou).
THEOREM CorrectionsComeAfter ==
    ASSUME BarConfig PROVE TranscriptSpec => [](CorrectionsAreSeen /\ CallsAreCounted)
<1>1. TranscriptInv => CorrectionsAreSeen /\ CallsAreCounted
  BY DEF TranscriptInv
<1> QED BY <1>1, TranscriptInvHolds, PTL

\* A late verdict lowers the bar of an interruption neither long after its line nor
\* for another question (maybeJudgeEou, detectBargeIn).
THEOREM TheBarIsLoweredInTime == ASSUME BarConfig PROVE TranscriptSpec => []LoweringIsTimely
<1>1. ASSUME TranscriptInv, BarConfig PROVE LoweringIsTimely
  <2>1. SUFFICES ASSUME Lowered
                 PROVE  \E j \in verdict : /\ now < j.line.at + CorrelationMs + LoweredMs
                                           /\ j.fireCursor < 0 \/ cursor = j.fireCursor
    BY DEF LoweringIsTimely
  <2>2. PICK j \in verdict : /\ untilMs <= j.line.at + CorrelationMs + LoweredMs
                             /\ forCursor = j.fireCursor
    BY <1>1, <2>1 DEF TranscriptInv, BarIsTimely, Lowered
  <2>3. j.line.at \in Int /\ j.fireCursor \in Int
    BY <1>1 DEF TranscriptInv, TranscriptTypeOK, Calls, Lines
  <2>4. now \in Int /\ untilMs \in Int
    BY <1>1 DEF TranscriptInv, TranscriptTypeOK
  <2>5. now < j.line.at + CorrelationMs + LoweredMs
    BY <2>1, <2>2, <2>3, <2>4, <1>1 DEF BarConfig, Lowered
  <2> QED BY <2>1, <2>2, <2>5 DEF Lowered
<1> QED BY <1>1, TranscriptInvHolds, PTL

\* Whatever comes back after the end changes nothing that can be seen (emitTransport,
\* and the checks of closed in both calls).
THEOREM NothingIsCorrectedAfterTheEnd == ASSUME BarConfig PROVE TranscriptSpec => OverIsQuiet
<1>1. ASSUME TranscriptInv, [TranscriptNext]_transcriptVars, over
      PROVE  /\ shown' = shown
             /\ \A p \in puts' \ puts : ~p.fixed
             /\ untilMs' # untilMs => untilMs' = 0
  <2> USE DEF lineVars, storeVars, barVars
  <2>1. ASSUME NEW q \in {NoQuestion} \cup 0..cursor, NEW blank \in BOOLEAN,
               UserFinal(q, blank) \/ AiLine(q, blank)
        PROVE  shown' = shown /\ untilMs' = untilMs /\ \A p \in puts' \ puts : ~p.fixed
    <3>1. shown' = shown /\ untilMs' = untilMs
      BY <2>1, <1>1 DEF UserFinal, AiLine, Emit
    <3>2. \E l : PutFinal(l, FALSE)
      BY <2>1 DEF UserFinal, AiLine
    <3> QED BY <3>1, <3>2 DEF PutFinal
  <2>2. ASSUME NEW p \in puts, NEW landed \in BOOLEAN, PutSettles(p, landed)
        PROVE  shown' = shown /\ untilMs' = untilMs /\ puts' \subseteq puts
    BY <2>2 DEF PutSettles
  <2>3. ASSUME NEW l \in fixing, NEW outcome, NEW differs, FixReturns(l, outcome, differs)
        PROVE  shown' = shown /\ untilMs' = untilMs /\ puts' = puts
    BY <2>3, <1>1 DEF FixReturns
  <2>4. ASSUME NEW j \in judging, NEW outcome, NEW unfinished, JudgeReturns(j, outcome, unfinished)
        PROVE  shown' = shown /\ untilMs' = untilMs /\ puts' = puts
    BY <2>4, <1>1 DEF JudgeReturns, Heeded
  <2>5. ASSUME Clock \/ CursorMoves \/ VoiceChanges \/ ResetTurn \/ Teardown
               \/ UNCHANGED transcriptVars
        PROVE  shown' = shown /\ puts' = puts /\ (untilMs' = untilMs \/ untilMs' = 0)
    BY <2>5 DEF Clock, CursorMoves, VoiceChanges, ResetTurn, Teardown, transcriptVars
  <2> QED BY <1>1, <2>1, <2>2, <2>3, <2>4, <2>5 DEF TranscriptNext
<1> QED BY <1>1, TranscriptInvHolds, PTL DEF TranscriptSpec, OverIsQuiet

===============================================================================
