------------------------------- MODULE LlmRoute -------------------------------
(***************************************************************************)
(* Which language model answers: the configuration administrators keep in  *)
(* one secret (llm_config_service.py, routers/admin_llm.py), the check and *)
(* the command made of it each time a session is made ready                *)
(* (session_service.py), the route the bridge takes from the command       *)
(* (engine-factory.ts), and the attempts of a turn, which moves to a       *)
(* fallback model only while nothing was said (fallback-llm.ts).           *)
(*                                                                         *)
(* The secret may be rewritten between any two of these steps, commands    *)
(* may overtake each other, and an engine keeps what it was made with.     *)
(***************************************************************************)
CONSTANTS Admins, Callers,   \* PUTs and make_ready calls that may overlap
          Models, NoModel,
          MantleOnly,        \* what _needs_mantle matches
          Claude,            \* what Anthropic's regional block refuses
          Recognised,        \* what _is_anthropic matches
          Hosts,
          Direct,            \* bedrock-mantle.*.api.aws
          Runtime,           \* bedrock-runtime*.amazonaws.com
          DefaultHost, DefaultModel,
          IamModel,          \* the bridge's AIM_LLM_MODEL_ID
          China,             \* the control plane's region begins with cn-
          Nothing            \* no command, no PUT under way

VARIABLES secret,    \* the configuration stored
          put,       \* per admin, what its PUT is about to write
          agent,     \* llm_model_id of the session's agent snapshot
          ready,     \* per caller, the command on its way to the bridge
          context,   \* the command the bridge holds for the session
          engine,    \* the command the engine was made with
          turn       \* the turn's attempts

routeVars == <<secret, put, agent, ready, context, engine, turn>>

-----------------------------------------------------------------------------
(* The configuration *)

Configs == [enabled : BOOLEAN, method : {"mantle", "bedrock_converse"},
            host : Hosts, models : SUBSET Models, default : Models,
            fallback : SUBSET Models, token : BOOLEAN, key : BOOLEAN]

Blank == [enabled |-> FALSE, method |-> "mantle", host |-> DefaultHost,
          models |-> {}, default |-> DefaultModel, fallback |-> {},
          token |-> FALSE, key |-> FALSE]

\* active_credential: each method has a credential of its own.
Credential(c) == IF c.method = "mantle" THEN c.token ELSE c.key
IsEnabled(c) == c.enabled /\ Credential(c)

\* The catalogue binds only when it is not empty.
InCatalog(c, m) == c.models = {} \/ m \in c.models

\* What a PUT accepts after the merge.
Valid(c) ==
    /\ InCatalog(c, c.default)
    /\ \A m \in c.fallback : InCatalog(c, m)
    /\ c.enabled => Credential(c)

\* A patch replaces any field; it cannot empty the catalogue, nor clear a
\* credential.
Merges(c) ==
    {d \in Configs : /\ d.models = {} => c.models = {}
                     /\ c.token => d.token
                     /\ c.key => d.key}

\* put_llm_config reads the secret, merges and validates ...
PutReads(a) ==
    /\ put[a] = Nothing
    /\ \E d \in Merges(secret) :
        /\ Valid(d)
        /\ put' = [put EXCEPT ![a] = d]
    /\ UNCHANGED <<secret, agent, ready, context, engine, turn>>

\* ... and writes the whole of it, whatever was written meanwhile.
PutWrites(a) ==
    /\ put[a] # Nothing
    /\ secret' = put[a]
    /\ put' = [put EXCEPT ![a] = Nothing]
    /\ UNCHANGED <<agent, ready, context, engine, turn>>

PutFails(a) ==
    /\ put[a] # Nothing
    /\ put' = [put EXCEPT ![a] = Nothing]
    /\ UNCHANGED <<secret, agent, ready, context, engine, turn>>

-----------------------------------------------------------------------------
(* Making a session ready *)

Named == agent # NoModel

\* The models a launch under configuration c would use.
Effective(c) == IF Named THEN agent ELSE c.default

\* _resolve_llm_config of a configuration that is not in force: the IAM
\* route, where it exists and can call the agent's model.
IamAccepted == ~ (Named /\ agent \in MantleOnly) /\ ~ China

\* _resolve_llm_config of one that is.
Accepted(c) ==
    /\ Named => InCatalog(c, agent)
    /\ \A m \in c.fallback : InCatalog(c, m)
    /\ China /\ c.host \in Direct =>
        \A m \in {Effective(c)} \cup c.fallback : m \notin Recognised
    /\ China /\ c.method = "bedrock_converse" =>
        c.host \notin Direct \cup Runtime /\ c.key

\* resolve_launch_command; "allowed" is history: the catalogue it was
\* checked against.
IamCommand ==
    [method |-> "mantle", token |-> FALSE, key |-> FALSE,
     host |-> DefaultHost, model |-> agent, fallback |-> {}, allowed |-> {}]

Command(c) ==
    [method |-> c.method, host |-> c.host,
     token |-> c.method = "mantle" /\ c.token,
     key |-> c.method = "bedrock_converse" /\ c.key,
     model |-> Effective(c), fallback |-> c.fallback \ {Effective(c)},
     allowed |-> c.models]

\* make_ready reads the secret once; a refusal sends nothing.
MakeReady(r) ==
    /\ ready[r] = Nothing
    /\ \/ /\ IsEnabled(secret)
          /\ Accepted(secret)
          /\ ready' = [ready EXCEPT ![r] = Command(secret)]
       \/ /\ ~ IsEnabled(secret)
          /\ IamAccepted
          /\ ready' = [ready EXCEPT ![r] = IamCommand]
    /\ UNCHANGED <<secret, put, agent, context, engine, turn>>

\* The bridge stores the command; without a model it takes its own.
PutSessionContext(r) ==
    /\ ready[r] # Nothing
    /\ context' = [ready[r] EXCEPT
                     !.model = IF @ = NoModel THEN IamModel ELSE @]
    /\ ready' = [ready EXCEPT ![r] = Nothing]
    /\ UNCHANGED <<secret, put, agent, engine, turn>>

DispatchFails(r) ==
    /\ ready[r] # Nothing
    /\ ready' = [ready EXCEPT ![r] = Nothing]
    /\ UNCHANGED <<secret, put, agent, context, engine, turn>>

ContextExpires ==
    /\ context # Nothing
    /\ context' = Nothing
    /\ UNCHANGED <<secret, put, agent, ready, engine, turn>>

-----------------------------------------------------------------------------
(* The engine and its turns *)

\* createEngine
Route(e) == IF e.method = "bedrock_converse" THEN "converse"
            ELSE IF e.token THEN "mantle" ELSE "iam"

Fallbacks(e) == IF Route(e) = "iam" THEN {} ELSE e.fallback

NoTurn == [pc |-> "idle", model |-> NoModel, tried |-> {}, pushed |-> FALSE,
           aborted |-> FALSE, used |-> NoModel, voices |-> {}]

Connect ==
    /\ context # Nothing
    /\ engine = Nothing
    /\ engine' = context
    /\ UNCHANGED <<secret, put, agent, ready, context, turn>>

Disconnect ==
    /\ engine # Nothing
    /\ engine' = Nothing
    /\ turn' = NoTurn
    /\ UNCHANGED <<secret, put, agent, ready, context>>

Attempting == turn.pc = "attempt"

Turns == engine # Nothing /\ UNCHANGED <<secret, put, agent, ready, context,
                                         engine>>

TurnStarts ==
    /\ Turns
    /\ ~ Attempting
    /\ turn' = [NoTurn EXCEPT !.pc = "attempt", !.model = engine.model,
                              !.tried = {engine.model}]

\* A token is passed on unless the caller aborted; one that was under way
\* when the attempt ran out of time still is.
TokenArrives ==
    /\ Turns
    /\ Attempting /\ ~ turn.aborted
    /\ turn' = [turn EXCEPT !.pushed = TRUE, !.voices = @ \cup {turn.model}]

\* Barge-in, or the engine's own limit on the first token.
CallerAborts ==
    /\ Turns
    /\ Attempting
    /\ turn' = [turn EXCEPT !.aborted = TRUE]

Untried == Fallbacks(engine) \ turn.tried

\* The stream ended, failed or was stopped by the timer of the attempt (which
\* the first token takes away), and there is nothing left to try or no reason
\* to.
StreamConcludes ==
    /\ Turns
    /\ Attempting /\ (turn.pushed \/ turn.aborted \/ Untried = {})
    /\ turn' = [turn EXCEPT !.pc = "over"]

\* The same without a word said: the next model, which the engine notes as
\* the one used.
StreamSwitches ==
    /\ Turns
    /\ Attempting /\ ~ turn.pushed /\ ~ turn.aborted
    /\ \E m \in Untried :
        turn' = [turn EXCEPT !.model = m, !.used = m,
                             !.tried = @ \cup {m}]

RouteInit ==
    /\ secret \in {Blank} \cup {c \in Configs : Valid(c)}
    /\ put = [a \in Admins |-> Nothing]
    /\ agent \in Models \cup {NoModel}
    /\ ready = [r \in Callers |-> Nothing]
    /\ context = Nothing
    /\ engine = Nothing
    /\ turn = NoTurn

RouteNext ==
    \/ \E a \in Admins : PutReads(a) \/ PutWrites(a) \/ PutFails(a)
    \/ \E r \in Callers : MakeReady(r) \/ PutSessionContext(r)
                          \/ DispatchFails(r)
    \/ ContextExpires \/ Connect \/ Disconnect
    \/ TurnStarts \/ TokenArrives \/ CallerAborts
    \/ StreamConcludes \/ StreamSwitches

RouteSpec == RouteInit /\ [][RouteNext]_routeVars

-----------------------------------------------------------------------------
(* What the deployment provides.  What _is_anthropic recognises is left    *)
(* open: it does not know the prefix "global.", which the configuration    *)
(* accepts (llm_config_service.py).                                        *)
RouteAssumption ==
    /\ DefaultHost \in Hosts
    /\ DefaultModel \in Models
    /\ IamModel \notin MantleOnly /\ IamModel # NoModel
    /\ NoModel \notin Models
    /\ China \in BOOLEAN

\* What the model services can answer: IAM not in China and not for the
\* models only mantle serves, Anthropic's models not from China without a
\* proxy, and nothing without its credential.
CanAnswer(e, m) ==
    CASE Route(e) = "iam" -> ~ China /\ m \notin MantleOnly
      [] Route(e) = "mantle" -> ~ (China /\ e.host \in Direct /\ m \in Claude)
      [] OTHER -> e.key /\ ~ (China /\ e.host \in Direct \cup Runtime
                                    /\ m \in Claude)

\* What the check of a launch in China lets through: a model of Anthropic's that
\* _is_anthropic does not recognise, at a host that is reached without a proxy.
Overlooked(e, m) ==
    China /\ Route(e) = "mantle" /\ e.host \in Direct /\ m \in Claude \ Recognised

\* No turn waits for a model that cannot answer it, other than one the check
\* overlooked, whatever administrators write between the check, the
\* connection and the turn
\* (_resolve_llm_config, resolve_launch_command, createEngine).
NoSilentAttempt ==
    turn.pc # "idle" =>
        CanAnswer(engine, turn.model) \/ Overlooked(engine, turn.model)

\* Every model a turn tries stood in the catalogue its session was checked
\* against (the default model is not checked again at the launch).
AttemptsAreAllowed ==
    turn.pc # "idle" /\ engine.allowed # {} => turn.model \in engine.allowed

\* What is heard in a turn comes from one model, the one the engine notes in
\* the metrics, whichever attempts time out, end, fail or are aborted.
NotedModel == IF turn.used = NoModel THEN engine.model ELSE turn.used
OneVoice == engine # Nothing => turn.voices \subseteq {NotedModel}
=============================================================================
