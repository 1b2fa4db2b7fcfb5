---------------------------- MODULE Integration ----------------------------
(***************************************************************************)
(* What an integrated system sees of the platform: it launches a session   *)
(* under an idempotency key, and is told when the session is over and when *)
(* its evaluation is ready.                                                *)
(*                                                                         *)
(*   key, req     integration_service.py idempotent around                 *)
(*                routers/integration.py _do_launch: the row of one key    *)
(*                and the requests that carry it, at one of their awaits   *)
(*   sessions     the session rows those requests have written             *)
(*   meta, stream the meta row of one of them is "completed"; the records  *)
(*                DynamoDB streams to the evaluator for it                 *)
(*   lambda, res  infrastructure/lambda/evaluator: one invocation, at one  *)
(*                of its calls, with the row it saw, and the row of the    *)
(*                evaluation; past, the rows before it, which a get_item   *)
(*                may still return, as none asks for a consistent read     *)
(*   review       routers/results.py: an administrator's review and the    *)
(*                copy of the row it merges into                           *)
(*   thread, hooks, heard, dead   events.py and dispatch_event: the daemon *)
(*                thread of session.completed, the hooks registered, those *)
(*                that heard, those written down as undeliverable          *)
(*                                                                         *)
(* The launch and the end of a session share no row: a behaviour follows   *)
(* the requests of one key or the end of one session.                      *)
(* Calls of the database are single steps; a handler awaits each.  An      *)
(* attempt to deliver is abstracted with its retries to its outcome: the   *)
(* hook heard or did not, and the sender knows or does not.                *)
(***************************************************************************)
EXTENDS Integers, Sequences, FiniteSets

CONSTANTS
    Requests,    \* requests that may be under way at a time
    Hooks,       \* webhooks that may be registered
    Faults,      \* the faults that may happen, a subset of FaultKinds
    MaxTries,    \* bound: requests sent with the key
    MaxRecords   \* bound: stream records of the session

\* The process of the control plane stops; a call of the database fails, having
\* done its work or not; a Lambda is stopped at its time limit.
FaultKinds == {"crash", "db", "kill"}

ASSUME IntegrationAssumption ==
    /\ Faults \subseteq FaultKinds
    /\ {MaxTries, MaxRecords} \subseteq Nat \ {0}

VARIABLES
    key, req, sessions, tries,
    meta, stream, records, lambda, res, past, review,
    thread, hooks, heard, dead,
    answers,   \* observer: the sessions named in successful answers
    faults     \* the faults that have happened

launchVars == <<key, req, sessions, tries, answers>>
evalVars == <<stream, lambda, res, past>>
hookVars == <<hooks, heard, dead>>
vars == <<launchVars, meta, records, evalVars, review, thread, hookVars, faults>>

None == 0                       \* no session; sessions are numbered from 1
Free == [st |-> "free", s |-> None]
Claimed == [st |-> "claimed", s |-> None]
Idle == [at |-> "idle", s |-> None]
NoThread == [at |-> "none", todo |-> {}]
NoResult == [score |-> "none", review |-> "none"]
Asleep == [at |-> "asleep", got |-> "none", saw |-> NoResult]
Scores == {"scored"}

Init ==
    /\ key = Free /\ req = [r \in Requests |-> Idle] /\ sessions = 0 /\ tries = 0
    /\ answers = {}
    /\ meta = FALSE /\ stream = 0 /\ records = 0 /\ lambda = Asleep
    /\ res = NoResult /\ past = {} /\ review = NoResult
    /\ thread = NoThread /\ hooks = {} /\ heard = {} /\ dead = {}
    /\ faults = {}

Fails(kind) == kind \in Faults \ faults /\ faults' = faults \cup {kind}

-----------------------------------------------------------------------------
(* A launch under a key                                                    *)

Goes(r, from, to) == req[r].at = from /\ req' = [req EXCEPT ![r].at = to]
Ends(r, from) == req[r].at = from /\ req' = [req EXCEPT ![r] = Idle]
Launching == UNCHANGED <<meta, records, evalVars, review, thread, hookVars>>

Request(r) ==
    /\ ~meta /\ tries < MaxTries /\ tries' = tries + 1 /\ Goes(r, "idle", "claim")
    /\ UNCHANGED <<key, sessions, answers, faults>> /\ Launching

\* Mutant of Claim: the placeholder is written without its condition.
ClaimAnyway(r) ==
    /\ Goes(r, "claim", "put") /\ key' = Claimed
    /\ UNCHANGED <<sessions, tries, answers, faults>> /\ Launching
\* claim_idempotency: the conditional put.  When its answer is lost and the
\* client of the database repeats it, it meets its own row.
Claim(r) ==
    /\ \/ key = Free /\ Goes(r, "claim", "put") /\ key' = Claimed /\ UNCHANGED faults
       \/ key = Free /\ Fails("db") /\ Goes(r, "claim", "get") /\ key' = Claimed
       \/ key # Free /\ Goes(r, "claim", "get") /\ UNCHANGED <<key, faults>>
    /\ UNCHANGED <<sessions, tries, answers>> /\ Launching

\* claim_idempotency and idempotent, of a key that was taken: its result, or 409.
Answer(r) ==
    /\ Ends(r, "get")
    /\ answers' = IF key.st = "saved" THEN answers \cup {key.s} ELSE answers
    /\ UNCHANGED <<key, sessions, tries, faults>> /\ Launching

\* _do_launch: the session row.
PutSession(r) ==
    /\ req[r].at = "put"
    /\ \/ /\ sessions' = sessions + 1
          /\ req' = [req EXCEPT ![r] = [at |-> "launch", s |-> sessions + 1]]
          /\ UNCHANGED faults
       \/ Fails("db") /\ Goes(r, "put", "delete") /\ sessions' \in {sessions, sessions + 1}
    /\ UNCHANGED <<key, tries, answers>> /\ Launching

\* launch: the meta row and the bridge, or a LaunchError, which leaves the row.
Launch(r) ==
    /\ Goes(r, "launch", "save") \/ Goes(r, "launch", "delete")
    /\ UNCHANGED <<key, sessions, tries, answers, faults>> /\ Launching

\* save_idempotency; an error of it is an error of the request.
Save(r) ==
    /\ Ends(r, "save")
    /\ \/ /\ key' = [st |-> "saved", s |-> req[r].s]
          /\ answers' = answers \cup {req[r].s} /\ UNCHANGED faults
       \/ /\ Fails("db") /\ key' \in {key, [st |-> "saved", s |-> req[r].s]}
          /\ UNCHANGED answers
    /\ UNCHANGED <<sessions, tries>> /\ Launching

\* The computation has failed: the key is free for the next request.
Delete(r) ==
    /\ Ends(r, "delete")
    /\ \/ key' = Free /\ UNCHANGED faults
       \/ Fails("db") /\ key' \in {key, Free}
    /\ UNCHANGED <<sessions, tries, answers>> /\ Launching

\* The process stops with what it was serving, its daemon threads included.
Crash ==
    /\ Fails("crash")
    /\ req' = [r \in Requests |-> Idle] /\ thread' = NoThread /\ review' = NoResult
    /\ UNCHANGED <<key, sessions, tries, answers, meta, records, evalVars, hookVars>>

-----------------------------------------------------------------------------
(* The end of a session and its event                                      *)

\* set_session_meta_status completed, and the emitter's thread.
Completes ==
    /\ ~meta /\ tries = 0
    /\ meta' = TRUE /\ stream' = stream + 1 /\ records' = records + 1
    /\ thread' = [at |-> "list", todo |-> {}]
    /\ UNCHANGED <<launchVars, lambda, res, past, review, hookVars, faults>>

\* The completed meta row is written once more (a completion that overlaps a
\* hangup), or streamed once more.
CompletesAgain ==
    /\ meta /\ records < MaxRecords
    /\ stream' = stream + 1 /\ records' = records + 1
    /\ UNCHANGED <<launchVars, meta, lambda, res, past, review, thread, hookVars, faults>>

\* register_webhook, delete_webhook; nothing reads them once they are listed.
Unlisted == ~meta \/ thread.at = "list"
RegisterWebhook(h) ==
    /\ tries = 0 /\ Unlisted /\ h \notin hooks /\ hooks' = hooks \cup {h}
    /\ UNCHANGED <<launchVars, meta, records, evalVars, review, thread, heard, dead, faults>>
DeleteWebhook(h) ==
    /\ Unlisted /\ h \in hooks /\ hooks' = hooks \ {h}
    /\ UNCHANGED <<launchVars, meta, records, evalVars, review, thread, heard, dead, faults>>

\* dispatch_event: the list of the hooks, once.
ListHooks ==
    /\ thread.at = "list"
    /\ thread' = [at |-> "tell", todo |-> hooks]
    /\ UNCHANGED <<launchVars, meta, records, evalVars, review, hookVars, faults>>

\* The hook heard or did not; what is not acknowledged is written down as dead.
Tell(h, acknowledged) ==
    /\ heard' = heard \cup {h} \/ (~acknowledged /\ heard' = heard)
    /\ dead' = IF acknowledged THEN dead ELSE dead \cup {h}

\* Mutant of TellHook: the loop ends at the first hook that cannot be reached.
TellHookOrStop ==
    /\ thread.at = "tell"
    /\ \E h \in thread.todo : \E ok \in BOOLEAN :
          /\ Tell(h, ok)
          /\ thread' = IF ok THEN [thread EXCEPT !.todo = @ \ {h}] ELSE NoThread
    /\ UNCHANGED <<launchVars, meta, records, evalVars, review, hooks, faults>>
\* dispatch_event: one hook after the other; when its dead letter cannot be
\* written either, the exception ends the loop.
TellHook ==
    /\ thread.at = "tell"
    /\ \E h \in thread.todo :
          \/ /\ \E ok \in BOOLEAN : Tell(h, ok)
             /\ thread' = [thread EXCEPT !.todo = @ \ {h}] /\ UNCHANGED faults
          \/ /\ Fails("db") /\ thread' = NoThread
             /\ heard' \in {heard, heard \cup {h}} /\ UNCHANGED dead
    /\ UNCHANGED <<launchVars, meta, records, evalVars, review, hooks>>

ThreadEnds ==
    /\ thread.at = "tell" /\ thread.todo = {} /\ thread' = NoThread
    /\ UNCHANGED <<launchVars, meta, records, evalVars, review, hookVars, faults>>

-----------------------------------------------------------------------------
(* The evaluator                                                           *)

Lambda(from) ==
    /\ lambda.at = from
    /\ UNCHANGED <<launchVars, meta, records, review, thread, hookVars>>

\* The stream invokes the Lambda with the next record, which is there until done.
Invoke ==
    /\ Lambda("asleep") /\ stream > 0
    /\ lambda' = [lambda EXCEPT !.at = "score"]
    /\ UNCHANGED <<stream, res, past, faults>>

\* Mutant of Score: a failure of the model leaves no mark.
ScoreOrNothing ==
    /\ Lambda("score")
    /\ \/ \E s \in Scores : lambda' = [lambda EXCEPT !.at = "read", !.got = s]
       \/ lambda' = [lambda EXCEPT !.at = "done"]
    /\ UNCHANGED <<stream, res, past, faults>>
\* score: the model's verdict, or a failure, which is marked in the result.
Score ==
    /\ Lambda("score")
    /\ \E s \in Scores \cup {"error"} :
          lambda' = [lambda EXCEPT !.at = "read", !.got = s]
    /\ UNCHANGED <<stream, res, past, faults>>

\* review_status approved or overridden
Reviewed(row) == row.review = "reviewed"
After == IF lambda.got = "error" THEN "done" ELSE "tell"

\* Mutant of ReadResult: whatever is there is replaced.
ReadAndReplace ==
    /\ Lambda("read")
    /\ \E row \in past \cup {res} : lambda' = [lambda EXCEPT !.at = "write", !.saw = row]
    /\ UNCHANGED <<stream, res, past, faults>>
\* write_result: what it saw that a person has reviewed is kept.
ReadResult ==
    /\ Lambda("read")
    /\ \E row \in past \cup {res} :
          lambda' = IF Reviewed(row) THEN [Asleep EXCEPT !.at = After]
                    ELSE [lambda EXCEPT !.at = "write", !.saw = row]
    /\ UNCHANGED <<stream, res, past, faults>>
Verdict == [score |-> lambda.got, review |-> "pending"]
Put(row) == res' = row /\ past' = past \cup {res}
\* The put has no condition.  Its error is one of the record: evaluate_session
\* announces nothing.
WriteResult ==
    /\ Lambda("write")
    /\ \/ /\ Put(Verdict) /\ UNCHANGED faults
          /\ lambda' = [Asleep EXCEPT !.at = After]
       \/ /\ Fails("db") /\ (Put(Verdict) \/ UNCHANGED <<res, past>>)
          /\ lambda' = [Asleep EXCEPT !.at = "done"]
    /\ UNCHANGED stream

\* _dispatch_result_ready: the subscribers are told, each several times if need
\* be; whatever goes wrong is swallowed, and nothing here reads what they heard.
TellSubscribers ==
    /\ Lambda("tell") /\ lambda' = [lambda EXCEPT !.at = "done"]
    /\ UNCHANGED <<stream, res, past, faults>>

\* on_event: the record is done with, a failure of it swallowed.
RecordDone ==
    /\ Lambda("done") /\ lambda' = Asleep /\ stream' = stream - 1
    /\ UNCHANGED <<res, past, faults>>

\* The Lambda is stopped: its record comes again, retryAttempts times.
Killed ==
    /\ lambda.at # "asleep" /\ Fails("kill")
    /\ lambda' = Asleep
    /\ UNCHANGED <<launchVars, meta, records, stream, res, past, review, thread, hookVars>>

-----------------------------------------------------------------------------
(* The review                                                              *)

Reviewing == UNCHANGED <<launchVars, meta, records, stream, lambda, thread, hookVars, faults>>

\* review_result and update_result: the row is read, merged, written back whole.
ReadForReview ==
    /\ review = NoResult
    /\ \E row \in (past \cup {res}) \ {NoResult} : review' = [row EXCEPT !.review = "reviewed"]
    /\ UNCHANGED <<res, past>> /\ Reviewing
WriteReview ==
    /\ review # NoResult
    /\ Put(review) /\ review' = NoResult /\ Reviewing

-----------------------------------------------------------------------------
LambdaSteps ==
    \/ Score \/ ReadResult \/ WriteResult \/ TellSubscribers \/ RecordDone

Next ==
    \/ \E r \in Requests :
          \/ Request(r) \/ Claim(r) \/ Answer(r) \/ PutSession(r) \/ Launch(r)
          \/ Save(r) \/ Delete(r)
    \/ Crash \/ Completes \/ CompletesAgain
    \/ \E h \in Hooks : RegisterWebhook(h) \/ DeleteWebhook(h)
    \/ ListHooks \/ TellHook \/ ThreadEnds
    \/ Invoke \/ LambdaSteps \/ Killed
    \/ ReadForReview \/ WriteReview

\* Streams invoke, Lambdas and threads run, a review that has read writes.
Fairness ==
    /\ WF_vars(Invoke) /\ WF_vars(LambdaSteps)
    /\ WF_vars(ListHooks \/ TellHook \/ ThreadEnds) /\ WF_vars(WriteReview)

Spec == Init /\ [][Next]_vars /\ Fairness

-----------------------------------------------------------------------------
(* Properties                                                              *)

\* The rows and the messages are what the code writes; a key that names a session
\* names one whose row was put, so that what a retry is given can be looked up.
TypeOK ==
    /\ sessions \in 0 .. tries /\ tries \in 0 .. MaxTries
    /\ key.st \in {"free", "claimed", "saved"}
    /\ IF key.st = "saved" THEN key.s \in 1 .. sessions ELSE key.s = None
    /\ \A r \in Requests : req[r].s \in 0 .. sessions
    /\ answers \subseteq 1 .. sessions
    /\ meta \in BOOLEAN /\ stream \in 0 .. records /\ records \in 0 .. MaxRecords
    /\ lambda.at # "asleep" => stream > 0
    /\ res.score \in Scores \cup {"none", "error"}
    /\ res.review \in {"none", "pending", "reviewed"}
    /\ thread.todo \cup heard \cup dead \cup hooks \subseteq Hooks
    /\ faults \subseteq Faults

\* However often a launch is repeated under its key, at the same time or after an
\* answer was lost, every successful answer names the same session
\* (integration_service.py idempotent).
\* And a key whose computation is not under way is answered or free: only a crash
\* or a failing database leaves it refused (409) until it expires.
OneSessionPerKey ==
    /\ \A a, b \in answers : a = b
    /\ (key = Claimed /\ \A r \in Requests : req[r].at \in {"idle", "claim", "get"})
          => faults # {}

\* What a person has approved or changed is replaced only by an evaluation that had
\* read the row before, or an old copy of it: never by one that saw the review, and
\* never by another review (write_result, update_result).
ReviewIsFinal ==
    [][Reviewed(res) /\ ~Reviewed(res') => lambda.at = "write" /\ lambda.saw # res]_vars

\* Each hook on the list hears of the completed session, or a dead letter says that
\* it could not be told, unless the process or the database fails on the way.
EveryHookIsToldOrNoted ==
    \A h \in Hooks :
        (thread.at = "tell" /\ h \in thread.todo)
            ~> (h \in heard \cup dead \/ faults \cap {"crash", "db"} # {})

\* A completed session gets an evaluation, or the mark that it failed; a Lambda that
\* is stopped is started again for its record.
CompletedIsEvaluated == meta ~> (res # NoResult \/ "db" \in faults)

=============================================================================
