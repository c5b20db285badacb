---------------------------- MODULE EnvCommands -----------------------------
(***************************************************************************)
(* Invocations of env up, env cancel and env down on one environment, from   *)
(* several terminals and over an unreliable network, and the environment    *)
(* service they call.  The service is outside this repository: it is what   *)
(* the commands and their tests rely on.  The clock of the wait loop is     *)
(* WaitPoll's; here a wait may time out at any poll that is not the last.   *)
(***************************************************************************)
EXTENDS ExitCode

CONSTANTS
  Invocations,  \* runs of the CLI
  UserKey,      \* an --idempotency-key several invocations may be given
  Bodies,       \* provisioning requests
  MaxEnvs       \* bound on the environments ever created under the name

Keys  == (Invocations \X {1, 2}) \cup {UserKey}   \* uuid.NewString, and a flag
Envs  == 1..MaxEnvs
NoEnv == 0

ASSUME EnvAssumption ==
  /\ MaxEnvs \in Nat /\ Bodies # {}
  /\ UserKey \notin (Invocations \X {1, 2}) \cup Invocations

VARIABLES
  env,      \* the environment of that name: its state and its number
  teardown, \* a teardown of it was accepted and has not finished
  ledger,   \* the request and the environment of each idempotency key
  made,     \* the user intent that created each environment
  gone,     \* environments that were torn down
  session,  \* the refresh token still works
  inv       \* the invocations

vars == <<env, teardown, ledger, made, gone, session, inv>>

Terminal  == {"Ready", "Job_Failed", "Job_Cancelled", "Env_Torn_Down"}
EnvStates == Terminal \cup {"absent", "Queued", "Job_Scheduled"}

Answer(status, slug) == [via |-> "http", status |-> status, slug |-> slug,
                         state |-> "absent", number |-> NoEnv]
Detail(status, state, number) == [via |-> "http", status |-> status, slug |-> "blank",
                                  state |-> state, number |-> number]
Error(via)           == [Answer(500, "blank") EXCEPT !.via = via]

Replies == [via : {"http", "expired", "broken"}, status : Statuses, slug : Slugs,
            state : EnvStates, number : Envs \cup {NoEnv}]

Kinds   == {"env-up", "env-cancel", "env-down"}
Stages  == {"idle", "sent", "answered", "waiting", "done"}

(***************************************************************************)
(* own: no --idempotency-key was given; resent: the HTTP transport sent the *)
(* request again; polling: in the wait loop; applied: the service did what  *)
(* was asked; target: on which environment; seen: the state reported.       *)
(***************************************************************************)
InvocationRecords ==
  [kind : Kinds, wait : BOOLEAN, own : BOOLEAN, body : Bodies, stage : Stages,
   resent : BOOLEAN, polling : BOOLEAN, reply : Replies, applied : BOOLEAN,
   target : Envs \cup {NoEnv}, seen : EnvStates, exit : Codes \cup {Running}]

TypeOK ==
  /\ env \in [state : EnvStates, number : Envs \cup {NoEnv}]
  /\ teardown \in BOOLEAN /\ session \in BOOLEAN
  /\ ledger \in [Keys -> [body : Bodies, env : Envs \cup {NoEnv}]]
  /\ made \in [Envs -> Invocations \cup {UserKey}]
  /\ gone \subseteq Envs
  /\ inv \in [Invocations -> InvocationRecords]

Idle(body) ==
  [kind |-> "env-up", wait |-> FALSE, own |-> TRUE, body |-> body, stage |-> "idle",
   resent |-> FALSE, polling |-> FALSE, reply |-> Error("broken"), applied |-> FALSE,
   target |-> NoEnv, seen |-> "absent", exit |-> Running]

Init ==
  /\ env = [state |-> "absent", number |-> NoEnv]
  /\ teardown = FALSE /\ session = TRUE
  /\ ledger = [k \in Keys |-> [body |-> CHOOSE b \in Bodies : TRUE, env |-> NoEnv]]
  /\ made = [e \in Envs |-> UserKey]
  /\ gone = {}
  /\ inv = [i \in Invocations |-> Idle(CHOOSE b \in Bodies : TRUE)]

-----------------------------------------------------------------------------
(* The commands *)

Start(i, kind, wait, own, body) ==
  /\ inv[i].stage = "idle"
  /\ inv' = [inv EXCEPT ![i] = [Idle(body) EXCEPT !.stage = "sent", !.kind = kind,
                                                  !.wait = wait, !.own = own]]
  /\ UNCHANGED <<env, teardown, ledger, made, gone, session>>

\* Bug: a new key for each sending of the request.
KeyPerSending(c, i) ==
  IF c.own THEN <<i, IF c.resent THEN 2 ELSE 1>> ELSE UserKey

KeyOf(c, i) == IF c.own THEN <<i, 1>> ELSE UserKey

\* The handling of a command's answer, or of an answer in its wait loop.
Handler(c) == IF ~c.polling THEN c.kind
              ELSE IF c.kind = "env-up" THEN "up-wait" ELSE "down-wait"

CodeOf(c) ==
  ExitOf(Handler(c), [via |-> c.reply.via, status |-> c.reply.status,
                      content |-> IF Success(c.reply.status) THEN "json" ELSE "problem+json",
                      body |-> [slug |-> c.reply.slug, status |-> c.reply.status]])

IsTerminalState(state) == state \in Terminal

\* Bug: one poll is taken for the end.
StopsAtFirstPoll(c) == c.wait /\ ~c.polling /\ CodeOf(c) = Code.OK

\* An accepted command waits, unless env up is told of a terminal state; a
\* poll that saw neither 404 nor a terminal state is followed by another.
StillWaiting(c) ==
  /\ c.wait /\ CodeOf(c) = Code.OK
  /\ IF c.polling \/ c.kind = "env-up"
     THEN ~IsGone(c.reply.status) /\ ~IsTerminalState(c.reply.state)
     ELSE TRUE

Settle(i, stage, exit) ==
  /\ inv' = [inv EXCEPT ![i].stage = stage, ![i].exit = exit,
                        ![i].seen = inv[i].reply.state]
  /\ UNCHANGED <<env, teardown, ledger, made, gone, session>>

Conclude(i) ==
  /\ inv[i].stage = "answered" /\ ~StillWaiting(inv[i])
  /\ Settle(i, "done", CodeOf(inv[i]))

Wait(i) ==
  /\ inv[i].stage = "answered" /\ StillWaiting(inv[i])
  /\ Settle(i, "waiting", Running)

TimeOut(i) ==
  /\ inv[i].stage = "answered" /\ StillWaiting(inv[i]) /\ inv[i].polling
  /\ Settle(i, "done", Code.Generic)

Poll(i) ==
  /\ inv[i].stage = "waiting"
  /\ inv' = [inv EXCEPT ![i].stage = "sent", ![i].polling = TRUE]
  /\ UNCHANGED <<env, teardown, ledger, made, gone, session>>

-----------------------------------------------------------------------------
(* The network and the session *)

Received(i, reply) == [inv EXCEPT ![i].stage = "answered", ![i].reply = reply]

\* The request or its answer is lost.
Lost(i) ==
  /\ inv[i].stage = "sent" \/ (inv[i].stage = "answered" /\ inv[i].reply.via = "http")
  /\ inv' = Received(i, Error("broken"))
  /\ UNCHANGED <<env, teardown, ledger, made, gone, session>>

\* net/http sends a request with an Idempotency-Key again when the connection
\* it reused breaks before the answer.
Resend(i) ==
  /\ inv[i].stage = "answered" /\ inv[i].reply.via = "http"
  /\ inv[i].kind = "env-up" /\ ~inv[i].polling /\ ~inv[i].resent
  /\ inv' = [inv EXCEPT ![i].stage = "sent", ![i].resent = TRUE]
  /\ UNCHANGED <<env, teardown, ledger, made, gone, session>>

ExpireSession ==
  /\ session /\ session' = FALSE
  /\ UNCHANGED <<env, teardown, ledger, made, gone, inv>>

\* The refresh fails before the request, or the service rejects the token.
SessionLost(i) ==
  /\ inv[i].stage = "sent" /\ ~session
  /\ \/ inv' = Received(i, Error("expired"))
     \/ inv' = Received(i, Answer(401, "unauthenticated"))
  /\ UNCHANGED <<env, teardown, ledger, made, gone, session>>

-----------------------------------------------------------------------------
(* The environment service *)

\* A first request needs a refresh; a poll may still hold an access token.
Arrived(i, kind) ==
  /\ inv[i].stage = "sent" /\ ~inv[i].polling /\ session /\ inv[i].kind = kind

Reject(i, status, slug) ==
  /\ inv' = Received(i, Answer(status, slug))
  /\ UNCHANGED <<env, teardown, ledger, made, gone, session>>

Unavailable(i) == inv[i].stage = "sent" /\ Reject(i, 503, "upstream-failure")

Applied(i, reply, number) ==
  [inv EXCEPT ![i].stage = "answered", ![i].reply = reply,
              ![i].applied = TRUE, ![i].target = number]

StateOf(number) == IF number = env.number /\ env.state # "absent"
                   THEN env.state ELSE "Env_Torn_Down"

ProvisionEnv(i) ==
  LET k == KeyOf(inv[i], i) IN
  /\ Arrived(i, "env-up")
  /\ \/ /\ ledger[k].env # NoEnv /\ ledger[k].body # inv[i].body
        /\ Reject(i, 409, "idempotency-conflict")
     \/ /\ ledger[k].env # NoEnv /\ ledger[k].body = inv[i].body
        /\ inv' = [Received(i, Detail(200, StateOf(ledger[k].env), ledger[k].env))
                     EXCEPT ![i].target = ledger[k].env]
        /\ UNCHANGED <<env, teardown, ledger, made, gone, session>>
     \/ /\ ledger[k].env = NoEnv /\ env.state \in {"Queued", "Job_Scheduled", "Ready"}
        /\ Reject(i, 409, "env-already-exists")
     \/ /\ ledger[k].env = NoEnv /\ env.state \notin {"Queued", "Job_Scheduled", "Ready"}
        /\ env.number < MaxEnvs
        /\ env' = [state |-> "Queued", number |-> env.number + 1]
        /\ teardown' = FALSE
        /\ ledger' = [ledger EXCEPT ![k] = [body |-> inv[i].body, env |-> env'.number]]
        /\ made' = [made EXCEPT ![env'.number] = IF inv[i].own THEN i ELSE UserKey]
        /\ inv' = Applied(i, Detail(202, "Queued", env'.number), env'.number)
        /\ UNCHANGED <<gone, session>>

CancelEnv(i) ==
  /\ Arrived(i, "env-cancel")
  /\ \/ env.state \in {"absent", "Env_Torn_Down"} /\ Reject(i, 404, "not-found")
     \/ env.state \in {"Ready", "Job_Failed", "Job_Cancelled"} /\ Reject(i, 409, "blank")
     \/ /\ env.state \in {"Queued", "Job_Scheduled"}
        /\ env' = [env EXCEPT !.state = "Job_Cancelled"] /\ teardown' = FALSE
        /\ inv' = Applied(i, Answer(202, "blank"), env.number)
        /\ UNCHANGED <<ledger, made, gone, session>>

\* The teardown is queued: the old state may stay visible for a while.
DeleteEnv(i) ==
  /\ Arrived(i, "env-down")
  /\ \/ env.state \in {"absent", "Env_Torn_Down"} /\ Reject(i, 404, "not-found")
     \/ /\ env.state \notin {"absent", "Env_Torn_Down"}
        /\ teardown' = TRUE
        /\ \/ env' = [env EXCEPT !.state = "Job_Scheduled"]
           \/ UNCHANGED env
        /\ inv' = Applied(i, Answer(202, "blank"), env.number)
        /\ UNCHANGED <<ledger, made, gone, session>>

GetEnv(i) ==
  /\ inv[i].stage = "sent" /\ inv[i].polling
  /\ IF env.state = "absent" THEN Reject(i, 404, "not-found")
     ELSE /\ inv' = Received(i, Detail(200, env.state, env.number))
          /\ UNCHANGED <<env, teardown, ledger, made, gone, session>>

\* The job of the environment moves on; a torn down environment may be removed.
Workflow ==
  /\ \/ env.state = "Queued" /\ env' = [env EXCEPT !.state = "Job_Scheduled"]
     \/ teardown /\ env.state \in Terminal /\ env' = [env EXCEPT !.state = "Job_Scheduled"]
     \/ /\ env.state = "Job_Scheduled" /\ ~teardown
        /\ \E state \in {"Ready", "Job_Failed"} : env' = [env EXCEPT !.state = state]
     \/ env.state = "Env_Torn_Down" /\ env' = [env EXCEPT !.state = "absent"]
  /\ UNCHANGED <<teardown, ledger, made, gone, session, inv>>

TeardownEnds ==
  /\ teardown /\ env.state = "Job_Scheduled" /\ teardown' = FALSE
  /\ \/ env' = [env EXCEPT !.state = "Env_Torn_Down"] /\ gone' = gone \cup {env.number}
     \/ env' = [env EXCEPT !.state = "Job_Failed"] /\ UNCHANGED gone
  /\ UNCHANGED <<ledger, made, session, inv>>

-----------------------------------------------------------------------------
Command(i) ==
  \/ \E wait, own \in BOOLEAN, body \in Bodies : Start(i, "env-up", wait, own, body)
  \/ \E wait \in BOOLEAN : Start(i, "env-down", wait, TRUE, CHOOSE b \in Bodies : TRUE)
  \/ Start(i, "env-cancel", FALSE, TRUE, CHOOSE b \in Bodies : TRUE)
  \/ Conclude(i) \/ Wait(i) \/ TimeOut(i) \/ Poll(i)

Network(i) == Lost(i) \/ Resend(i) \/ SessionLost(i)

Service(i) == ProvisionEnv(i) \/ CancelEnv(i) \/ DeleteEnv(i) \/ GetEnv(i) \/ Unavailable(i)

Next ==
  \/ \E i \in Invocations : Command(i) \/ Network(i) \/ Service(i)
  \/ ExpireSession \/ Workflow \/ TeardownEnds

Spec == Init /\ [][Next]_vars

-----------------------------------------------------------------------------
(* Properties *)

Done(i) == inv[i].stage = "done"

\* One intent of the user, an invocation or a shared --idempotency-key, makes
\* at most one environment, though requests are sent twice and answers lost.
OneEnvPerIntent ==
  \A e, f \in 1..env.number : made[e] = made[f] => e = f

\* A command refused with "not found" or "conflict" before it polled changed
\* nothing: the user may act on the message.
RefusalIsTrue ==
  \A i \in Invocations :
    Done(i) /\ ~inv[i].polling /\ inv[i].exit \in {Code.NotFound, Code.Conflict} => ~inv[i].applied

\* env up --wait succeeds with a terminal state of its environment or of one
\* created after it, never with an earlier one's.
WaitSawTheEnd ==
  \A i \in Invocations :
    Done(i) /\ inv[i].exit = Code.OK /\ inv[i].kind = "env-up" /\ inv[i].wait =>
      /\ inv[i].seen \in Terminal
      /\ inv[i].reply.number >= inv[i].target

\* env down --wait that was told the environment is gone, by a 404 or by
\* Env_Torn_Down, says so of one that is: its own, or one that another env up
\* had meanwhile put in its place.
GoneMeansGone ==
  \A i \in Invocations :
    /\ Done(i) /\ inv[i].exit = Code.OK /\ inv[i].kind = "env-down" /\ inv[i].polling
    /\ inv[i].seen \in {"absent", "Env_Torn_Down"}
    => \E e \in gone : inv[i].target <= e

\* "env <name> torn down.", {"status": "torn_down"}: it was.
TornDownIsTrue ==
  \A i \in Invocations :
    Done(i) /\ inv[i].exit = Code.OK /\ inv[i].kind = "env-down" /\ inv[i].wait
    => inv[i].target \in gone

\* What the promise is about: the intent of a command, the effects there were,
\* and what a command that has ended has told its user.
IntentOf(i) == IF inv[i].own THEN i ELSE UserKey

Effects == {[intent |-> IntentOf(i), client |-> i, thing |-> inv[i].target] :
              i \in {j \in Invocations : inv[j].applied}}

Told(i) ==
  IF ~Done(i) THEN "nothing"
  ELSE IF inv[i].exit = Code.OK THEN "done"
  ELSE IF ~inv[i].polling /\ inv[i].exit \in {Code.NotFound, Code.Conflict} THEN "refused"
  ELSE "unknown"

Promise == INSTANCE OncePerIntent WITH
  Clients <- Invocations, Intents <- Invocations \cup {UserKey}, Things <- Envs,
  asks    <- [i \in Invocations |-> IF inv[i].stage = "idle" THEN {} ELSE {IntentOf(i)}],
  effects <- Effects,
  told    <- [i \in Invocations |-> Told(i)]

\* Sent twice, answered or not, with a key of its own or a shared one, a
\* command changes an environment once at most, and what it tells is true.
KeepsPromise == Promise!Spec

\* The strengthening the proofs use.  The service: an intent's entry in the
\* ledger names the environment it made, and a name without an environment is
\* that of one that was torn down.
IntentKey(intent) == IF intent = UserKey THEN UserKey ELSE <<intent, 1>>

LedgerNamesMade ==
  \A e \in 1..env.number : ledger[IntentKey(made[e])].env = e

LedgerIsPast == \A k \in Keys : ledger[k].env <= env.number

NoneMeansGone ==
  /\ env.number = NoEnv => env.state = "absent"
  /\ env.state \in {"absent", "Env_Torn_Down"} => env.number \in gone \cup {NoEnv}

\* The answers that are ever given.
Said(c) == <<c.reply.via, c.reply.status, c.reply.slug>>

Refusals == {<<"http", 404, "not-found">>, <<"http", 409, "idempotency-conflict">>,
             <<"http", 409, "env-already-exists">>, <<"http", 409, "blank">>}
Consents == {<<"http", 200, "blank">>, <<"http", 202, "blank">>}
Failures == {<<"http", 401, "unauthenticated">>, <<"http", 503, "upstream-failure">>,
             <<"broken", 500, "blank">>, <<"expired", 500, "blank">>}

Accepted(c, i) ==
  c.applied \/ (c.kind = "env-up" /\ ledger[KeyOf(c, i)].env # NoEnv)

\* What an invocation knows and has done, next to what the service recorded.
RecordIsTrue(c, i) ==
  /\ Said(c) \in Refusals \cup Consents \cup Failures
  /\ c.target <= env.number
  /\ c.applied => c.target # NoEnv
  /\ c.applied /\ c.kind = "env-up" =>
       ledger[KeyOf(c, i)] = [body |-> c.body, env |-> c.target]
  /\ c.stage = "sent" /\ c.applied /\ ~c.polling => c.kind = "env-up"

AnswerIsTrue(c, i) ==
  /\ Said(c) \in Refusals /\ ~c.polling => ~c.applied
  /\ Said(c) \in Consents \/ c.polling \/ c.stage = "waiting" => Accepted(c, i)
  /\ Said(c) \in Consents /\ c.kind = "env-up" => c.reply.number >= c.target
  /\ /\ c.stage \in {"answered", "done"} /\ c.polling /\ c.kind = "env-down"
     /\ Said(c) \in Consents \cup Refusals
     /\ c.reply.state \in {"absent", "Env_Torn_Down"}
     => \E e \in gone : c.target <= e

EndIsTrue(c) ==
  c.stage = "done" /\ c.exit # Code.Generic =>
    c.exit = CodeOf(c) /\ ~StillWaiting(c) /\ c.seen = c.reply.state

IInv ==
  /\ TypeOK /\ LedgerNamesMade /\ LedgerIsPast /\ NoneMeansGone
  /\ \A i \in Invocations : /\ RecordIsTrue(inv[i], i)
                            /\ AnswerIsTrue(inv[i], i)
                            /\ EndIsTrue(inv[i])

\* For the promise: who has done something has been asked to, and an entry in
\* the ledger is there because some env up was applied.
CommandsAsk ==
  \A i \in Invocations : /\ inv[i].stage = "idle" => ~inv[i].applied
                         /\ inv[i].kind # "env-up" => inv[i].own

EntriesHaveAuthors ==
  \A k \in Keys : ledger[k].env # NoEnv =>
    \E i \in Invocations :
      inv[i].applied /\ inv[i].kind = "env-up" /\ KeyOf(inv[i], i) = k

PromiseInv == CommandsAsk /\ EntriesHaveAuthors
=============================================================================
