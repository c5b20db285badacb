-------------------------------- MODULE Login -------------------------------
(***************************************************************************)
(* runLogin's choice between the two flows, with the passage of time, the   *)
(* user, Auth0 and the signal that cancels the command.                     *)
(***************************************************************************)
EXTENDS DeviceLogin, LoopbackLogin

vars == <<flow, offline, pc, now, due, askedAt, answer, granted, consentAt,
          cancelledAt, outcome, device, loopback>>

Stages == {"request", "check", "sleeping", "listen", "opening", "select", "closing",
           "asking", "answered", "done"}

Init ==
  /\ flow \in {"device", "pkce"} /\ offline \in BOOLEAN
  /\ pc = IF flow = "device" THEN "request" ELSE "listen"
  /\ now = 0 /\ due = 0
  /\ askedAt = -1 /\ answer = "none" /\ granted = "nothing"
  /\ consentAt = -1 /\ cancelledAt = -1 /\ outcome = "none"
  /\ interval = 0 /\ deadline = 0 /\ denied = FALSE
  /\ told = 0 /\ slowedAt = -1
  /\ codeCh = "empty" /\ errCh = "empty"

\* SIGINT or SIGTERM.
Cancel ==
  /\ pc # "done" /\ ~Cancelled
  /\ cancelledAt' = now
  /\ UNCHANGED <<flow, offline, pc, now, due, askedAt, answer, granted, consentAt,
                 outcome, device, loopback>>

\* What time may pass in: an exchange, which a done context ends at once; a
\* sleep; the launch of the browser; a select with no case ready; a shutdown.
Waiting ==
  \/ pc = "request" /\ ~Cancelled /\ now < MaxExchange
  \/ Exchanging /\ ~Cancelled /\ now < askedAt + MaxExchange
  \/ pc = "sleeping" /\ now < due + Late
  \/ pc \in {"opening", "closing"} /\ now < due
  \/ /\ pc = "select" /\ now < due + Late
     /\ ~Cancelled /\ codeCh = "empty" /\ errCh = "empty"

Tick ==
  /\ Waiting
  /\ now' = now + 1
  /\ UNCHANGED <<flow, offline, pc, due, askedAt, answer, granted, consentAt,
                 cancelledAt, outcome, device, loopback>>

Device   == (LoginDevice \/ Decide \/ ServePoll) /\ UNCHANGED loopback
Loopback == /\ LoginPKCE \/ CallbackWithCode \/ CallbackWithError \/ ServeExchange
            /\ UNCHANGED device

Next == Device \/ Loopback \/ Cancel \/ Tick

\* The flow runs, and time passes.  The browser's launcher is another program,
\* run with no context and no limit: that it returns is not assumed.
Fairness ==
  /\ WF_vars(LoginDevice /\ UNCHANGED loopback)
  /\ WF_vars(LoginPKCE /\ pc # "opening" /\ UNCHANGED device)
  /\ WF_vars(Tick)

Spec     == Init /\ [][Next]_vars
FairSpec == Spec /\ Fairness

TypeOK ==
  /\ flow \in {"device", "pkce"} /\ offline \in BOOLEAN
  /\ pc \in Stages /\ outcome \in Outcomes
  /\ now \in Nat /\ due \in Nat
  /\ askedAt \in Nat \cup {-1} /\ consentAt \in Nat \cup {-1}
  /\ cancelledAt \in Nat \cup {-1} /\ slowedAt \in Nat \cup {-1}
  /\ answer \in Answers /\ granted \in TokenSets \cup {"nothing"}
  /\ interval \in Nat /\ told \in Nat /\ deadline \in Nat /\ denied \in BOOLEAN
  /\ codeCh \in {"empty", "code"} /\ errCh \in {"empty", "refused", "mismatch"}

-----------------------------------------------------------------------------
(* Properties *)

\* "Polling honours the server-supplied interval": two polls are never closer
\* than the interval Auth0 sent, or the default, and every slow_down since.
PollsHonourInterval ==
  [][flow = "device" /\ askedAt' # askedAt /\ askedAt >= 0 =>
       askedAt' >= askedAt + told]_vars

\* A login ends: the device flow one interval and one exchange after the code
\* has expired, the browser flow one exchange after its timeout, which begins
\* only when the browser's launcher has returned.
EndsInTime ==
  now <= IF flow = "device"
         THEN (IF pc = "request" THEN 0 ELSE deadline + told + Late) + MaxExchange
         ELSE MaxOpen + loginTimeout + Late + MaxExchange + ShutdownTime

\* Ctrl-C ends the device flow within the sleep under way, the browser flow
\* within the launch of the browser and the shutdown of the server.
CancelIsNoticed ==
  Cancelled =>
    now <= cancelledAt + IF flow = "device" THEN told + Late ELSE MaxOpen + ShutdownTime

\* A session Auth0 opens for the login is handed to it, with the refresh token
\* that was asked for; else its answer was lost, or came without that token.
\* No timeout, expiry, refusal or cancellation hides a session.
SessionIsHandedOver ==
  /\ outcome = "tokens" => granted # "nothing" /\ (offline => granted = "refresh")
  /\ outcome # "none" /\ granted # "nothing" =>
       \/ outcome \in {"tokens", "failed"}
       \/ outcome = "no refresh token" /\ offline /\ granted = "access"

\* The browser flow does not time out on a user who came back in time: the
\* callback that arrives before the timeout counts, be it while the browser's
\* launcher still runs.
CallbackInTimeCounts ==
  [][outcome = "none" /\ outcome' = "timeout" /\ consentAt >= 0 => consentAt >= due]_vars

\* The device flow does not let a code expire that was approved in time: the
\* approval counts that comes one interval of Auth0's and the exchanges around it
\* before the code expires, unless Auth0 slowed the polling down after it.
ApprovalInTimeCounts ==
  [][outcome = "none" /\ outcome' = "expired" /\ consentAt > slowedAt =>
       consentAt + told + Late + 3 * MaxExchange >= deadline]_vars

\* The login returns, whatever the user and Auth0 do, unless it is stuck in the
\* launch of the browser, which neither ctx nor the timeout ends.
LoginEnds == <>(pc = "done") \/ <>[](pc = "opening")

-----------------------------------------------------------------------------
(* The inductive invariant: what is known of the clock, and of the session, *)
(* at each stage of a flow.                                                  *)

StageOfFlow ==
  pc \in IF flow = "device"
         THEN {"request", "check", "asking", "answered", "sleeping", "done"}
         ELSE {"listen", "opening", "select", "asking", "answered", "closing", "done"}

\* A session is open only once its tokens are on the way, or were returned.
TokensOnTheirWay ==
  /\ outcome = "none" <=> pc \notin {"closing", "done"}
  /\ outcome = "none" /\ granted # "nothing" => pc = "answered" /\ answer = granted
  /\ pc = "answered" /\ (flow = "pkce" \/ answer \in TokenSets) =>
       granted \in TokenSets /\ answer = granted

\* The interval is what Auth0 asked for, but for a slow_down not yet read.
IntervalIsAsTold ==
  /\ pc = "request" => told = 0 /\ deadline = 0 /\ askedAt = -1 /\ consentAt = -1
  /\ flow = "device" /\ pc \notin {"request", "done"} =>
       told = interval + IF pc = "answered" /\ answer = "slow_down" THEN SlowDownStep ELSE 0
  /\ flow = "device" /\ askedAt >= 0 /\ pc \in {"check", "sleeping"} =>
       askedAt + told <= IF pc = "check" THEN now ELSE due

PastIsPast == askedAt <= now /\ consentAt <= now /\ cancelledAt <= now /\ slowedAt <= now

DeviceClock ==
  flow = "device" =>
    /\ pc = "request" => now <= MaxExchange
    /\ pc = "check" => now <= deadline + told + Late + MaxExchange
    /\ Exchanging => askedAt <= deadline /\ now <= askedAt + MaxExchange /\ askedAt >= 0
    /\ pc = "sleeping" =>
         due <= deadline + MaxExchange + told /\ due <= now + told /\ now <= due + Late
    /\ Cancelled /\ (pc = "request" \/ Exchanging) => now = cancelledAt
    /\ Cancelled /\ pc = "sleeping" => due <= cancelledAt + told

\* How long ago the consent came that the flow has not heard of.
ConsentClock ==
  flow = "device" /\ consentAt > slowedAt =>
    /\ pc = "check" => now <= consentAt + told + Late + MaxExchange
    /\ pc = "asking" => askedAt <= consentAt + told + Late + MaxExchange
    /\ pc = "answered" /\ answer \in {"pending", "slow_down"} => askedAt <= consentAt
    /\ pc = "answered" /\ answer = "expired" =>
         deadline <= consentAt + told + Late + 3 * MaxExchange
    /\ pc = "sleeping" => due <= consentAt + told + MaxExchange

ExpiryIsTrue ==
  flow = "device" /\ pc = "answered" /\ answer = "expired" => deadline <= now + MaxExchange

LoopbackClock ==
  flow = "pkce" =>
    /\ pc = "listen" => now = 0
    /\ pc = "opening" => now <= due /\ due <= MaxOpen /\ due <= now + MaxOpen
    /\ pc = "select" => due <= MaxOpen + loginTimeout /\ now <= due + Late
    /\ Exchanging => askedAt <= MaxOpen + loginTimeout + Late
                     /\ now <= askedAt + MaxExchange
    /\ pc = "closing" =>
         /\ now <= due /\ due <= now + ShutdownTime
         /\ due <= MaxOpen + loginTimeout + Late + MaxExchange + ShutdownTime
    /\ Cancelled =>
         /\ pc = "listen" => now = cancelledAt
         /\ pc = "opening" => due <= cancelledAt + MaxOpen
         /\ pc = "select" \/ Exchanging => now <= cancelledAt + MaxOpen
         /\ pc = "closing" => due <= cancelledAt + MaxOpen + ShutdownTime

\* A code waits in its slot from the moment the user consented.
CodeWaits ==
  flow = "pkce" =>
    /\ pc \in {"listen", "opening", "select"} /\ codeCh = "empty" => consentAt < 0
    /\ pc = "select" /\ codeCh # "empty" => now < due \/ consentAt >= due

IInv ==
  /\ TypeOK /\ StageOfFlow /\ PastIsPast
  /\ TokensOnTheirWay /\ SessionIsHandedOver
  /\ IntervalIsAsTold /\ DeviceClock /\ ConsentClock /\ ExpiryIsTrue
  /\ LoopbackClock /\ CodeWaits
  /\ EndsInTime /\ CancelIsNoticed
=============================================================================
