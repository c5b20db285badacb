----------------------------- MODULE DeviceLogin ----------------------------
(***************************************************************************)
(* auth.LoginDevice, the device authorization grant: a device code with an  *)
(* interval and a life, then a poll of the token endpoint, an answer, and a *)
(* sleep that nothing interrupts, until Auth0 decides or the code expires.  *)
(***************************************************************************)
EXTENDS LoginFlow

CONSTANTS
  Intervals,        \* the "interval" Auth0 may send; 0 where it sends none
  Lifetimes,        \* the "expires_in" it may send
  defaultDeviceInterval,
  SlowDownStep      \* what a slow_down adds

ASSUME DeviceAssumption ==
  /\ Intervals \subseteq Int /\ Lifetimes \subseteq Nat
  /\ defaultDeviceInterval \in Nat \ {0} /\ SlowDownStep \in Nat \ {0}

VARIABLES
  interval,   \* the sleep between two polls
  deadline,   \* when the code expires by the local clock
  denied,     \* the user has refused the code
  told,       \* history: the interval Auth0 has asked for so far
  slowedAt    \* history: when it last asked for more, -1 before

device == <<interval, deadline, denied, told, slowedAt>>
deviceVars == <<flow, offline, pc, now, due, askedAt, answer, granted, consentAt,
                cancelledAt, outcome, device>>

Return(result) == pc' = "done" /\ outcome' = result

Requested(sent) == IF sent <= 0 THEN defaultDeviceInterval ELSE sent

DeviceCode ==
  /\ pc = "request"
  /\ pc' = "check"
  /\ \E i \in Intervals : interval' = Requested(i) /\ told' = Requested(i)
  /\ \E e \in Lifetimes : deadline' = now + e
  /\ UNCHANGED <<flow, offline, now, due, askedAt, answer, granted, consentAt,
                 cancelledAt, outcome, denied, slowedAt>>

DeviceCodeFails ==
  /\ pc = "request"
  /\ Return("failed")
  /\ UNCHANGED <<flow, offline, now, due, askedAt, answer, granted, consentAt,
                 cancelledAt, device>>

-----------------------------------------------------------------------------
(* The head of the loop *)

ReturnCancelled ==
  /\ pc = "check" /\ Cancelled
  /\ Return("cancelled")
  /\ UNCHANGED <<flow, offline, now, due, askedAt, answer, granted, consentAt,
                 cancelledAt, device>>

\* Bug: the deadline is not looked at; Auth0 is left to say that it passed.
NeverExpired == FALSE

Expired == now > deadline

ReturnExpired ==
  /\ pc = "check" /\ ~Cancelled /\ Expired
  /\ Return("expired")
  /\ UNCHANGED <<flow, offline, now, due, askedAt, answer, granted, consentAt,
                 cancelledAt, device>>

Poll ==
  /\ pc = "check" /\ ~Cancelled /\ ~Expired
  /\ Ask
  /\ UNCHANGED <<flow, offline, now, due, granted, consentAt, cancelledAt,
                 outcome, device>>

-----------------------------------------------------------------------------
(* The poll's answer.  A context that is done ends the request; the answer  *)
(* of one that had ended before is taken as it is.                          *)

PollFails ==
  /\ flow = "device" /\ Exchanging
  /\ Return("failed")
  /\ UNCHANGED <<flow, offline, now, due, askedAt, answer, granted, consentAt,
                 cancelledAt, device>>

ReturnTokens ==
  /\ flow = "device" /\ pc = "answered" /\ answer \in TokenSets
  /\ Return(checkRefreshTokenIssued(answer))
  /\ UNCHANGED <<flow, offline, now, due, askedAt, answer, granted, consentAt,
                 cancelledAt, device>>

\* expired_token, access_denied, and any code the flow does not know.
ReturnRefused ==
  /\ flow = "device" /\ pc = "answered" /\ answer \in {"expired", "denied", "other"}
  /\ Return(IF answer = "other" THEN "failed" ELSE answer)
  /\ UNCHANGED <<flow, offline, now, due, askedAt, answer, granted, consentAt,
                 cancelledAt, device>>

\* Bug: what docs/plan.md says, "double" the interval.
Doubled(errCode) == IF errCode = "slow_down" THEN 2 * interval ELSE interval

\* Bug: every answer that is not the last doubles the interval.
Backoff(errCode) == 2 * interval

NextInterval(errCode) ==
  IF errCode = "slow_down" THEN interval + SlowDownStep ELSE interval

Sleep ==
  /\ flow = "device" /\ pc = "answered" /\ answer \in {"pending", "slow_down"}
  /\ pc' = "sleeping"
  /\ interval' = NextInterval(answer)
  /\ due' = now + interval'
  /\ UNCHANGED <<flow, offline, now, askedAt, answer, granted, consentAt,
                 cancelledAt, outcome, deadline, denied, told, slowedAt>>

\* time.Sleep: whether ctx is done is seen at the head of the loop.
WakeUp ==
  /\ pc = "sleeping" /\ now >= due
  /\ pc' = "check"
  /\ UNCHANGED <<flow, offline, now, due, askedAt, answer, granted, consentAt,
                 cancelledAt, outcome, device>>

LoginDevice ==
  \/ DeviceCode \/ DeviceCodeFails \/ ReturnCancelled \/ ReturnExpired \/ Poll
  \/ PollFails \/ ReturnTokens \/ ReturnRefused \/ Sleep \/ WakeUp

-----------------------------------------------------------------------------
(* Auth0 and the user *)

CodeShown == flow = "device" /\ pc \notin {"request", "done"}

Decide ==
  /\ CodeShown /\ consentAt < 0 /\ ~denied
  /\ \/ consentAt' = now /\ UNCHANGED denied
     \/ denied' = TRUE /\ UNCHANGED consentAt
  /\ UNCHANGED <<flow, offline, pc, now, due, askedAt, answer, granted,
                 cancelledAt, outcome, interval, deadline, told, slowedAt>>

\* The code's life began up to an exchange before the local deadline's did.
CodeMayBeOver == now >= deadline - MaxExchange

TokensIfApproved ==
  /\ consentAt >= 0 /\ Auth0Grants
  /\ UNCHANGED <<told, slowedAt>>

SlowDown ==
  /\ answer' = "slow_down"
  /\ told' = told + SlowDownStep /\ slowedAt' = now
  /\ UNCHANGED granted

NotYet ==
  /\ \/ answer' = "pending" /\ consentAt < 0 /\ ~denied
     \/ answer' = "denied" /\ denied
     \/ answer' = "expired" /\ CodeMayBeOver
     \/ answer' = "other"
  /\ UNCHANGED <<granted, told, slowedAt>>

\* Auth0 reads what the user decided some time after the poll began.
ServePoll ==
  /\ flow = "device" /\ pc = "asking"
  /\ pc' = "answered"
  /\ TokensIfApproved \/ SlowDown \/ NotYet
  /\ UNCHANGED <<flow, offline, now, due, askedAt, consentAt, cancelledAt,
                 outcome, interval, deadline, denied>>
=============================================================================
