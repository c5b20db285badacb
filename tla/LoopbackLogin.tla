---------------------------- MODULE LoopbackLogin ---------------------------
(***************************************************************************)
(* auth.LoginPKCE: a browser is sent to Auth0 and comes back to an HTTP     *)
(* server in this process.  Each request to the callback runs in a goroutine *)
(* of its own and posts to a channel of one slot without waiting; the main   *)
(* goroutine opens the browser, selects once among the channels, the context *)
(* and a timer, exchanges the code and shuts the server down.               *)
(***************************************************************************)
EXTENDS LoginFlow

CONSTANTS
  loginTimeout,
  MaxOpen,        \* bound on the time the browser's launcher takes
  ShutdownTime    \* the timeout of the server's shutdown

ASSUME LoopbackAssumption ==
  loginTimeout \in Nat \ {0} /\ MaxOpen \in Nat /\ ShutdownTime \in Nat

VARIABLES codeCh, errCh   \* what is in each channel's slot

loopback == <<codeCh, errCh>>
loopbackVars == <<flow, offline, pc, now, due, askedAt, answer, granted, consentAt,
                  cancelledAt, outcome, loopback>>

\* Bug: the shutdown has no timeout of its own.
ReturnLast(result) == pc' = "closing" /\ outcome' = result /\ due' = now + loginTimeout

\* The deferred Shutdown runs before the flow returns.
ReturnLater(result) == pc' = "closing" /\ outcome' = result /\ due' = now + ShutdownTime

\* The port is taken, or there is no randomness: before there is a server.
ListenFails ==
  /\ pc = "listen"
  /\ pc' = "done" /\ outcome' = "failed"
  /\ UNCHANGED <<flow, offline, now, due, askedAt, answer, granted, consentAt,
                 cancelledAt, loopback>>

Listen ==
  /\ pc = "listen"
  /\ pc' = "opening" /\ due' = now + MaxOpen
  /\ UNCHANGED <<flow, offline, now, askedAt, answer, granted, consentAt,
                 cancelledAt, outcome, loopback>>

\* The launcher returns; when it fails the URL is printed instead.  Only now
\* does the select begin, and its timer with it.
BrowserOpened ==
  /\ pc = "opening"
  /\ pc' = "select" /\ due' = now + loginTimeout
  /\ UNCHANGED <<flow, offline, now, askedAt, answer, granted, consentAt,
                 cancelledAt, outcome, loopback>>

-----------------------------------------------------------------------------
(* The callback's goroutines *)

Serving == flow = "pkce" /\ pc \in {"opening", "select", "asking", "answered"}

\* Bug: a channel without a slot; only a select that waits gets what is posted.
PostUnbuffered(ch, v) == IF ch = "empty" /\ pc = "select" THEN v ELSE ch

Post(ch, v) == IF ch = "empty" THEN v ELSE ch

\* Our state and a code.  It may come again, when the page is reloaded.
CallbackWithCode ==
  /\ Serving
  /\ codeCh' = Post(codeCh, "code")
  /\ consentAt' = IF consentAt < 0 THEN now ELSE consentAt
  /\ UNCHANGED <<flow, offline, pc, now, due, askedAt, answer, granted,
                 cancelledAt, outcome, errCh>>

\* Auth0 reports an error, or the state is not ours: the tab of an earlier
\* login comes back to the same port.
CallbackWithError ==
  /\ Serving
  /\ \E e \in {"refused", "mismatch"} : errCh' = Post(errCh, e)
  /\ UNCHANGED <<flow, offline, pc, now, due, askedAt, answer, granted, consentAt,
                 cancelledAt, outcome, codeCh>>

-----------------------------------------------------------------------------
(* The select, which takes any case that is ready *)

SelectCode ==
  /\ pc = "select" /\ codeCh # "empty"
  /\ codeCh' = "empty"
  /\ Ask
  /\ UNCHANGED <<flow, offline, now, due, granted, consentAt, cancelledAt,
                 outcome, errCh>>

SelectError ==
  /\ pc = "select" /\ errCh # "empty"
  /\ errCh' = "empty"
  /\ ReturnLater(errCh)
  /\ UNCHANGED <<flow, offline, now, askedAt, answer, granted, consentAt,
                 cancelledAt, codeCh>>

SelectCancelled ==
  /\ pc = "select" /\ Cancelled
  /\ ReturnLater("cancelled")
  /\ UNCHANGED <<flow, offline, now, askedAt, answer, granted, consentAt,
                 cancelledAt, loopback>>

\* Bug: no timer among the cases.
SelectForever == FALSE /\ UNCHANGED loopbackVars

SelectTimeout ==
  /\ pc = "select" /\ now >= due
  /\ ReturnLater("timeout")
  /\ UNCHANGED <<flow, offline, now, askedAt, answer, granted, consentAt,
                 cancelledAt, loopback>>

-----------------------------------------------------------------------------
(* The exchange of the code, and the end *)

\* Auth0 accepts the code, which was issued for our challenge.
ServeExchange ==
  /\ flow = "pkce" /\ pc = "asking"
  /\ pc' = "answered"
  /\ Auth0Grants
  /\ UNCHANGED <<flow, offline, now, due, askedAt, consentAt, cancelledAt,
                 outcome, loopback>>

Exchanged ==
  /\ flow = "pkce" /\ pc = "answered"
  /\ ReturnLater(checkRefreshTokenIssued(answer))
  /\ UNCHANGED <<flow, offline, now, askedAt, answer, granted, consentAt,
                 cancelledAt, loopback>>

\* No answer, a refusal, a page of some proxy, a body that does not decode.
ExchangeFails ==
  /\ flow = "pkce" /\ Exchanging
  /\ ReturnLater("failed")
  /\ UNCHANGED <<flow, offline, now, askedAt, answer, granted, consentAt,
                 cancelledAt, loopback>>

Shutdown ==
  /\ pc = "closing"
  /\ pc' = "done"
  /\ UNCHANGED <<flow, offline, now, due, askedAt, answer, granted, consentAt,
                 cancelledAt, outcome, loopback>>

LoginPKCE ==
  \/ ListenFails \/ Listen \/ BrowserOpened
  \/ SelectCode \/ SelectError \/ SelectCancelled \/ SelectTimeout
  \/ Exchanged \/ ExchangeFails \/ Shutdown
=============================================================================
