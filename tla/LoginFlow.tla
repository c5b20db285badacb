----------------------------- MODULE LoginFlow ------------------------------
(***************************************************************************)
(* What the two login flows share: a clock, the context of the command, the *)
(* timer a flow waits on and the exchange with Auth0's token endpoint.  The *)
(* flows' own computations take no time, an exchange takes at most          *)
(* MaxExchange (the Timeout of httpClient), a timer fires at most Late late. *)
(***************************************************************************)
EXTENDS Integers

CONSTANTS MaxExchange, Late

ASSUME ExchangeAssumption == MaxExchange \in Nat \ {0} /\ Late \in Nat

VARIABLES
  flow,         \* "device" or "pkce"
  offline,      \* cfg.Scopes has offline_access
  pc,           \* where the flow is
  now,          \* the clock; the login starts at 0
  due,          \* when the timer or the wait under way is over
  askedAt,      \* when the last token request began, -1 before the first
  answer,       \* what Auth0 answered to it
  granted,      \* the tokens of the session Auth0 opened for this login
  consentAt,    \* history: when the user's consent got through, -1 before
  cancelledAt,  \* when ctx was done, -1 before
  outcome

Cancelled == cancelledAt >= 0

\* Tokens without, and with, a refresh token.
TokenSets == {"access", "refresh"}
Answers   == TokenSets \cup {"none", "pending", "slow_down", "expired", "denied", "other"}
Outcomes  == {"none", "tokens", "no refresh token", "failed", "cancelled",
              "expired", "denied", "mismatch", "refused", "timeout"}

\* Bug: the refresh token is asked for whatever the scopes.
RequireRefreshToken(toks) ==
  IF toks = "refresh" THEN "tokens" ELSE "no refresh token"

\* The tokens, or ErrRefreshTokenNotIssued.
checkRefreshTokenIssued(toks) ==
  IF toks = "refresh" \/ ~offline THEN "tokens" ELSE "no refresh token"

\* A request to the token endpoint leaves.
Ask == pc' = "asking" /\ askedAt' = now /\ answer' = "none"

\* Auth0 opens a session: with a refresh token only if one was asked for, and
\* not always then.
Auth0Grants ==
  /\ granted = "nothing"
  /\ granted' \in (IF offline THEN TokenSets ELSE {"access"})
  /\ answer' = granted'

\* Auth0 has not answered, or its answer is on the way.
Exchanging == pc \in {"asking", "answered"}
=============================================================================
