------------------------------ MODULE Transport ------------------------------
(***************************************************************************)
(* api.Transport over a TokenCache: the round trips of an API client, each  *)
(* with a bearer token from the cache and one retry after a 401.  The steps *)
(* inside the cache are TokenCache's own; this module drives its callers.   *)
(***************************************************************************)
EXTENDS TokenCache

CONSTANT MaxTrips      \* bound on the round trips a process makes

ASSUME MaxTripsAssumption == MaxTrips \in Nat

VARIABLES
  trip,     \* the round trip each goroutine is making, or the last it made
  trips,    \* round trips started
  refused   \* access tokens the API server answers with 401

tripVars == <<trip, trips, refused>>
allVars  == <<vars, tripVars>>

Stages   == {"idle", "token", "sent", "invalidating"}
Outcomes == {"none", "ok", "401", "expired", "failed"}

(***************************************************************************)
(* status: what the server answered last; first: the token the first 401    *)
(* was for; sent: requests put on the wire.                                 *)
(***************************************************************************)
Trips == [stage : Stages, retried : BOOLEAN, replayable : BOOLEAN,
          at : Nat, first : Nat, status : Outcomes, outcome : Outcomes,
          sent : 0..2]

NewTrip(stage, replayable) ==
  [stage |-> stage, retried |-> FALSE, replayable |-> replayable,
   at |-> 0, first |-> 0, status |-> "none", outcome |-> "none", sent |-> 0]

NoTrip == NewTrip("idle", TRUE)

TransportTypeOK ==
  /\ TypeOK
  /\ trip \in [Goroutines -> Trips]
  /\ trips \in 0..MaxTrips
  /\ refused \subseteq 1..minted

TransportInit ==
  /\ Init
  /\ trip = [g \in Goroutines |-> NoTrip]
  /\ trips = 0 /\ refused = {}

-----------------------------------------------------------------------------
(* RoundTrip *)

\* do() asks for a token first.  A request whose body has no GetBody cannot be sent twice.
Start(g, replayable) ==
  /\ trip[g].stage = "idle" /\ trips < MaxTrips
  /\ CallAccessToken(g)
  /\ trip' = [trip EXCEPT ![g] = NewTrip("token", replayable)]
  /\ trips' = trips + 1
  /\ UNCHANGED refused

Finish(g, outcome) == [trip[g] EXCEPT !.stage = "idle", !.outcome = outcome]

HasToken(g) == trip[g].stage = "token" /\ pc[g] = "out" /\ verdict[g] = "ok"

\* The cache has no token to give: the error is the round trip's.
TokenError(g) ==
  /\ trip[g].stage = "token" /\ pc[g] = "out" /\ verdict[g] # "ok"
  /\ trip' = [trip EXCEPT ![g] = Finish(g, verdict[g])]
  /\ UNCHANGED <<vars, trips, refused>>

\* The request reaches the server, which accepts the token or answers 401.
Serve(g) ==
  /\ HasToken(g)
  /\ trip' = [trip EXCEPT ![g].stage = "sent", ![g].at = got[g],
                          ![g].sent = @ + 1,
                          ![g].status = IF got[g] \in refused THEN "401" ELSE "ok"]
  /\ UNCHANGED <<vars, trips, refused>>

\* Timeout or connection error, before or after the server saw the request.
NetworkError(g) ==
  /\ HasToken(g) \/ trip[g].stage = "sent"
  /\ trip' = [trip EXCEPT ![g] = [Finish(g, "failed") EXCEPT
                !.sent = IF trip[g].stage = "sent" THEN @ ELSE @ + 1]]
  /\ UNCHANGED <<vars, trips, refused>>

\* Bug: a 401 is never retried.
NeverRetry(t) == FALSE

MayRetry(t) == t.status = "401" /\ ~t.retried /\ t.replayable

\* Any answer but a first, replayable 401 goes to the caller.
Deliver(g) ==
  /\ trip[g].stage = "sent" /\ ~MayRetry(trip[g])
  /\ trip' = [trip EXCEPT ![g] = Finish(g, trip[g].status)]
  /\ UNCHANGED <<vars, trips, refused>>

\* By now the cache may hold a newer token than the one the 401 was for.
Drop401(g) ==
  /\ trip[g].stage = "sent" /\ MayRetry(trip[g])
  /\ CallInvalidate(g)
  /\ trip' = [trip EXCEPT ![g].stage = "invalidating", ![g].first = trip[g].at,
                          ![g].retried = TRUE]
  /\ UNCHANGED <<trips, refused>>

Retry(g) ==
  /\ trip[g].stage = "invalidating"
  /\ CallAccessToken(g)
  /\ trip' = [trip EXCEPT ![g].stage = "token"]
  /\ UNCHANGED <<trips, refused>>

\* The server stops accepting a token: expiry, revocation, clock skew.
Refuse(at) ==
  /\ refused' = refused \cup {at}
  /\ UNCHANGED <<vars, trip, trips>>

-----------------------------------------------------------------------------
Trip(g) ==
  \/ \E replayable \in BOOLEAN : Start(g, replayable)
  \/ TokenError(g) \/ Serve(g) \/ NetworkError(g) \/ Deliver(g)
  \/ Drop401(g) \/ Retry(g)

CacheStep(g) == Inside(g) /\ UNCHANGED tripVars

TransportNext ==
  \/ \E g \in Goroutines : Trip(g) \/ CacheStep(g)
  \/ Environment /\ UNCHANGED tripVars
  \/ \E at \in (1..minted) \ refused : Refuse(at)

(***************************************************************************)
(* sync.Mutex hands the lock to a waiter that has starved for 1ms, hence    *)
(* strong fairness on entering; the 30s timeout of the Auth0 client, the    *)
(* local keychain write and the 60s timeout of the API client end by        *)
(* themselves, hence weak fairness on the rest.                             *)
(***************************************************************************)
TransportFairness ==
  \A g \in Goroutines :
    /\ SF_allVars(Enter(g) /\ UNCHANGED tripVars)
    /\ WF_allVars(Answer(g) /\ UNCHANGED tripVars)
    /\ WF_allVars(Settle(g) /\ UNCHANGED tripVars)
    /\ WF_allVars(Save(g) /\ UNCHANGED tripVars)
    /\ WF_allVars(TokenError(g) \/ Serve(g) \/ NetworkError(g))
    /\ WF_allVars(Deliver(g) \/ Drop401(g) \/ Retry(g))

TransportSpec     == TransportInit /\ [][TransportNext]_allVars
FairTransportSpec == TransportSpec /\ TransportFairness

-----------------------------------------------------------------------------
(* Properties *)

\* "retry exactly once with a freshly-minted token": the token of a retry was
\* minted after the one the server refused, whatever the other goroutines did
\* to the cache between the 401, the Invalidate and the second AccessToken.
RetryIsFresh ==
  \A g \in Goroutines :
    trip[g].stage = "sent" /\ trip[g].retried => trip[g].at > trip[g].first

\* A 401 reaches the caller only for a request that could not be replayed, or
\* after one retry, and no request is sent more than twice: the caller may
\* map it to an expired session.
Surfaced401 ==
  \A g \in Goroutines :
    trip[g].outcome = "401" =>
      IF trip[g].replayable THEN trip[g].retried /\ trip[g].sent = 2
                            ELSE trip[g].sent = 1

\* The strengthening the proof uses.  The stage of a round trip says which
\* call of the cache it is in; the tokens it remembers were issued.
StageMatchesCall ==
  \A g \in Goroutines :
    /\ trip[g].stage \in {"idle", "sent"} => pc[g] = "out"
    /\ trip[g].stage = "token" => pc[g] # "invalidate"
    /\ trip[g].stage = "invalidating" => pc[g] \in {"invalidate", "out"}
    /\ trip[g].at <= minted /\ trip[g].first <= minted

\* And how many requests it has put on the wire.
SentOncePerTry ==
  \A g \in Goroutines :
    /\ trip[g].stage # "idle" => trip[g].outcome = "none"
    /\ trip[g].stage = "token" => trip[g].sent = IF trip[g].retried THEN 1 ELSE 0
    /\ trip[g].stage = "sent" => trip[g].sent = IF trip[g].retried THEN 2 ELSE 1
    /\ trip[g].stage = "invalidating" => trip[g].retried /\ trip[g].sent = 1
    /\ trip[g].retried => trip[g].replayable

\* Once its Invalidate has taken effect, every token that can reach a retry
\* was minted after the one the 401 was for.
Dropped(g) ==
  /\ trip[g].retried
  /\ trip[g].stage \in {"token", "sent"} \/ (trip[g].stage = "invalidating" /\ pc[g] = "out")

NewerThan(g, first) ==
  /\ tokens.at = 0 \/ tokens.at > first
  /\ \A h \in Goroutines : pc[h] = "reply" /\ Granted(h) => newToks[h].at > first
  /\ pc[g] = "persist" => newToks[g].at > first
  /\ HasToken(g) => got[g] > first
  /\ trip[g].stage = "sent" => trip[g].at > first

OnlyNewerTokens == \A g \in Goroutines : Dropped(g) => NewerThan(g, trip[g].first)

TransportInv ==
  /\ IInv /\ TransportTypeOK /\ StageMatchesCall /\ SentOncePerTry
  /\ OnlyNewerTokens /\ Surfaced401

\* Every round trip ends.
RoundTripsEnd == \A g \in Goroutines : trip[g].stage # "idle" ~> trip[g].stage = "idle"
=============================================================================
