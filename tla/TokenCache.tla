----------------------------- MODULE TokenCache -----------------------------
(***************************************************************************)
(* auth.TokenCache: the access and refresh token of one CLI process, shared *)
(* by the goroutines that call the API, with the refresh grant it runs      *)
(* under its mutex and the keychain write it runs after releasing it.       *)
(*                                                                          *)
(* Access tokens and refresh tokens are numbered in the order Auth0 issues  *)
(* them; 0 stands for the empty string.  The expiry of an access token is   *)
(* abstracted to its membership of `aged', the tokens with no more than     *)
(* refreshSkew left: time only ever adds to that set.                       *)
(***************************************************************************)
EXTENDS Integers, FiniteSets

CONSTANTS Goroutines,        \* callers that share one cache
          Nobody,            \* the mutex is free
          MaxGrants,         \* bound on the access tokens Auth0 issues
          MaxInvalidations   \* bound on Invalidate calls

ASSUME NobodyAssumption == Nobody \notin Goroutines
ASSUME BoundsAssumption == MaxGrants \in Nat /\ MaxInvalidations \in Nat

VARIABLES
  mu,             \* holder of c.mu, or Nobody
  tokens,         \* c.tokens: the cached pair
  pc,             \* where each goroutine is inside the cache's methods
  newToks,        \* what each goroutine's own refresh returned
  verdict,        \* how each goroutine's last AccessToken call ended
  got,            \* the access token that call returned, 0 if none
  disk,           \* refresh token in the keychain profile
  live,           \* the refresh token Auth0 accepts
  alive,          \* Auth0 has not ended the session
  minted,         \* access tokens Auth0 has issued
  aged,           \* access tokens inside the skew window
  invalidations,  \* history: Invalidate calls that took effect
  lost,           \* history: grants whose answer never reached a process
  unsaved,        \* history: refresh tokens whose keychain write failed
  overtaken       \* history: refresh tokens an older one was written over

goVars   == <<pc, newToks, verdict, got>>
authVars == <<live, alive, minted>>
histVars == <<invalidations, lost, unsaved, overtaken>>
vars == <<mu, tokens, goVars, disk, authVars, aged, histVars>>

Labels   == {"out", "acquire", "refresh", "reply", "persist", "invalidate"}
Verdicts == {"none", "ok", "expired", "failed"}
NoTokens == [at |-> 0, rt |-> 0]

\* In particular the cache and the keychain always hold a refresh token that
\* Auth0 issued: it is never blanked, neither by Invalidate nor by an answer
\* that omits it.
TypeOK ==
  /\ mu \in Goroutines \cup {Nobody}
  /\ live \in Nat \ {0} /\ alive \in BOOLEAN
  /\ minted \in Nat /\ aged \in SUBSET (1..minted)
  /\ tokens \in [at : 0..minted, rt : 1..live]
  /\ disk \in 1..live
  /\ pc \in [Goroutines -> Labels]
  /\ newToks \in [Goroutines -> [at : 0..minted, rt : 0..live]]
  /\ verdict \in [Goroutines -> Verdicts]
  /\ got \in [Goroutines -> 0..minted]
  /\ invalidations \in Nat /\ lost \in Nat
  /\ unsaved \subseteq 1..live /\ overtaken \subseteq 1..live

(***************************************************************************)
(* A process starts from the profile in the keychain.  Either that profile  *)
(* holds the token Auth0 accepts, or an earlier process lost the answer to  *)
(* a rotation and left the keychain one rotation behind.                    *)
(***************************************************************************)
Init ==
  /\ mu = Nobody
  /\ \/ live = 1 /\ lost = 0
     \/ live = 2 /\ lost = 1
  /\ disk = 1
  /\ tokens = [at |-> 0, rt |-> disk]
  /\ pc = [g \in Goroutines |-> "out"]
  /\ newToks = [g \in Goroutines |-> NoTokens]
  /\ verdict = [g \in Goroutines |-> "none"]
  /\ got = [g \in Goroutines |-> 0]
  /\ alive = TRUE
  /\ minted = 0 /\ aged = {}
  /\ invalidations = 0 /\ unsaved = {} /\ overtaken = {}

-----------------------------------------------------------------------------
(* AccessToken *)

\* A goroutine enters a method of the cache and queues on the mutex.
CallAccessToken(g) ==
  /\ pc[g] = "out"
  /\ pc' = [pc EXCEPT ![g] = "acquire"]
  /\ UNCHANGED <<mu, tokens, newToks, verdict, got, disk, authVars, aged, histVars>>

Usable(toks) == toks.at # 0 /\ toks.at \notin aged

Return(g, how, at) ==
  /\ pc' = [pc EXCEPT ![g] = "out"]
  /\ verdict' = [verdict EXCEPT ![g] = how]
  /\ got' = [got EXCEPT ![g] = at]

\* The lock is taken, the cached token is good, the lock is released.
AccessTokenHit(g) ==
  /\ pc[g] = "acquire" /\ mu = Nobody
  /\ Usable(tokens)
  /\ Return(g, "ok", tokens.at)
  /\ UNCHANGED <<mu, tokens, newToks, disk, authVars, aged, histVars>>

\* Bug: the cached token is not looked at again once the lock is held.
AccessTokenMissUnchecked(g) ==
  /\ pc[g] = "acquire" /\ mu = Nobody
  /\ mu' = g
  /\ pc' = [pc EXCEPT ![g] = "refresh"]
  /\ UNCHANGED <<tokens, newToks, verdict, got, disk, authVars, aged, histVars>>

\* The lock is taken and held while the refresh grant is requested.
AccessTokenMiss(g) ==
  /\ pc[g] = "acquire" /\ mu = Nobody
  /\ ~Usable(tokens)
  /\ mu' = g
  /\ pc' = [pc EXCEPT ![g] = "refresh"]
  /\ UNCHANGED <<tokens, newToks, verdict, got, disk, authVars, aged, histVars>>

-----------------------------------------------------------------------------
(* Refresh: one request to Auth0, decided there before the answer is read. *)

\* A grant without a refresh token leaves the caller's own in place.
KeptRT(old, issued) == IF issued = 0 THEN old ELSE issued

AnsweredWith(g, toks) ==
  /\ pc' = [pc EXCEPT ![g] = "reply"]
  /\ newToks' = [newToks EXCEPT ![g] = toks]

\* Auth0 accepts the refresh token, and replaces it if the tenant rotates.
Auth0Grants(g) ==
  /\ pc[g] = "refresh" /\ minted < MaxGrants
  /\ alive /\ tokens.rt = live
  /\ \E issued \in {0, live + 1} :
       /\ live' = KeptRT(live, issued)
       /\ AnsweredWith(g, [at |-> minted + 1, rt |-> KeptRT(tokens.rt, issued)])
  /\ minted' = minted + 1
  /\ UNCHANGED <<mu, tokens, verdict, got, disk, alive, aged, histVars>>

\* invalid_grant: the session is over, or the token was already rotated away;
\* in the second case Auth0 may take it for theft and end the session.
Auth0Refuses(g) ==
  /\ pc[g] = "refresh"
  /\ ~alive \/ tokens.rt # live
  /\ AnsweredWith(g, NoTokens)
  /\ alive' \in {alive, FALSE}
  /\ UNCHANGED <<mu, tokens, verdict, got, disk, live, minted, aged, histVars>>

\* No request reached Auth0: network failure, or an answer that is no grant.
RefreshUnreachable(g) ==
  /\ pc[g] = "refresh"
  /\ mu' = Nobody
  /\ Return(g, "failed", 0)
  /\ UNCHANGED <<tokens, newToks, disk, authVars, aged, histVars>>

Granted(g) == newToks[g].at # 0

\* Bug: the error path returns without unlocking.
RefreshExpiredLocked(g) ==
  /\ pc[g] = "reply" /\ ~Granted(g)
  /\ Return(g, "expired", 0)
  /\ UNCHANGED <<mu, tokens, newToks, disk, authVars, aged, histVars>>

\* ErrSessionExpired goes back to the caller unchanged.
RefreshExpired(g) ==
  /\ pc[g] = "reply" /\ ~Granted(g)
  /\ mu' = Nobody
  /\ Return(g, "expired", 0)
  /\ UNCHANGED <<tokens, newToks, disk, authVars, aged, histVars>>

\* Auth0 decided, but the answer is lost: timeout, reset, undecodable body.
LoseReply(g) ==
  /\ pc[g] = "reply"
  /\ mu' = Nobody
  /\ Return(g, "failed", 0)
  /\ lost' = IF Granted(g) THEN lost + 1 ELSE lost
  /\ newToks' = [newToks EXCEPT ![g] = NoTokens]
  /\ UNCHANGED <<tokens, disk, authVars, aged, invalidations, unsaved, overtaken>>

\* Bug: the access token is adopted, the rotated refresh token is not.
AdoptAccessOnly(g) ==
  /\ pc[g] = "reply" /\ Granted(g)
  /\ tokens' = [newToks[g] EXCEPT !.rt = tokens.rt]
  /\ mu' = Nobody
  /\ pc' = [pc EXCEPT ![g] = "persist"]
  /\ UNCHANGED <<newToks, verdict, got, disk, authVars, aged, histVars>>

\* c.tokens = newToks, and only then the unlock.
Adopt(g) ==
  /\ pc[g] = "reply" /\ Granted(g)
  /\ tokens' = newToks[g]
  /\ mu' = Nobody
  /\ pc' = [pc EXCEPT ![g] = "persist"]
  /\ UNCHANGED <<newToks, verdict, got, disk, authVars, aged, histVars>>

\* Bug: the profile the process started from is written back as it was.
PersistUnchanged(g) ==
  /\ pc[g] = "persist"
  /\ disk' = disk
  /\ Return(g, "ok", newToks[g].at)
  /\ newToks' = [newToks EXCEPT ![g] = NoTokens]
  /\ UNCHANGED <<mu, tokens, authVars, aged, histVars>>

\* The keychain write, outside the mutex: any other goroutine may run first.
Persist(g) ==
  /\ pc[g] = "persist"
  /\ disk' = newToks[g].rt
  /\ overtaken' = overtaken \cup ((newToks[g].rt + 1)..disk)
  /\ Return(g, "ok", newToks[g].at)
  /\ newToks' = [newToks EXCEPT ![g] = NoTokens]
  /\ UNCHANGED <<mu, tokens, authVars, aged, invalidations, lost, unsaved>>

PersistFails(g) ==
  /\ pc[g] = "persist"
  /\ unsaved' = unsaved \cup {newToks[g].rt}
  /\ Return(g, "failed", 0)
  /\ newToks' = [newToks EXCEPT ![g] = NoTokens]
  /\ UNCHANGED <<mu, tokens, disk, authVars, aged, invalidations, lost, overtaken>>

-----------------------------------------------------------------------------
(* Invalidate *)

CallInvalidate(g) ==
  /\ pc[g] = "out" /\ invalidations < MaxInvalidations
  /\ pc' = [pc EXCEPT ![g] = "invalidate"]
  /\ UNCHANGED <<mu, tokens, newToks, verdict, got, disk, authVars, aged, histVars>>

\* Bug: the whole pair is dropped.
ClearedPair(toks) == NoTokens

\* Bug: the access token is left in place.
NotCleared(toks) == toks

\* The access token goes, the refresh token stays.
Cleared(toks) == [toks EXCEPT !.at = 0]

Invalidate(g) ==
  /\ pc[g] = "invalidate" /\ mu = Nobody
  /\ tokens' = Cleared(tokens)
  /\ pc' = [pc EXCEPT ![g] = "out"]
  /\ invalidations' = invalidations + 1
  /\ UNCHANGED <<mu, newToks, verdict, got, disk, authVars, aged, lost, unsaved,
                 overtaken>>

-----------------------------------------------------------------------------
(* The world outside the process *)

\* An access token enters the last refreshSkew of its life.
Age(at) ==
  /\ aged' = aged \cup {at}
  /\ UNCHANGED <<mu, tokens, goVars, disk, authVars, histVars>>

\* Auth0 ends the session: logout elsewhere, absolute lifetime, revocation.
Revoke ==
  /\ alive /\ alive' = FALSE
  /\ UNCHANGED <<mu, tokens, goVars, disk, live, minted, aged, histVars>>

-----------------------------------------------------------------------------
Enter(g)  == AccessTokenHit(g) \/ AccessTokenMiss(g) \/ Invalidate(g)
Answer(g) == Auth0Grants(g) \/ Auth0Refuses(g) \/ RefreshUnreachable(g)
Settle(g) == RefreshExpired(g) \/ LoseReply(g) \/ Adopt(g)
Save(g)   == Persist(g) \/ PersistFails(g)

\* The steps of g inside the cache's methods, once it has called one.
Inside(g) == Enter(g) \/ Answer(g) \/ Settle(g) \/ Save(g)

Environment == Revoke \/ \E at \in (1..minted) \ aged : Age(at)

Next ==
  \/ \E g \in Goroutines : CallAccessToken(g) \/ CallInvalidate(g) \/ Inside(g)
  \/ Environment

Spec == Init /\ [][Next]_vars

-----------------------------------------------------------------------------
(* Properties *)

InFlight(g) == pc[g] \in {"refresh", "reply"}

\* "only one refresh fires at a time": no two goroutines have a refresh grant
\* outstanding, and the one that has is the holder of the mutex.
SingleRefresh == \A g \in Goroutines : InFlight(g) <=> mu = g

\* Parallel calls coalesce: every access token Auth0 issues to this process is
\* paid for by one that went stale, was invalidated, or never arrived; a crowd
\* of callers that finds the cache empty costs one refresh, not one each.
RefreshesAreCaused ==
  minted <= 1 + Cardinality(aged) + invalidations + lost

\* The process never presents a refresh token that Auth0 has rotated away,
\* which would end the session, unless an answer to a rotation was lost.
PresentsLiveToken ==
  lost = 0 => \A g \in Goroutines : pc[g] = "refresh" => tokens.rt = live

\* "Session expired" is told to the user only when Auth0 did end the session
\* or an answer to a rotation was lost.
ExpiredIsTrue ==
  lost = 0 /\ alive => \A g \in Goroutines : verdict[g] # "expired"

\* The cached refresh token is never replaced by an older one, nor the cached
\* access token by an older one (it may be cleared).
MemoryMovesForward ==
  [][/\ tokens'.rt >= tokens.rt
     /\ tokens'.at = 0 \/ tokens'.at >= tokens.at]_vars

\* "refresh-token rotation survives across invocations": when no call is under
\* way, no answer was lost and no write failed, the keychain holds the refresh
\* token Auth0 will accept from the next process.
RotationSurvives ==
  (\A g \in Goroutines : pc[g] = "out") /\ lost = 0 /\ unsaved = {} => disk = live

\* What a crash at any moment costs.  Auth0 is one rotation ahead of the cache
\* at most, and only while an answer is under way or after one was lost; each
\* token the cache had and the keychain has not is still to be written, failed
\* to be, or was overtaken by the late write of an older one.
CrashIsAccountedFor ==
  /\ live - tokens.rt \in {0, 1}
  /\ live # tokens.rt => lost > 0 \/ \E g \in Goroutines : pc[g] = "reply" /\ Granted(g)
  /\ \A rt \in (disk + 1)..tokens.rt :
       \/ rt \in unsaved \cup overtaken
       \/ \E g \in Goroutines : pc[g] = "persist" /\ newToks[g].rt = rt

\* The strengthening the proofs use.  An answer held by the goroutine that
\* waits for it is the newest Auth0 gave; a pair being saved was issued.
AnswerIsNewest ==
  \A g \in Goroutines :
    pc[g] = "reply" /\ Granted(g) => newToks[g].at = minted /\ newToks[g].rt = live

SavesWhatWasIssued ==
  \A g \in Goroutines : pc[g] = "persist" => newToks[g].rt \in 1..live

IInv == TypeOK /\ SingleRefresh /\ AnswerIsNewest /\ SavesWhatWasIssued

\* With no answer lost, Auth0's token is the cached one, or the one in the
\* answer under way; and Auth0 has no reason to refuse while it is alive.
HoldsLiveToken ==
  lost = 0 =>
    /\ (\A g \in Goroutines : ~(pc[g] = "reply" /\ Granted(g))) => tokens.rt = live
    /\ alive => \A g \in Goroutines :
                  /\ pc[g] = "reply" => Granted(g)
                  /\ verdict[g] # "expired"

\* A token that can still be used, cached or on its way, is not yet paid for.
HasUnspentToken ==
  \/ Usable(tokens)
  \/ \E g \in Goroutines : pc[g] = "reply" /\ Usable(newToks[g])

\* A refresh is under way only while the cached token cannot be used.
RefreshIsNeeded ==
  \A g \in Goroutines : InFlight(g) => ~Usable(tokens)

MintsAccountedFor ==
  minted <= (IF HasUnspentToken THEN 1 ELSE 0)
              + (Cardinality(aged) + invalidations + lost)
=============================================================================
