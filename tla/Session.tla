------------------------------ MODULE Session -------------------------------
(***************************************************************************)
(* The session of one organization over many processes: login and register  *)
(* open it at Auth0 and store its refresh token in the keychain, commands   *)
(* load the profile, refresh and write the rotated token back, logout       *)
(* revokes the token and deletes the profile.  What the processes share is  *)
(* the keychain and Auth0.                                                  *)
(*                                                                          *)
(* A refresh token is a session and a rotation of it; session 0 stands for  *)
(* the empty token.  A tenant is an Auth0 domain; discovery documents are   *)
(* numbered in the order they are published, and the n-th names tenant n.   *)
(***************************************************************************)
EXTENDS Integers

CONSTANTS
  Processes,     \* CLI processes, each running one command after another
  NoProfile,     \* keychain.ErrNotFound
  MaxSessions,   \* bound on the sessions Auth0 opens
  MaxRotations,  \* bound on the refresh tokens of one session
  MaxTenants     \* bound on the discovery documents published

ASSUME BoundsAssumption ==
  /\ MaxSessions \in Nat
  /\ MaxRotations \in Nat \ {0}
  /\ MaxTenants \in Nat \ {0}

SessionIds == 1..MaxSessions
Rotations  == 1..MaxRotations
Tenants    == 1..MaxTenants
Stored     == [session : SessionIds \cup {0}, rotation : Rotations, tenant : Tenants]

ASSUME NoProfileAssumption == NoProfile \notin Stored

VARIABLES
  profile,      \* the organization's profile in the keychain
  sessions,     \* what Auth0 knows of each session
  opened,       \* sessions Auth0 has opened
  rotates,      \* the tenant setting: a refresh replaces the refresh token
  published,    \* the newest discovery document
  pc,           \* where each process is
  d,            \* the discovery document it loaded
  held,         \* the profile it loaded, with the newest token it was given
  overlapped,   \* history: a command started while another was running
  disturbed,    \* history: sessions a process left half way or Auth0 ended
  unrevoked     \* history: sessions a login wrote over or whose logout warned

keychain == profile
auth0    == <<sessions, opened, rotates, published>>
process  == <<pc, d, held>>
history  == <<overlapped, disturbed, unrevoked>>
vars == <<keychain, auth0, process, history>>

Commands == {"command", "login", "logout"}
Labels   == Commands \cup {"idle", "refresh", "persist", "working", "store",
                           "revoke", "delete"}

TypeOK ==
  /\ profile \in Stored \cup {NoProfile}
  /\ sessions \in [SessionIds -> [current : Rotations, tenant : Tenants, alive : BOOLEAN]]
  /\ opened \in 0..MaxSessions
  /\ rotates \in BOOLEAN
  /\ published \in Tenants
  /\ pc \in [Processes -> Labels]
  /\ d \in [Processes -> Tenants]
  /\ held \in [Processes -> Stored \cup {NoProfile}]
  /\ \A p \in Processes :
       pc[p] \in {"refresh", "persist", "working", "store", "revoke", "delete"} =>
         held[p] # NoProfile
  /\ overlapped \in BOOLEAN
  /\ disturbed \cup unrevoked \subseteq SessionIds

\* Nobody has logged in yet.
Init ==
  /\ profile = NoProfile
  /\ sessions = [s \in SessionIds |-> [current |-> 1, tenant |-> 1, alive |-> FALSE]]
  /\ opened = 0 /\ rotates \in BOOLEAN /\ published = 1
  /\ pc = [p \in Processes |-> "idle"]
  /\ d = [p \in Processes |-> 1]
  /\ held = [p \in Processes |-> NoProfile]
  /\ overlapped = FALSE
  /\ disturbed = {} /\ unrevoked = {}

-----------------------------------------------------------------------------
(* Every process *)

\* LoadDiscovery comes first and may answer from its cache, so any document
\* ever published; logout goes without.
Start(p) ==
  /\ pc[p] = "idle"
  /\ \/ /\ \E c \in {"command", "login"} : pc' = [pc EXCEPT ![p] = c]
        /\ \E t \in 1..published : d' = [d EXCEPT ![p] = t]
     \/ pc' = [pc EXCEPT ![p] = "logout"] /\ UNCHANGED d
  /\ overlapped' = (overlapped \/ \E q \in Processes \ {p} : pc[q] # "idle")
  /\ UNCHANGED <<keychain, auth0, held, disturbed, unrevoked>>

\* The process ends, and what it had in memory is gone.
Exit(p) ==
  /\ pc' = [pc EXCEPT ![p] = "idle"]
  /\ d' = [d EXCEPT ![p] = 1]
  /\ held' = [held EXCEPT ![p] = NoProfile]
  /\ UNCHANGED overlapped

\* An error or a signal before anything was changed anywhere.
Fail(p) ==
  /\ pc[p] \in Commands \cup {"refresh", "revoke"}
  /\ Exit(p)
  /\ UNCHANGED <<keychain, auth0, disturbed, unrevoked>>

\* keychain.Load finds nothing: exit code 3 for a command, success for logout.
NotLoggedIn(p) ==
  /\ pc[p] \in {"command", "logout"} /\ profile = NoProfile
  /\ Exit(p)
  /\ UNCHANGED <<keychain, auth0, disturbed, unrevoked>>

Load(p) ==
  /\ pc[p] \in {"command", "logout"} /\ profile # NoProfile
  /\ held' = [held EXCEPT ![p] = profile]
  /\ pc' = [pc EXCEPT ![p] = IF pc[p] = "command" THEN "refresh" ELSE "revoke"]
  /\ UNCHANGED <<keychain, auth0, d, history>>

\* A step that does not come back: the session it was about is left half way.
Interrupt(p) ==
  /\ Exit(p)
  /\ disturbed' = disturbed \cup ({held[p].session} \ {0})
  /\ UNCHANGED <<keychain, auth0, unrevoked>>

-----------------------------------------------------------------------------
(* A command: refresh, persist, and again while it runs *)

\* Bug: the refresh goes to the domain in the profile, the profile is
\* rewritten with the one in the discovery document.
AsksStoredTenant(p) == held[p].tenant

\* RefreshConfig.Auth0Domain.
AsksTenant(p) == d[p]

Known(h, tenant)   == h.session # 0 /\ sessions[h.session].tenant = tenant
Current(h)         == h.rotation = sessions[h.session].current
Accepts(h, tenant) == Known(h, tenant) /\ Current(h) /\ sessions[h.session].alive

\* Auth0 accepts the refresh token, and replaces it if the tenant rotates.
Auth0Grants(p) ==
  /\ pc[p] = "refresh"
  /\ Accepts(held[p], AsksTenant(p))
  /\ IF rotates
     THEN LET next == held[p].rotation + 1 IN
          /\ next <= MaxRotations
          /\ sessions' = [sessions EXCEPT ![held[p].session].current = next]
          /\ held' = [held EXCEPT ![p].rotation = next]
     ELSE UNCHANGED <<sessions, held>>
  /\ pc' = [pc EXCEPT ![p] = "persist"]
  /\ UNCHANGED <<keychain, opened, rotates, published, d, history>>

\* invalid_grant.  Auth0 may take a token it has replaced for a stolen one.
Auth0Refuses(p) ==
  /\ pc[p] = "refresh"
  /\ ~Accepts(held[p], AsksTenant(p))
  /\ \/ UNCHANGED sessions
     \/ /\ Known(held[p], AsksTenant(p)) /\ ~Current(held[p])
        /\ sessions' = [sessions EXCEPT ![held[p].session].alive = FALSE]
  /\ Exit(p)
  /\ UNCHANGED <<keychain, opened, rotates, published, disturbed, unrevoked>>

\* Bug: the profile is written back as it was loaded.
PersistLoaded(p) ==
  /\ pc[p] = "persist"
  /\ pc' = [pc EXCEPT ![p] = "working"]
  /\ UNCHANGED <<keychain, auth0, d, held, history>>

\* The whole profile: the new token, the fields of the discovery document.
Persist(p) ==
  /\ pc[p] = "persist"
  /\ profile' = [held[p] EXCEPT !.tenant = d[p]]
  /\ pc' = [pc EXCEPT ![p] = "working"]
  /\ UNCHANGED <<auth0, d, held, history>>

\* The answer is lost, the keychain write fails, or the process is killed.
\* A token that was not replaced is still the one in the keychain.
PersistNever(p) ==
  /\ pc[p] = "persist"
  /\ IF rotates THEN Interrupt(p)
                ELSE /\ Exit(p)
                     /\ UNCHANGED <<keychain, auth0, disturbed, unrevoked>>

\* The access token is no longer good: a long --wait, or a 401.
RefreshAgain(p) ==
  /\ pc[p] = "working"
  /\ pc' = [pc EXCEPT ![p] = "refresh"]
  /\ UNCHANGED <<keychain, auth0, d, held, history>>

\* Bug: the command saves its profile once more at its end.
FinishAndSave(p) ==
  /\ pc[p] = "working"
  /\ Exit(p)
  /\ profile' = [held[p] EXCEPT !.tenant = d[p]]
  /\ UNCHANGED <<auth0, disturbed, unrevoked>>

Finish(p) ==
  /\ pc[p] = "working"
  /\ Exit(p)
  /\ UNCHANGED <<keychain, auth0, disturbed, unrevoked>>

-----------------------------------------------------------------------------
(* login and register *)

\* The login flow ends with tokens; without the offline_access scope the
\* refresh token is empty, and is stored all the same.
LoginFlow(p) ==
  /\ pc[p] = "login"
  /\ \/ /\ opened < MaxSessions
        /\ opened' = opened + 1
        /\ sessions' = [sessions EXCEPT
             ![opened + 1] = [current |-> 1, tenant |-> d[p], alive |-> TRUE]]
        /\ held' = [held EXCEPT
             ![p] = [session |-> opened + 1, rotation |-> 1, tenant |-> d[p]]]
     \/ /\ held' = [held EXCEPT ![p] = [session |-> 0, rotation |-> 1, tenant |-> d[p]]]
        /\ UNCHANGED <<sessions, opened>>
  /\ pc' = [pc EXCEPT ![p] = "store"]
  /\ UNCHANGED <<keychain, rotates, published, d, history>>

InProfile == IF profile = NoProfile THEN {} ELSE {profile.session} \ {0}

\* What was in the keychain is written over and not revoked.
StoreLogin(p) ==
  /\ pc[p] = "store"
  /\ profile' = held[p]
  /\ unrevoked' = unrevoked \cup InProfile
  /\ Exit(p)
  /\ UNCHANGED <<auth0, disturbed>>

\* The tokens are lost: keychain.Store fails or the process is killed.
StoreNever(p) == pc[p] = "store" /\ Interrupt(p)

-----------------------------------------------------------------------------
(* logout *)

\* Bug: logout only deletes the profile.
RevokeSkipped(p) ==
  /\ pc[p] = "revoke"
  /\ pc' = [pc EXCEPT ![p] = "delete"]
  /\ UNCHANGED <<keychain, auth0, d, held, history>>

Ended(s) == [sessions EXCEPT ![s].alive = FALSE]

\* Answered with 200 whatever the token.  A token Auth0 has replaced may or
\* may not take its successors with it.
Revoke(p) ==
  /\ pc[p] = "revoke"
  /\ IF ~Known(held[p], held[p].tenant) THEN UNCHANGED sessions
     ELSE sessions' \in {Ended(held[p].session)}
                          \cup (IF Current(held[p]) THEN {} ELSE {sessions})
  /\ pc' = [pc EXCEPT ![p] = "delete"]
  /\ UNCHANGED <<keychain, opened, rotates, published, d, held, history>>

\* A warning, and on to the delete.  Auth0 may have had the request.
RevokeFails(p) ==
  /\ pc[p] = "revoke"
  /\ \/ UNCHANGED sessions
     \/ Known(held[p], held[p].tenant) /\ sessions' = Ended(held[p].session)
  /\ unrevoked' = unrevoked \cup ({held[p].session} \ {0})
  /\ pc' = [pc EXCEPT ![p] = "delete"]
  /\ UNCHANGED <<keychain, opened, rotates, published, d, held,
                 overlapped, disturbed>>

\* A profile that is already gone is no error.
Delete(p) ==
  /\ pc[p] = "delete"
  /\ profile' = NoProfile
  /\ Exit(p)
  /\ UNCHANGED <<auth0, disturbed, unrevoked>>

DeleteNever(p) == pc[p] = "delete" /\ Interrupt(p)

-----------------------------------------------------------------------------
(* The world outside the processes *)

PublishDiscovery ==
  /\ published < MaxTenants
  /\ published' = published + 1
  /\ UNCHANGED <<keychain, sessions, opened, rotates, process, history>>

Auth0Ends(s) ==
  /\ sessions[s].alive
  /\ sessions' = Ended(s)
  /\ disturbed' = disturbed \cup {s}
  /\ UNCHANGED <<keychain, opened, rotates, published, process, overlapped, unrevoked>>

-----------------------------------------------------------------------------
Command(p) == Auth0Grants(p) \/ Auth0Refuses(p) \/ Persist(p) \/ PersistNever(p)
                \/ RefreshAgain(p) \/ Finish(p)
Login(p)   == LoginFlow(p) \/ StoreLogin(p) \/ StoreNever(p)
Logout(p)  == Revoke(p) \/ RevokeFails(p) \/ Delete(p) \/ DeleteNever(p)

Step(p) ==
  Start(p) \/ Fail(p) \/ NotLoggedIn(p) \/ Load(p) \/ Command(p) \/ Login(p) \/ Logout(p)

Next ==
  \/ \E p \in Processes : Step(p)
  \/ PublishDiscovery
  \/ \E s \in SessionIds : Auth0Ends(s)

Spec == Init /\ [][Next]_vars

-----------------------------------------------------------------------------
(* Properties *)

\* The Auth0 domain in the keychain is the one that issued the refresh token
\* next to it, whatever documents the processes that wrote it had loaded and
\* however they overlapped: logout asks it to revoke that token.
ProfileNamesIssuer ==
  profile # NoProfile /\ profile.session # 0 => Known(profile, profile.tenant)

\* Processes that overlap do not put back a refresh token of the session that
\* one of them already had replaced.
RotationNeverReverts ==
  [][ /\ profile # NoProfile /\ profile' # NoProfile
      /\ profile.session = profile'.session
      => profile'.rotation >= profile.rotation ]_vars

\* A user who runs one command after another stays logged in: between two
\* commands the keychain holds the token Auth0 accepts, unless Auth0 ended the
\* session or a process was cut off while it had the only copy.
TurnsKeepTheSession ==
  /\ ~overlapped /\ \A p \in Processes : pc[p] = "idle"
  /\ profile # NoProfile /\ profile.session \notin {0} \cup disturbed
  => Accepts(profile, profile.tenant)

\* Logout means out: a session that is alive at Auth0 is in the keychain or
\* in the hands of a running process, or the user was told: its logout warned,
\* a process was cut off, or a second login wrote over it.
NoSessionIsForgotten ==
  ~overlapped =>
    \A s \in SessionIds :
      sessions[s].alive =>
        \/ s \in InProfile \cup unrevoked \cup disturbed
        \/ \E p \in Processes : held[p] # NoProfile /\ held[p].session = s

\* "Session expired" has a cause outside the commands that ran: the refresh
\* token a command presents is good unless Auth0 ended the session, a process
\* was cut off, no refresh token was ever asked for, or discovery has moved to
\* another tenant.
ExpiryHasACause ==
  \A p \in Processes :
    pc[p] = "refresh" /\ ~overlapped =>
      \/ Accepts(held[p], AsksTenant(p))
      \/ held[p].session \in {0} \cup disturbed
      \/ d[p] # held[p].tenant

\* The strengthening the proofs use.  Every copy of a profile is of a session
\* Auth0 opened at the copy's tenant, and is not ahead of Auth0.
Sound(h) ==
  h # NoProfile =>
    /\ h.session = 0 => h.rotation = 1
    /\ h.session # 0 =>
         /\ h.session <= opened
         /\ sessions[h.session].tenant = h.tenant
         /\ h.rotation <= sessions[h.session].current

Of(h, s) == h # NoProfile /\ h.session = s

CopiesAreSound == Sound(profile) /\ \A p \in Processes : Sound(held[p])

\* A session that is being stored is in nobody else's hands.
LoginIsFresh ==
  \A p \in Processes :
    pc[p] = "store" /\ held[p].session # 0 =>
      /\ ~Of(profile, held[p].session)
      /\ \A q \in Processes \ {p} : ~Of(held[q], held[p].session)

\* What a process is about to persist is the newest token of its session and,
\* where tokens are replaced, the only copy of it.
PersistsNewest ==
  \A p \in Processes :
    pc[p] = "persist" =>
      /\ held[p].session # 0 /\ d[p] = held[p].tenant
      /\ Current(held[p])
      /\ rotates =>
           /\ Of(profile, held[p].session) => profile.rotation < held[p].rotation
           /\ \A q \in Processes \ {p} :
                Of(held[q], held[p].session) => held[q].rotation < held[p].rotation

IInv == TypeOK /\ CopiesAreSound /\ LoginIsFresh /\ PersistsNewest

\* The strengthening for processes that take turns.  A profile is good when
\* Auth0 accepts its token, unless that session is excused.
Good(h) == h.session \in {0} \cup disturbed \/ Accepts(h, h.tenant)

Holding == {"refresh", "persist", "working", "store", "revoke", "delete"}

ReadersHoldNothing == \A p \in Processes : pc[p] \notin Holding => held[p] = NoProfile

OneAtWork == \A p, q \in Processes : pc[p] # "idle" /\ pc[q] # "idle" => p = q

\* Only the process that was just given the next token, or has just revoked
\* this one, may stand next to a profile that is not good.
ProfileIsGood ==
  profile # NoProfile /\ (\A p \in Processes : pc[p] \notin {"persist", "delete"}) =>
    Good(profile)

\* What a process holds, next to the profile it came from.
InStep(p) ==
  /\ pc[p] \in {"refresh", "working", "revoke", "delete"} => held[p] = profile
  /\ pc[p] = "persist" =>
       /\ profile # NoProfile /\ profile.session = held[p].session
       /\ Good(held[p])
       /\ ~rotates => profile = held[p]
  /\ pc[p] = "store" => Good(held[p])
  /\ pc[p] = "delete" =>
       \/ held[p].session \in {0} \cup disturbed \cup unrevoked
       \/ ~sessions[held[p].session].alive

TurnsInv ==
  /\ ReadersHoldNothing
  /\ ~overlapped => /\ OneAtWork /\ ProfileIsGood /\ NoSessionIsForgotten
                    /\ \A p \in Processes : InStep(p)
=============================================================================
