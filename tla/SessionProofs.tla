---------------------------- MODULE SessionProofs ----------------------------
(***************************************************************************)
(* Proofs about Session, for any processes and bounds.  Most actions do not *)
(* touch what Auth0 issued and hand on no token but the profile's: Passive  *)
(* says so, and PassiveKeeps covers them together.  The four that are left  *)
(* issue a token (Auth0Grants, LoginFlow) or write one (Persist,            *)
(* StoreLogin).                                                             *)
(***************************************************************************)
EXTENDS Session, TLAPS

SessionRecords == [current : Rotations, tenant : Tenants, alive : BOOLEAN]

\* Auth0 may have ended a session, and nothing more.
IssuesNothing ==
  /\ opened' = opened /\ rotates' = rotates
  /\ sessions' \in [SessionIds -> SessionRecords]
  /\ \A s \in SessionIds : /\ sessions'[s].current = sessions[s].current
                           /\ sessions'[s].tenant = sessions[s].tenant

Passive ==
  /\ IssuesNothing
  /\ profile' \in {profile, NoProfile}
  /\ \A p \in Processes :
       /\ held'[p] \in {held[p], profile, NoProfile}
       /\ pc'[p] \in {"persist", "store"} =>
            pc'[p] = pc[p] /\ held'[p] = held[p] /\ d'[p] = d[p]

(***************************************************************************)
(* The end of a session changes no token and no tenant.                     *)
(***************************************************************************)
LEMMA EndingIssuesNothing ==
  ASSUME TypeOK, NEW s \in SessionIds, sessions' = Ended(s),
         opened' = opened, rotates' = rotates
  PROVE  IssuesNothing
<1>1. sessions \in [SessionIds -> SessionRecords]  BY DEF TypeOK, SessionRecords
<1>2. [sessions[s] EXCEPT !.alive = FALSE] \in SessionRecords
  BY <1>1 DEF SessionRecords
<1>3. sessions' = [sessions EXCEPT ![s] = [sessions[s] EXCEPT !.alive = FALSE]]
  BY DEF Ended
<1> QED  BY <1>1, <1>2, <1>3 DEF IssuesNothing, SessionRecords

LEMMA StandingIssuesNothing ==
  ASSUME TypeOK, UNCHANGED <<sessions, opened, rotates>>
  PROVE  IssuesNothing
BY DEF TypeOK, IssuesNothing, SessionRecords

(***************************************************************************)
(* A step that issues nothing and passes on only the profile keeps every    *)
(* copy sound, a login fresh and the token about to be persisted unique.    *)
(***************************************************************************)
LEMMA PassiveKeeps ==
  ASSUME IInv, Passive
  PROVE  CopiesAreSound' /\ LoginIsFresh' /\ PersistsNewest'
<1> USE DEF IInv, Passive, IssuesNothing
<1>1. CopiesAreSound'
  <2>1. Sound(profile)'
    BY DEF CopiesAreSound, Sound, TypeOK, Stored, SessionIds, Rotations
  <2>2. ASSUME NEW p \in Processes  PROVE Sound(held[p])'
    BY DEF CopiesAreSound, Sound, TypeOK, Stored, SessionIds, Rotations
  <2> QED  BY <2>1, <2>2 DEF CopiesAreSound
<1>2. LoginIsFresh'
  BY DEF LoginIsFresh, Of
<1>3. PersistsNewest'
  BY DEF PersistsNewest, Of, Current, TypeOK, Stored
<1> QED  BY <1>1, <1>2, <1>3

(***************************************************************************)
(* Every action keeps the state well typed.                                 *)
(***************************************************************************)
LEMMA ExitTyped ==
  ASSUME TypeOK, NEW p \in Processes, Exit(p),
         profile' \in Stored \cup {NoProfile},
         sessions' \in [SessionIds -> SessionRecords],
         disturbed' \cup unrevoked' \subseteq SessionIds,
         UNCHANGED <<opened, rotates, published>>
  PROVE  TypeOK'
<1>1. pc' \in [Processes -> Labels] /\ d' \in [Processes -> Tenants]
  BY BoundsAssumption DEF TypeOK, Exit, Labels, Commands, Tenants
<1>2. held' \in [Processes -> Stored \cup {NoProfile}]
  BY DEF TypeOK, Exit
<1>3. \A q \in Processes : pc'[q] = "idle" \/ (pc'[q] = pc[q] /\ held'[q] = held[q])
  BY DEF TypeOK, Exit
<1> QED  BY <1>1, <1>2, <1>3 DEF TypeOK, Exit, SessionRecords

LEMMA InterruptTyped ==
  ASSUME TypeOK, NEW p \in Processes, held[p] # NoProfile, Interrupt(p)
  PROVE  TypeOK'
<1>1. disturbed' \cup unrevoked' \subseteq SessionIds
  BY DEF TypeOK, Interrupt, Stored
<1> QED  BY <1>1, ExitTyped DEF TypeOK, Interrupt, auth0, keychain, SessionRecords

LEMMA CommandTyped ==
  ASSUME TypeOK, NEW p \in Processes, Command(p)
  PROVE  TypeOK'
<1>1. CASE Auth0Grants(p)
  <2>1. held[p] \in Stored /\ held[p].session \in SessionIds
    BY <1>1 DEF TypeOK, Auth0Grants, Accepts, Known, Stored
  <2>2. CASE rotates
    <3>1. PICK next \in Rotations :
            /\ sessions' = [sessions EXCEPT ![held[p].session].current = next]
            /\ held' = [held EXCEPT ![p].rotation = next]
      BY <1>1, <2>1, <2>2 DEF Auth0Grants, Stored, Rotations
    <3>2. [sessions[held[p].session] EXCEPT !.current = next] \in SessionRecords
      BY <2>1, <3>1 DEF TypeOK, SessionRecords
    <3>3. [held[p] EXCEPT !.rotation = next] \in Stored
      BY <2>1, <3>1 DEF Stored
    <3>4. sessions' \in [SessionIds -> SessionRecords]
      BY <2>1, <3>1, <3>2 DEF TypeOK, SessionRecords
    <3>5. held' \in [Processes -> Stored \cup {NoProfile}]
          /\ \A q \in Processes : held[q] # NoProfile => held'[q] # NoProfile
      BY <2>1, <3>1, <3>3, NoProfileAssumption DEF TypeOK
    <3> QED  BY <1>1, <2>1, <3>4, <3>5
             DEF TypeOK, Auth0Grants, SessionRecords, Labels, keychain, history
  <2>3. CASE ~rotates
    BY <1>1, <2>3 DEF TypeOK, Auth0Grants, Labels, keychain, history
  <2> QED  BY <2>2, <2>3
<1>2. CASE Auth0Refuses(p)
  <2>1. sessions' \in [SessionIds -> SessionRecords]
    <3>1. CASE UNCHANGED sessions  BY <3>1 DEF TypeOK, SessionRecords
    <3>2. CASE Known(held[p], AsksTenant(p)) /\ sessions' = Ended(held[p].session)
      <4>1. held[p].session \in SessionIds
        BY <1>2, <3>2 DEF TypeOK, Auth0Refuses, Known, Stored
      <4>2. [sessions[held[p].session] EXCEPT !.alive = FALSE] \in SessionRecords
        BY <4>1 DEF TypeOK, SessionRecords
      <4> QED  BY <3>2, <4>1, <4>2 DEF TypeOK, Ended, SessionRecords
    <3> QED  BY <1>2, <3>1, <3>2 DEF Auth0Refuses, Ended
  <2> QED  BY <1>2, <2>1, ExitTyped DEF TypeOK, Auth0Refuses, keychain
<1>3. CASE Persist(p)
  <2>1. [held[p] EXCEPT !.tenant = d[p]] \in Stored
    BY <1>3 DEF TypeOK, Persist, Stored
  <2> QED  BY <1>3, <2>1 DEF TypeOK, Persist, Labels, auth0, history
<1>4. CASE PersistNever(p)
  <2>1. CASE Interrupt(p)
    BY <1>4, <2>1, InterruptTyped DEF TypeOK, PersistNever
  <2>2. CASE Exit(p) /\ UNCHANGED <<keychain, auth0, disturbed, unrevoked>>
    BY <2>2, ExitTyped DEF TypeOK, keychain, auth0, SessionRecords
  <2> QED  BY <1>4, <2>1, <2>2 DEF PersistNever
<1>5. CASE RefreshAgain(p)
  BY <1>5 DEF TypeOK, RefreshAgain, Labels, keychain, auth0, history
<1>6. CASE Finish(p)
  BY <1>6, ExitTyped DEF TypeOK, Finish, keychain, auth0, SessionRecords
<1> QED  BY <1>1, <1>2, <1>3, <1>4, <1>5, <1>6 DEF Command

LEMMA LoginTyped ==
  ASSUME TypeOK, NEW p \in Processes, Login(p)
  PROVE  TypeOK'
<1>1. CASE LoginFlow(p)
  <2>1. PICK h \in Stored : held' = [held EXCEPT ![p] = h]
    BY <1>1, BoundsAssumption DEF TypeOK, LoginFlow, Stored, SessionIds, Rotations
  <2>2. sessions' \in [SessionIds -> SessionRecords] /\ opened' \in 0..MaxSessions
    <3>1. [current |-> 1, tenant |-> d[p], alive |-> TRUE] \in SessionRecords
      BY BoundsAssumption DEF TypeOK, SessionRecords, Rotations
    <3>2. CASE UNCHANGED <<sessions, opened>>
      BY <3>2 DEF TypeOK, SessionRecords
    <3>3. CASE /\ opened < MaxSessions /\ opened' = opened + 1
               /\ sessions' = [sessions EXCEPT
                    ![opened + 1] = [current |-> 1, tenant |-> d[p], alive |-> TRUE]]
      <4>1. opened + 1 \in SessionIds
        BY <3>3, BoundsAssumption DEF TypeOK, SessionIds
      <4>2. sessions \in [SessionIds -> SessionRecords]
        BY DEF TypeOK, SessionRecords
      <4>3. sessions' \in [SessionIds -> SessionRecords]
        BY <3>1, <3>3, <4>1, <4>2
      <4>4. opened' \in 0..MaxSessions
        BY <3>3, BoundsAssumption DEF TypeOK
      <4> QED  BY <4>3, <4>4
    <3> QED  BY <1>1, <3>2, <3>3 DEF LoginFlow
  <2> QED  BY <1>1, <2>1, <2>2, NoProfileAssumption
           DEF TypeOK, LoginFlow, SessionRecords, Labels, keychain, history
<1>2. CASE StoreLogin(p)
  <2>1. unrevoked' \subseteq SessionIds
    BY <1>2 DEF TypeOK, StoreLogin, InProfile, Stored
  <2> QED  BY <1>2, <2>1, ExitTyped DEF TypeOK, StoreLogin, auth0, SessionRecords
<1>3. CASE StoreNever(p)
  BY <1>3, InterruptTyped DEF TypeOK, StoreNever
<1> QED  BY <1>1, <1>2, <1>3 DEF Login

LEMMA LogoutTyped ==
  ASSUME TypeOK, NEW p \in Processes, Logout(p)
  PROVE  TypeOK'
<1>1. ASSUME held[p].session \in SessionIds
      PROVE  Ended(held[p].session) \in [SessionIds -> SessionRecords]
  <2>1. [sessions[held[p].session] EXCEPT !.alive = FALSE] \in SessionRecords
    BY <1>1 DEF TypeOK, SessionRecords
  <2> QED  BY <1>1, <2>1 DEF TypeOK, Ended, SessionRecords
<1>2. sessions \in [SessionIds -> SessionRecords]
  BY DEF TypeOK, SessionRecords
<1>3. CASE Revoke(p)
  <2>1. sessions' \in [SessionIds -> SessionRecords]
    BY <1>1, <1>2, <1>3 DEF TypeOK, Revoke, Known, Stored
  <2> QED  BY <1>3, <2>1 DEF TypeOK, Revoke, Labels, SessionRecords, keychain, history
<1>4. CASE RevokeFails(p)
  <2>1. held[p] \in Stored
    BY <1>4 DEF TypeOK, RevokeFails
  <2>2. sessions' \in [SessionIds -> SessionRecords]
    BY <1>1, <1>2, <1>4, <2>1 DEF RevokeFails, Known, Stored
  <2>3. unrevoked' \subseteq SessionIds
    BY <1>4, <2>1 DEF TypeOK, RevokeFails, Stored
  <2> QED  BY <1>4, <2>2, <2>3 DEF TypeOK, RevokeFails, Labels, SessionRecords, keychain
<1>5. CASE Delete(p)
  BY <1>2, <1>5, ExitTyped DEF TypeOK, Delete, auth0
<1>6. CASE DeleteNever(p)
  BY <1>6, InterruptTyped DEF TypeOK, DeleteNever
<1> QED  BY <1>3, <1>4, <1>5, <1>6 DEF Logout

LEMMA StepTyped ==
  ASSUME TypeOK, NEW p \in Processes, Step(p)
  PROVE  TypeOK'
<1>1. CASE Start(p)
  <2>1. d' \in [Processes -> Tenants] /\ pc' \in [Processes -> Labels]
    BY <1>1, BoundsAssumption DEF TypeOK, Start, Labels, Commands, Tenants
  <2>2. \A q \in Processes : pc'[q] \in Commands \/ pc'[q] = pc[q]
    BY <1>1 DEF TypeOK, Start, Commands
  <2>3. overlapped' \in BOOLEAN
    BY <1>1 DEF Start
  <2> QED  BY <1>1, <2>1, <2>2, <2>3 DEF TypeOK, Start, Commands, keychain, auth0
<1>2. CASE Fail(p)
  BY <1>2, ExitTyped DEF TypeOK, Fail, keychain, auth0, SessionRecords
<1>3. CASE NotLoggedIn(p)
  BY <1>3, ExitTyped DEF TypeOK, NotLoggedIn, keychain, auth0, SessionRecords
<1>4. CASE Load(p)
  BY <1>4 DEF TypeOK, Load, Labels, keychain, auth0, history
<1> QED  BY <1>1, <1>2, <1>3, <1>4, CommandTyped, LoginTyped, LogoutTyped DEF Step

LEMMA InitTyped == Init => TypeOK
<1> SUFFICES ASSUME Init  PROVE TypeOK  OBVIOUS
<1>1. 1 \in Rotations /\ 1 \in Tenants /\ 0 \in 0..MaxSessions
  BY BoundsAssumption DEF Rotations, Tenants
<1>2. sessions \in [SessionIds -> [current : Rotations, tenant : Tenants, alive : BOOLEAN]]
  BY <1>1 DEF Init
<1> QED  BY <1>1, <1>2 DEF Init, TypeOK, Labels

LEMMA NextTyped == TypeOK /\ [Next]_vars => TypeOK'
<1> SUFFICES ASSUME TypeOK, [Next]_vars  PROVE TypeOK'  OBVIOUS
<1>1. ASSUME NEW p \in Processes, Step(p)  PROVE TypeOK'
  BY <1>1, StepTyped
<1>2. CASE PublishDiscovery
  <2>1. published' \in Tenants
    BY <1>2, BoundsAssumption DEF TypeOK, PublishDiscovery, Tenants
  <2> QED  BY <1>2, <2>1 DEF TypeOK, PublishDiscovery, keychain, process, history
<1>3. ASSUME NEW s \in SessionIds, Auth0Ends(s)  PROVE TypeOK'
  <2>1. [sessions[s] EXCEPT !.alive = FALSE] \in SessionRecords
    BY DEF TypeOK, SessionRecords
  <2>2. sessions' \in [SessionIds -> SessionRecords]
    BY <1>3, <2>1 DEF TypeOK, Auth0Ends, Ended, SessionRecords
  <2> QED  BY <1>3, <2>2 DEF TypeOK, Auth0Ends, SessionRecords, keychain, process
<1>4. CASE UNCHANGED vars
  BY <1>4 DEF TypeOK, vars, keychain, auth0, process, history
<1> QED  BY <1>1, <1>2, <1>3, <1>4 DEF Next

(***************************************************************************)
(* The state is well typed: in particular a process acts on a profile only  *)
(* when it has one.                                                         *)
(***************************************************************************)
THEOREM TypeCorrect == Spec => []TypeOK
BY InitTyped, NextTyped, PTL DEF Spec

(***************************************************************************)
(* The four actions that issue a token or write one.                        *)
(***************************************************************************)
LEMMA GrantKeeps ==
  ASSUME IInv, NEW p \in Processes, Auth0Grants(p), rotates
  PROVE  CopiesAreSound' /\ LoginIsFresh' /\ PersistsNewest'
<1> DEFINE s == held[p].session
           next == held[p].rotation + 1
<1>1. /\ s \in SessionIds /\ held[p] \in Stored /\ held[p] # NoProfile
      /\ s # 0 /\ s <= opened /\ sessions[s].tenant = held[p].tenant
      /\ d[p] = held[p].tenant
      /\ held[p].rotation = sessions[s].current
  BY DEF IInv, TypeOK, CopiesAreSound, Sound, Auth0Grants, Accepts, AsksTenant, Known,
         Current, Stored, SessionIds
<1>2. /\ next \in Nat /\ next > held[p].rotation
      /\ \A q \in Processes : q # p => held'[q] = held[q] /\ pc'[q] = pc[q]
      /\ held'[p] # NoProfile
      /\ held'[p].session = s /\ held'[p].rotation = next
      /\ held'[p].tenant = held[p].tenant
      /\ pc'[p] = "persist"
      /\ UNCHANGED <<profile, opened, rotates, d>>
  <2>1. held' = [held EXCEPT ![p] = [held[p] EXCEPT !.rotation = next]]
    BY DEF Auth0Grants
  <2>2. [held[p] EXCEPT !.rotation = next] \in Stored
    BY <1>1 DEF Auth0Grants, Stored, Rotations
  <2> QED  BY <1>1, <2>1, <2>2, NoProfileAssumption
           DEF IInv, TypeOK, Auth0Grants, Stored, Rotations, keychain
<1>3. /\ sessions'[s].current = next
      /\ \A t \in SessionIds : sessions'[t].tenant = sessions[t].tenant
      /\ \A t \in SessionIds \ {s} : sessions'[t].current = sessions[t].current
  BY <1>1 DEF IInv, TypeOK, Auth0Grants
<1>4. ASSUME NEW h \in Stored \cup {NoProfile}, Sound(h)
      PROVE  Sound(h)' /\ (Of(h, s) => h.rotation < next)
  BY <1>1, <1>2, <1>3, <1>4
  DEF IInv, TypeOK, Sound, Of, Stored, SessionIds, Rotations
<1>5. Sound(profile) /\ profile \in Stored \cup {NoProfile}
  BY DEF IInv, CopiesAreSound, TypeOK
<1>6. \A q \in Processes : Sound(held[q]) /\ held[q] \in Stored \cup {NoProfile}
  BY DEF IInv, CopiesAreSound, TypeOK
<1>7. CopiesAreSound'
  <2>1. Sound(profile)'  BY <1>2, <1>4, <1>5 DEF Sound
  <2>2. ASSUME NEW q \in Processes, q # p  PROVE Sound(held[q])'
    BY <1>2, <1>4, <1>6, <2>2 DEF Sound
  <2>3. Sound(held[p])'
    <3>1. sessions'[s].tenant = held[p].tenant  BY <1>1, <1>3
    <3>2. next <= sessions'[s].current  BY <1>2, <1>3
    <3> QED  BY <1>1, <1>2, <3>1, <3>2 DEF Sound
  <2> QED  BY <2>1, <2>2, <2>3 DEF CopiesAreSound
<1>8. LoginIsFresh'
  <2> SUFFICES ASSUME NEW q \in Processes, pc'[q] = "store", held'[q].session # 0
               PROVE  /\ ~Of(profile', held'[q].session)
                      /\ \A r \in Processes \ {q} : ~Of(held'[r], held'[q].session)
    BY DEF LoginIsFresh, Of
  <2>1. q # p /\ pc[q] = "store" /\ held'[q] = held[q]
    BY <1>2
  <2>2. /\ ~Of(profile, held[q].session)
        /\ \A r \in Processes \ {q} : ~Of(held[r], held[q].session)
    BY <2>1 DEF IInv, LoginIsFresh
  <2> QED  BY <1>1, <1>2, <2>1, <2>2 DEF Of
<1>9. PersistsNewest'
  <2> SUFFICES ASSUME NEW q \in Processes, pc'[q] = "persist"
               PROVE  /\ held'[q].session # 0 /\ d'[q] = held'[q].tenant
                      /\ held'[q].rotation = sessions'[held'[q].session].current
                      /\ Of(profile', held'[q].session) =>
                           profile'.rotation < held'[q].rotation
                      /\ \A r \in Processes \ {q} :
                           Of(held'[r], held'[q].session) =>
                             held'[r].rotation < held'[q].rotation
    BY DEF PersistsNewest, Of, Current
  <2>1. CASE q = p
    <3>1. Of(profile, s) => profile.rotation < next
      BY <1>4, <1>5
    <3>2. \A r \in Processes \ {p} : Of(held[r], s) => held[r].rotation < next
      BY <1>4, <1>6
    <3> QED  BY <1>1, <1>2, <1>3, <2>1, <3>1, <3>2 DEF Of
  <2>2. CASE q # p
    <3>1. /\ pc[q] = "persist" /\ held'[q] = held[q]
          /\ held[q] \in Stored
      BY <1>2, <2>2 DEF IInv, TypeOK
    <3>2. /\ held[q].session # 0 /\ d[q] = held[q].tenant
          /\ held[q].rotation = sessions[held[q].session].current
          /\ Of(profile, held[q].session) => profile.rotation < held[q].rotation
          /\ \A r \in Processes \ {q} :
               Of(held[r], held[q].session) => held[r].rotation < held[q].rotation
      BY <3>1 DEF IInv, PersistsNewest, Current
    <3>3. held[q].session # s
      <4> SUFFICES ASSUME held[q].session = s  PROVE FALSE  OBVIOUS
      <4>1. held[p].rotation < held[q].rotation
        BY <1>1, <2>2, <3>2 DEF Of
      <4>2. held[q].rotation = held[p].rotation
        BY <1>1, <3>2
      <4> QED  BY <1>1, <4>1, <4>2 DEF Stored, Rotations
    <3>4. held[q].session \in SessionIds \ {s}
      BY <3>1, <3>2, <3>3 DEF Stored
    <3> QED  BY <1>1, <1>2, <1>3, <3>1, <3>2, <3>3, <3>4 DEF Of
  <2> QED  BY <2>1, <2>2
<1> QED  BY <1>7, <1>8, <1>9

\* A tenant that does not rotate leaves the process with the token it has.
LEMMA GrantWithoutRotationKeeps ==
  ASSUME IInv, NEW p \in Processes, Auth0Grants(p), ~rotates
  PROVE  CopiesAreSound' /\ LoginIsFresh' /\ PersistsNewest'
<1>1. /\ UNCHANGED <<profile, sessions, opened, rotates, held, d>>
      /\ \A q \in Processes : q # p => pc'[q] = pc[q]
      /\ pc'[p] = "persist"
  BY DEF IInv, TypeOK, Auth0Grants, keychain
<1>2. CopiesAreSound'
  BY <1>1 DEF IInv, CopiesAreSound, Sound
<1>3. LoginIsFresh'
  BY <1>1 DEF IInv, LoginIsFresh, Of
<1>4. held[p].session # 0 /\ d[p] = held[p].tenant /\ Current(held[p])
  BY DEF IInv, TypeOK, CopiesAreSound, Sound, Auth0Grants, Accepts, Known, AsksTenant
<1>5. PersistsNewest'
  BY <1>1, <1>4 DEF IInv, PersistsNewest, Of, Current
<1> QED  BY <1>2, <1>3, <1>5

LEMMA PersistKeeps ==
  ASSUME IInv, NEW p \in Processes, Persist(p)
  PROVE  CopiesAreSound' /\ LoginIsFresh' /\ PersistsNewest'
<1>1. /\ UNCHANGED <<sessions, opened, rotates, held, d>>
      /\ \A q \in Processes : q # p => pc'[q] = pc[q]
      /\ pc'[p] = "working"
  BY DEF IInv, TypeOK, Persist, auth0
<1>2. profile' = held[p] /\ held[p] \in Stored /\ held[p].session # 0
  BY DEF IInv, TypeOK, PersistsNewest, Persist, Stored
<1>3. CopiesAreSound'
  BY <1>1, <1>2 DEF IInv, CopiesAreSound, Sound
<1>4. LoginIsFresh'
  BY <1>1, <1>2 DEF IInv, LoginIsFresh, Of, Persist
<1>5. PersistsNewest'
  BY <1>1, <1>2 DEF IInv, PersistsNewest, Of, Current, Persist
<1> QED  BY <1>3, <1>4, <1>5

\* Auth0 opens a session nobody has heard of, or gives no refresh token.
LEMMA LoginFlowKeeps ==
  ASSUME IInv, NEW p \in Processes, LoginFlow(p)
  PROVE  CopiesAreSound' /\ LoginIsFresh' /\ PersistsNewest'
<1>1. /\ UNCHANGED <<profile, rotates, d>>
      /\ \A q \in Processes : q # p => held'[q] = held[q] /\ pc'[q] = pc[q]
      /\ pc'[p] = "store"
  BY DEF IInv, TypeOK, LoginFlow, keychain
<1>2. PICK s \in SessionIds \cup {0} :
        /\ held'[p] = [session |-> s, rotation |-> 1, tenant |-> d[p]]
        /\ s # 0 => /\ s = opened + 1 /\ opened' = s
                    /\ sessions'[s].current = 1 /\ sessions'[s].tenant = d[p]
        /\ s = 0 => opened' = opened
        /\ \A t \in SessionIds \ {s} : sessions'[t] = sessions[t]
  BY BoundsAssumption DEF IInv, TypeOK, LoginFlow, SessionIds
<1>3. ASSUME NEW h \in Stored \cup {NoProfile}, Sound(h)
      PROVE  Sound(h)' /\ (s # 0 => ~Of(h, s))
  BY <1>2, <1>3 DEF IInv, TypeOK, Sound, Of, Stored, SessionIds
<1>4. /\ Sound(profile) /\ profile \in Stored \cup {NoProfile}
      /\ \A q \in Processes : Sound(held[q]) /\ held[q] \in Stored \cup {NoProfile}
  BY DEF IInv, CopiesAreSound, TypeOK
<1>5. CopiesAreSound'
  <2>1. Sound(profile)'  BY <1>1, <1>3, <1>4 DEF Sound
  <2>2. ASSUME NEW q \in Processes, q # p  PROVE Sound(held[q])'
    BY <1>1, <1>3, <1>4, <2>2 DEF Sound
  <2>3. Sound(held[p])'
    BY <1>2 DEF Sound, IInv, TypeOK
  <2> QED  BY <2>1, <2>2, <2>3 DEF CopiesAreSound
<1>6. LoginIsFresh'
  <2> SUFFICES ASSUME NEW q \in Processes, pc'[q] = "store", held'[q].session # 0
               PROVE  /\ ~Of(profile', held'[q].session)
                      /\ \A r \in Processes \ {q} : ~Of(held'[r], held'[q].session)
    BY DEF LoginIsFresh, Of
  <2>1. CASE q = p
    BY <1>1, <1>2, <1>3, <1>4, <2>1 DEF Of
  <2>2. CASE q # p
    <3>1. pc[q] = "store" /\ held'[q] = held[q] /\ held[q] # NoProfile
      BY <1>1, <2>2 DEF IInv, TypeOK
    <3>2. /\ ~Of(profile, held[q].session)
          /\ \A r \in Processes \ {q} : ~Of(held[r], held[q].session)
      BY <2>2, <3>1 DEF IInv, LoginIsFresh
    <3>3. held[q].session # s
      BY <1>3, <1>4, <2>2, <3>1 DEF Of
    <3> QED  BY <1>1, <1>2, <2>2, <3>1, <3>2, <3>3 DEF Of
  <2> QED  BY <2>1, <2>2
<1>7. PersistsNewest'
  <2> SUFFICES ASSUME NEW q \in Processes, pc'[q] = "persist"
               PROVE  /\ held'[q].session # 0 /\ d'[q] = held'[q].tenant
                      /\ held'[q].rotation = sessions'[held'[q].session].current
                      /\ rotates =>
                           /\ Of(profile', held'[q].session) =>
                                profile'.rotation < held'[q].rotation
                           /\ \A r \in Processes \ {q} :
                                Of(held'[r], held'[q].session) =>
                                  held'[r].rotation < held'[q].rotation
    BY <1>1 DEF PersistsNewest, Of, Current
  <2>1. q # p /\ pc[q] = "persist" /\ held'[q] = held[q] /\ held[q] \in Stored
    BY <1>1 DEF IInv, TypeOK
  <2>2. /\ held[q].session # 0 /\ d[q] = held[q].tenant
        /\ held[q].rotation = sessions[held[q].session].current
        /\ rotates =>
             /\ Of(profile, held[q].session) => profile.rotation < held[q].rotation
             /\ \A r \in Processes \ {q} :
                  Of(held[r], held[q].session) => held[r].rotation < held[q].rotation
    BY <2>1 DEF IInv, PersistsNewest, Current
  <2>3. held[q].session # s /\ held[q].session \in SessionIds \ {s}
    BY <1>3, <1>4, <2>1, <2>2, NoProfileAssumption DEF Of, Stored
  <2> QED  BY <1>1, <1>2, <2>1, <2>2, <2>3 DEF Of
<1> QED  BY <1>5, <1>6, <1>7

LEMMA StoreLoginKeeps ==
  ASSUME IInv, NEW p \in Processes, StoreLogin(p)
  PROVE  CopiesAreSound' /\ LoginIsFresh' /\ PersistsNewest'
<1>1. /\ UNCHANGED <<sessions, opened, rotates>>
      /\ \A q \in Processes : q # p => held'[q] = held[q] /\ pc'[q] = pc[q] /\ d'[q] = d[q]
      /\ pc'[p] = "idle" /\ held'[p] = NoProfile
      /\ profile' = held[p] /\ held[p] # NoProfile
  BY DEF IInv, TypeOK, StoreLogin, Exit, auth0
<1>2. CopiesAreSound'
  BY <1>1 DEF IInv, CopiesAreSound, Sound
<1>3. LoginIsFresh'
  BY <1>1 DEF IInv, LoginIsFresh, Of, StoreLogin
<1>4. ASSUME NEW q \in Processes \ {p}, pc[q] = "persist"  PROVE held[q].session # held[p].session
  BY <1>1, <1>4 DEF IInv, TypeOK, LoginIsFresh, PersistsNewest, Of, StoreLogin
<1>5. PersistsNewest'
  BY <1>1, <1>4 DEF IInv, PersistsNewest, Of, Current
<1> QED  BY <1>2, <1>3, <1>5

(***************************************************************************)
(* Every other action is passive.                                           *)
(***************************************************************************)
Active(p) == Auth0Grants(p) \/ Persist(p) \/ LoginFlow(p) \/ StoreLogin(p)

LEMMA ExitIsPassive ==
  ASSUME TypeOK, IssuesNothing, NEW p \in Processes, Exit(p),
         profile' \in {profile, NoProfile}
  PROVE  Passive
BY DEF TypeOK, Passive, Exit

LEMMA RestIsPassive ==
  ASSUME TypeOK, NEW p \in Processes, Step(p), ~Active(p)
  PROVE  Passive
<1> USE StandingIssuesNothing, ExitIsPassive
<1>1. CASE Start(p)
  <2>1. pc'[p] \in Commands
    BY <1>1 DEF TypeOK, Start, Commands
  <2>2. \A q \in Processes : q # p => pc'[q] = pc[q] /\ d'[q] = d[q]
    BY <1>1 DEF TypeOK, Start
  <2>3. UNCHANGED <<held, profile>> /\ IssuesNothing
    BY <1>1 DEF Start, keychain, auth0
  <2> QED  BY <2>1, <2>2, <2>3 DEF Passive, Commands
<1>2. CASE Fail(p)  BY <1>2 DEF Fail, keychain, auth0
<1>3. CASE NotLoggedIn(p)  BY <1>3 DEF NotLoggedIn, keychain, auth0
<1>4. CASE Load(p)  BY <1>4 DEF TypeOK, Passive, Load, keychain, auth0
<1>5. ASSUME Interrupt(p)  PROVE Passive
  BY <1>5 DEF Interrupt, keychain, auth0
<1>6. CASE Auth0Refuses(p)
  <2>1. CASE UNCHANGED sessions
    BY <1>6, <2>1 DEF Auth0Refuses, keychain
  <2>2. CASE Known(held[p], AsksTenant(p)) /\ sessions' = Ended(held[p].session)
    <3>1. held[p].session \in SessionIds
      BY <1>6, <2>2 DEF TypeOK, Auth0Refuses, Known, Stored
    <3> QED  BY <1>6, <2>2, <3>1, EndingIssuesNothing DEF Auth0Refuses, keychain
  <2> QED  BY <1>6, <2>1, <2>2 DEF Auth0Refuses, Ended
<1>7. CASE PersistNever(p)
  BY <1>5, <1>7 DEF PersistNever, keychain, auth0
<1>8. CASE RefreshAgain(p)
  BY <1>8 DEF TypeOK, Passive, RefreshAgain, keychain, auth0
<1>9. CASE Finish(p)  BY <1>9 DEF Finish, keychain, auth0
<1>10. CASE StoreNever(p)  BY <1>5, <1>10 DEF StoreNever
<1>11. ASSUME IssuesNothing, UNCHANGED <<profile, held, d>>,
              pc' = [pc EXCEPT ![p] = "delete"]
       PROVE  Passive
  <2>1. \A q \in Processes : pc'[q] \in {"persist", "store"} => pc'[q] = pc[q] /\ q # p
    BY <1>11 DEF TypeOK
  <2> QED  BY <1>11, <2>1 DEF Passive
<1>12. ASSUME pc[p] = "revoke", UNCHANGED <<opened, rotates>>,
              \/ UNCHANGED sessions
              \/ Known(held[p], held[p].tenant) /\ sessions' = Ended(held[p].session)
       PROVE  IssuesNothing
  BY <1>12, EndingIssuesNothing DEF TypeOK, Known, Stored
<1>13. CASE Revoke(p)
  BY <1>11, <1>12, <1>13 DEF Revoke, keychain
<1>14. CASE RevokeFails(p)
  BY <1>11, <1>12, <1>14 DEF RevokeFails, keychain
<1>15. CASE Delete(p)  BY <1>15 DEF Delete, auth0
<1>16. CASE DeleteNever(p)  BY <1>5, <1>16 DEF DeleteNever
<1> QED  BY <1>1, <1>2, <1>3, <1>4, <1>6, <1>7, <1>8, <1>9, <1>10, <1>13, <1>14, <1>15, <1>16
         DEF Step, Command, Login, Logout, Active

LEMMA OutsideIsPassive ==
  ASSUME TypeOK,
         \/ PublishDiscovery
         \/ \E s \in SessionIds : Auth0Ends(s)
         \/ UNCHANGED vars
  PROVE  Passive
<1>1. CASE PublishDiscovery
  BY <1>1, StandingIssuesNothing DEF Passive, PublishDiscovery, keychain, process
<1>2. ASSUME NEW s \in SessionIds, Auth0Ends(s)  PROVE Passive
  BY <1>2, EndingIssuesNothing DEF Passive, Auth0Ends, keychain, process
<1>3. CASE UNCHANGED vars
  BY <1>3, StandingIssuesNothing DEF Passive, vars, keychain, auth0, process
<1> QED  BY <1>1, <1>2, <1>3

(***************************************************************************)
(* The inductive invariant.                                                 *)
(***************************************************************************)
THEOREM Invariance == Spec => []IInv
<1>1. Init => IInv
  <2> SUFFICES ASSUME Init  PROVE CopiesAreSound /\ LoginIsFresh /\ PersistsNewest
    BY InitTyped DEF IInv
  <2> QED  BY DEF Init, CopiesAreSound, Sound, LoginIsFresh, PersistsNewest
<1>2. IInv /\ [Next]_vars => IInv'
  <2> SUFFICES ASSUME IInv, [Next]_vars
               PROVE  CopiesAreSound' /\ LoginIsFresh' /\ PersistsNewest'
    BY NextTyped DEF IInv
  <2>1. ASSUME NEW p \in Processes, Active(p)
        PROVE  CopiesAreSound' /\ LoginIsFresh' /\ PersistsNewest'
    BY <2>1, GrantKeeps, GrantWithoutRotationKeeps, PersistKeeps, LoginFlowKeeps,
       StoreLoginKeeps DEF Active
  <2>2. ASSUME NEW p \in Processes, Step(p), ~Active(p)
        PROVE  CopiesAreSound' /\ LoginIsFresh' /\ PersistsNewest'
    BY <2>2, RestIsPassive, PassiveKeeps DEF IInv
  <2>3. ASSUME \/ PublishDiscovery
               \/ \E s \in SessionIds : Auth0Ends(s)
               \/ UNCHANGED vars
        PROVE  CopiesAreSound' /\ LoginIsFresh' /\ PersistsNewest'
    BY <2>3, OutsideIsPassive, PassiveKeeps DEF IInv
  <2> QED  BY <2>1, <2>2, <2>3 DEF Next
<1> QED  BY <1>1, <1>2, PTL DEF Spec

(***************************************************************************)
(* Whatever overlaps and wherever processes die, the keychain names the     *)
(* Auth0 domain that issued its refresh token.                              *)
(***************************************************************************)
THEOREM ProfileIsConsistent == Spec => []ProfileNamesIssuer
<1>1. IInv => ProfileNamesIssuer
  BY DEF IInv, CopiesAreSound, Sound, ProfileNamesIssuer, Known
<1> QED  BY <1>1, Invariance, PTL

(***************************************************************************)
(* However many processes overlap, none puts an older refresh token of a    *)
(* session over a newer one: Auth0 gives the next token only to the holder  *)
(* of the newest, who is alone with it until it is in the keychain.         *)
(***************************************************************************)
THEOREM KeychainMovesForward == Spec => RotationNeverReverts
<1> DEFINE Forward ==
      /\ profile # NoProfile /\ profile' # NoProfile
      /\ profile.session = profile'.session
      => profile'.rotation >= profile.rotation
<1>1. ASSUME IInv, [Next]_vars  PROVE Forward
  <2>1. profile \in Stored \cup {NoProfile} /\ Sound(profile)
    BY <1>1 DEF IInv, TypeOK, CopiesAreSound
  <2>2. CASE Passive
    BY <2>1, <2>2 DEF Passive, Stored, Rotations
  <2>3. ASSUME NEW p \in Processes, Auth0Grants(p) \/ LoginFlow(p)  PROVE Forward
    BY <2>1, <2>3 DEF Auth0Grants, LoginFlow, keychain, Stored, Rotations
  <2>4. ASSUME NEW p \in Processes, Persist(p)  PROVE Forward
    <3>1. held[p] \in Stored /\ held[p].session \in SessionIds /\ Current(held[p])
      BY <1>1, <2>4 DEF IInv, TypeOK, PersistsNewest, Persist, Stored
    <3>2. profile'.session = held[p].session /\ profile'.rotation = held[p].rotation
      BY <2>4, <3>1 DEF Persist, Stored
    <3> QED  BY <2>1, <3>1, <3>2 DEF Sound, Current, Stored, Rotations, SessionIds
  <2>5. ASSUME NEW p \in Processes, StoreLogin(p)  PROVE Forward
    <3>1. /\ profile' = held[p] /\ held[p] \in Stored /\ Sound(held[p])
          /\ held[p].session # 0 => ~Of(profile, held[p].session)
      BY <1>1, <2>5 DEF IInv, TypeOK, CopiesAreSound, LoginIsFresh, StoreLogin
    <3> QED  BY <2>1, <3>1, NoProfileAssumption DEF Sound, Of, Stored, Rotations
  <2> QED  BY <1>1, <2>2, <2>3, <2>4, <2>5, RestIsPassive, OutsideIsPassive
           DEF IInv, Next, Active
<1> QED  BY <1>1, Invariance, PTL DEF Spec, RotationNeverReverts

(***************************************************************************)
(* Processes that take turns.  While nothing has overlapped, one process at *)
(* most is at work: Turn says what TurnsInv says of that one.               *)
(***************************************************************************)
Excused == unrevoked \cup disturbed

Turn(p) ==
  /\ profile # NoProfile /\ pc[p] \notin {"persist", "delete"} => Good(profile)
  /\ \A s \in SessionIds :
       sessions[s].alive => s \in InProfile \cup Excused \/ Of(held[p], s)
  /\ InStep(p)

\* A profile stays good while its session is let alone or is excused.
LEMMA GoodStays ==
  ASSUME TypeOK, NEW h \in Stored, Good(h), disturbed \subseteq disturbed',
         h.session \in SessionIds \ disturbed' => sessions'[h.session] = sessions[h.session]
  PROVE  Good(h)'
<1>1. CASE h.session \in {0} \cup disturbed'
  BY <1>1 DEF Good
<1>2. CASE h.session \notin {0} \cup disturbed'
  <2>1. h.session \in SessionIds /\ sessions'[h.session] = sessions[h.session]
    BY <1>2 DEF Stored
  <2>2. Accepts(h, h.tenant)
    BY <1>2 DEF Good
  <2> QED  BY <2>1, <2>2 DEF Good, Accepts, Known, Current
<1> QED  BY <1>1, <1>2

\* A process that ends without touching Auth0 or the keychain, and leaves
\* nothing behind that is not in the keychain or excused.
LEMMA ExitTurn ==
  ASSUME TypeOK, NEW p \in Processes, Turn(p), Exit(p),
         UNCHANGED <<profile, sessions, unrevoked>>, disturbed \subseteq disturbed',
         profile # NoProfile => Good(profile),
         \A s \in SessionIds : sessions[s].alive /\ Of(held[p], s) =>
                                 s \in InProfile \cup unrevoked' \cup disturbed'
  PROVE  Turn(p)'
<1>1. pc'[p] = "idle" /\ held'[p] = NoProfile
  BY DEF TypeOK, Exit
<1>2. profile # NoProfile => Good(profile)'
  BY GoodStays DEF TypeOK
<1>3. InStep(p)'
  BY <1>1 DEF InStep
<1>4. \A s \in SessionIds :
        sessions'[s].alive => s \in (InProfile \cup Excused)'
  BY DEF Turn, Excused, InProfile
<1> QED  BY <1>1, <1>2, <1>3, <1>4 DEF Turn, Of

\* The profile that a process at these steps holds is the one in the keychain.
LEMMA InHandIsInKeychain ==
  ASSUME TypeOK, NEW p \in Processes, Turn(p),
         pc[p] \in {"refresh", "working", "revoke"}
  PROVE  /\ profile # NoProfile /\ held[p] = profile /\ profile \in Stored
         /\ Good(profile)
         /\ \A s \in SessionIds : Of(held[p], s) => s \in InProfile
BY DEF TypeOK, Turn, InStep, Of, InProfile, SessionIds

LEMMA InterruptTurn ==
  ASSUME TypeOK, NEW p \in Processes, Turn(p), Interrupt(p), held[p] # NoProfile,
         profile # NoProfile => Good(profile) \/ profile.session = held[p].session
  PROVE  Turn(p)'
<1>1. pc'[p] = "idle" /\ held'[p] = NoProfile
      /\ UNCHANGED <<profile, sessions, unrevoked>>
      /\ disturbed' = disturbed \cup ({held[p].session} \ {0})
  BY DEF TypeOK, Interrupt, Exit, keychain, auth0
<1>2. profile # NoProfile => Good(profile)'
  <2>1. CASE profile # NoProfile /\ Good(profile)
    BY <1>1, <2>1, GoodStays DEF TypeOK
  <2>2. CASE profile # NoProfile /\ profile.session = held[p].session
    BY <1>1, <2>2 DEF Good
  <2> QED  BY <2>1, <2>2
<1>3. InStep(p)'
  BY <1>1 DEF InStep
<1>4. \A s \in SessionIds : sessions'[s].alive => s \in (InProfile \cup Excused)'
  BY <1>1 DEF Turn, Excused, InProfile, Of, SessionIds
<1> QED  BY <1>1, <1>2, <1>3, <1>4 DEF Turn

LEMMA CommandTurn ==
  ASSUME IInv, NEW p \in Processes, Turn(p), Command(p)
  PROVE  Turn(p)'
<1> TypeOK  BY DEF IInv
<1>1. CASE Auth0Grants(p)
  <2> DEFINE s == held[p].session
  <2>1. /\ held[p] = profile /\ profile \in Stored /\ s \in SessionIds
        /\ sessions[s].alive /\ held[p].rotation = sessions[s].current
        /\ sessions[s].tenant = held[p].tenant
    BY <1>1, InHandIsInKeychain
    DEF IInv, CopiesAreSound, Sound, Auth0Grants, Accepts, Known, Current, Stored, TypeOK
  <2>2. /\ UNCHANGED <<profile, disturbed, unrevoked, rotates>> /\ pc'[p] = "persist"
        /\ profile # NoProfile /\ InProfile' = {s}
    BY <1>1, <2>1 DEF TypeOK, Auth0Grants, InProfile, keychain, history, SessionIds
  <2>3. /\ held'[p].session = s /\ held'[p].tenant = held[p].tenant
        /\ held'[p].rotation = sessions'[s].current
        /\ sessions'[s].alive /\ sessions'[s].tenant = sessions[s].tenant
        /\ \A r \in SessionIds \ {s} : sessions'[r] = sessions[r]
        /\ ~rotates => held'[p] = held[p]
    <3>1. CASE rotates
      <4>1. PICK next \in Rotations :
              /\ sessions' = [sessions EXCEPT ![s].current = next]
              /\ held' = [held EXCEPT ![p] = [held[p] EXCEPT !.rotation = next]]
        BY <1>1, <2>1, <3>1 DEF Auth0Grants, Stored, Rotations
      <4>2. held'[p] = [held[p] EXCEPT !.rotation = next]
        BY <4>1 DEF TypeOK
      <4>3. /\ held'[p].session = s /\ held'[p].tenant = held[p].tenant
            /\ held'[p].rotation = next
        BY <2>1, <4>2 DEF Stored
      <4>4. /\ sessions'[s].current = next /\ sessions'[s].alive
            /\ sessions'[s].tenant = sessions[s].tenant
            /\ \A r \in SessionIds \ {s} : sessions'[r] = sessions[r]
        BY <2>1, <4>1 DEF TypeOK
      <4> QED  BY <3>1, <4>3, <4>4
    <3>2. CASE ~rotates
      BY <1>1, <2>1, <3>2 DEF Auth0Grants
    <3> QED  BY <3>1, <3>2
  <2>4. Good(held[p])'
    BY <2>1, <2>3 DEF Good, Accepts, Known, Current, SessionIds
  <2>5. InStep(p)'
    BY <2>1, <2>2, <2>3, <2>4 DEF InStep
  <2>6. \A r \in SessionIds :
          sessions'[r].alive => r \in (InProfile \cup Excused)' \/ Of(held'[p], r)
    BY <2>1, <2>2, <2>3 DEF Turn, Of, InProfile, Excused
  <2> QED  BY <2>2, <2>5, <2>6 DEF Turn, Of
<1>2. CASE Auth0Refuses(p)
  <2>1. /\ held[p] = profile /\ profile \in Stored /\ Good(profile)
        /\ \A s \in SessionIds : Of(held[p], s) => s \in InProfile
    BY <1>2, InHandIsInKeychain DEF Auth0Refuses
  <2>2. CASE UNCHANGED sessions
    BY <1>2, <2>1, <2>2, ExitTurn DEF Auth0Refuses, keychain
  <2>3. CASE /\ Known(held[p], AsksTenant(p)) /\ ~Current(held[p])
             /\ sessions' = Ended(held[p].session)
    <3>1. profile.session \in disturbed /\ profile.session \in SessionIds
      BY <2>1, <2>3 DEF Good, Accepts, Known, Stored
    <3>2. /\ UNCHANGED <<profile, disturbed, unrevoked>>
          /\ pc'[p] = "idle" /\ held'[p] = NoProfile
      BY <1>2 DEF TypeOK, Auth0Refuses, Exit, keychain
    <3>3. \A s \in SessionIds : sessions'[s].alive => sessions[s].alive
      BY <2>1, <2>3, <3>1 DEF TypeOK, Ended
    <3>4. Good(profile)'
      BY <3>1, <3>2 DEF Good
    <3>5. \A s \in SessionIds : sessions'[s].alive => s \in (InProfile \cup Excused)'
      BY <2>1, <3>2, <3>3 DEF Turn, InProfile, Excused
    <3>6. InStep(p)'
      BY <3>2 DEF InStep
    <3> QED  BY <3>4, <3>5, <3>6 DEF Turn
  <2> QED  BY <1>2, <2>2, <2>3 DEF Auth0Refuses, Ended
<1>3. CASE Persist(p)
  <2>1. /\ held[p] \in Stored /\ held[p] # NoProfile /\ d[p] = held[p].tenant
        /\ profile # NoProfile /\ profile.session = held[p].session /\ Good(held[p])
    BY <1>3 DEF IInv, TypeOK, PersistsNewest, Turn, InStep, Persist
  <2>2. /\ profile' = held[p] /\ held' = held /\ pc'[p] = "working"
        /\ UNCHANGED <<sessions, disturbed, unrevoked>>
    BY <1>3, <2>1 DEF TypeOK, Persist, Stored, auth0, history
  <2>3. InProfile' = InProfile
    BY <2>1, <2>2 DEF InProfile
  <2>4. Good(profile)'
    BY <2>1, <2>2 DEF Good, Accepts, Known, Current
  <2>5. InStep(p)'
    BY <2>2 DEF InStep
  <2> QED  BY <2>2, <2>3, <2>4, <2>5 DEF Turn, Excused
<1>4. CASE PersistNever(p)
  <2>1. /\ held[p] # NoProfile /\ profile.session = held[p].session
        /\ Good(held[p]) /\ profile # NoProfile
        /\ ~rotates => profile = held[p]
    BY <1>4 DEF TypeOK, Turn, InStep, PersistNever
  <2>2. CASE rotates
    BY <1>4, <2>1, <2>2, InterruptTurn DEF PersistNever
  <2>3. CASE ~rotates
    <3>1. \A s \in SessionIds : Of(held[p], s) => s \in InProfile
      BY <2>1 DEF Of, InProfile, SessionIds
    <3>2. Exit(p) /\ UNCHANGED <<profile, sessions, disturbed, unrevoked>>
      BY <1>4, <2>3 DEF PersistNever, keychain, auth0
    <3> QED  BY <2>1, <2>3, <3>1, <3>2, ExitTurn
  <2> QED  BY <2>2, <2>3
<1>5. CASE RefreshAgain(p)
  <2>1. held[p] = profile /\ Good(profile)
    BY <1>5, InHandIsInKeychain DEF RefreshAgain
  <2>2. /\ pc'[p] = "refresh"
        /\ UNCHANGED <<profile, held, sessions, disturbed, unrevoked>>
    BY <1>5 DEF TypeOK, RefreshAgain, keychain, auth0, history
  <2>3. Good(profile)'
    BY <2>1, <2>2 DEF Good, Accepts, Known, Current
  <2>4. InStep(p)'
    BY <2>1, <2>2 DEF InStep
  <2> QED  BY <2>2, <2>3, <2>4 DEF Turn, Excused, InProfile
<1>6. CASE Finish(p)
  BY <1>6, InHandIsInKeychain, ExitTurn DEF Finish, keychain, auth0
<1> QED  BY <1>1, <1>2, <1>3, <1>4, <1>5, <1>6 DEF Command

LEMMA LoginTurn ==
  ASSUME IInv, NEW p \in Processes, Turn(p), ReadersHoldNothing, Login(p)
  PROVE  Turn(p)'
<1> TypeOK  BY DEF IInv
<1>1. CASE LoginFlow(p)
  <2>1. /\ UNCHANGED <<profile, disturbed, unrevoked>> /\ pc'[p] = "store"
        /\ held[p] = NoProfile /\ (profile # NoProfile => Good(profile))
    BY <1>1 DEF TypeOK, LoginFlow, keychain, history, ReadersHoldNothing, Holding, Turn
  <2>2. PICK s \in SessionIds \cup {0} :
          /\ held'[p] = [session |-> s, rotation |-> 1, tenant |-> d[p]]
          /\ s # 0 => /\ s = opened + 1
                      /\ sessions'[s].current = 1 /\ sessions'[s].tenant = d[p]
                      /\ sessions'[s].alive
          /\ \A t \in SessionIds \ {s} : sessions'[t] = sessions[t]
    <3>1. CASE /\ opened < MaxSessions
               /\ sessions' = [sessions EXCEPT
                    ![opened + 1] = [current |-> 1, tenant |-> d[p], alive |-> TRUE]]
               /\ held' = [held EXCEPT
                    ![p] = [session |-> opened + 1, rotation |-> 1, tenant |-> d[p]]]
      <4>1. opened + 1 \in SessionIds
        BY <3>1, BoundsAssumption DEF TypeOK, SessionIds
      <4>2. /\ sessions'[opened + 1] = [current |-> 1, tenant |-> d[p], alive |-> TRUE]
            /\ \A t \in SessionIds \ {opened + 1} : sessions'[t] = sessions[t]
        BY <3>1, <4>1 DEF TypeOK
      <4> QED  BY <3>1, <4>1, <4>2 DEF TypeOK
    <3>2. CASE /\ held' = [held EXCEPT ![p] = [session |-> 0, rotation |-> 1, tenant |-> d[p]]]
               /\ UNCHANGED sessions
      BY <3>2 DEF TypeOK
    <3> QED  BY <1>1, <3>1, <3>2 DEF LoginFlow
  <2>3. profile # NoProfile => Good(profile)'
    <3> SUFFICES ASSUME profile # NoProfile  PROVE Good(profile)'  OBVIOUS
    <3>1. /\ profile \in Stored
          /\ profile.session # s \/ profile.session = 0
      BY <2>2 DEF IInv, TypeOK, CopiesAreSound, Sound, SessionIds, Stored
    <3> QED  BY <2>1, <2>2, <3>1, GoodStays DEF SessionIds
  <2>4. Good(held[p])'
    BY <2>2 DEF Good, Accepts, Known, Current
  <2>5. \A t \in SessionIds :
          sessions'[t].alive => t \in (InProfile \cup Excused)' \/ Of(held'[p], t)
    <3> SUFFICES ASSUME NEW t \in SessionIds, sessions'[t].alive
                 PROVE  t \in (InProfile \cup Excused)' \/ Of(held'[p], t)
      OBVIOUS
    <3>1. CASE t = s
      BY <1>1, <2>2, <3>1, NoProfileAssumption, BoundsAssumption
      DEF Of, Stored, TypeOK, Rotations, SessionIds
    <3>2. CASE t # s
      BY <2>1, <2>2, <3>2 DEF Turn, Of, InProfile, Excused
    <3> QED  BY <3>1, <3>2
  <2>6. InStep(p)'
    BY <2>1, <2>4 DEF InStep
  <2> QED  BY <2>1, <2>3, <2>5, <2>6 DEF Turn
<1>2. CASE StoreLogin(p)
  <2>1. /\ held[p] # NoProfile /\ profile' = held[p] /\ Good(held[p])
        /\ pc'[p] = "idle" /\ held'[p] = NoProfile
        /\ unrevoked' = unrevoked \cup InProfile
        /\ UNCHANGED <<sessions, disturbed>>
    BY <1>2 DEF TypeOK, StoreLogin, Exit, Turn, InStep, auth0
  <2>2. Good(profile)'
    BY <2>1 DEF Good, Accepts, Known, Current
  <2>3. \A t \in SessionIds : sessions'[t].alive => t \in (InProfile \cup Excused)'
    BY <2>1 DEF Turn, Of, InProfile, Excused, SessionIds
  <2>4. InStep(p)'
    BY <2>1 DEF InStep
  <2> QED  BY <2>1, <2>2, <2>3, <2>4 DEF Turn
<1>3. CASE StoreNever(p)
  BY <1>3, InterruptTurn DEF TypeOK, StoreNever, Turn
<1> QED  BY <1>1, <1>2, <1>3 DEF Login

LEMMA LogoutTurn ==
  ASSUME IInv, NEW p \in Processes, Turn(p), Logout(p)
  PROVE  Turn(p)'
<1> TypeOK  BY DEF IInv
<1> DEFINE s == held[p].session
<1>1. ASSUME pc[p] = "revoke"
      PROVE  /\ held[p] = profile /\ profile \in Stored /\ profile # NoProfile
             /\ s \in SessionIds \cup {0}
             /\ s # 0 => Known(held[p], held[p].tenant)
             /\ s # 0 /\ ~Current(held[p]) => s \in disturbed
  <2>1. held[p] = profile /\ profile \in Stored /\ Good(profile) /\ profile # NoProfile
    BY <1>1, InHandIsInKeychain
  <2>2. s # 0 => sessions[s].tenant = held[p].tenant
    BY <2>1 DEF IInv, CopiesAreSound, Sound
  <2> QED  BY <2>1, <2>2 DEF Good, Accepts, Known, Stored
<1>2. CASE Revoke(p)
  <2>1. /\ UNCHANGED <<profile, held, disturbed, unrevoked>> /\ pc'[p] = "delete"
    BY <1>2 DEF TypeOK, Revoke, keychain, history
  <2>2. /\ s \in {0} \cup disturbed \/ ~sessions'[s].alive
        /\ \A t \in SessionIds : sessions'[t].alive => sessions[t].alive
    BY <1>1, <1>2 DEF TypeOK, Revoke, Ended
  <2>3. InStep(p)'
    BY <1>1, <1>2, <2>1, <2>2 DEF InStep, Revoke
  <2> QED  BY <2>1, <2>2, <2>3 DEF Turn, Excused, InProfile
<1>3. CASE RevokeFails(p)
  <2>1. /\ UNCHANGED <<profile, held, disturbed>> /\ pc'[p] = "delete"
        /\ unrevoked' = unrevoked \cup ({s} \ {0})
    BY <1>3 DEF TypeOK, RevokeFails, keychain
  <2>2. \A t \in SessionIds : sessions'[t].alive => sessions[t].alive
    BY <1>1, <1>3 DEF TypeOK, RevokeFails, Ended, Known
  <2>3. InStep(p)'
    BY <1>1, <1>3, <2>1 DEF InStep, RevokeFails
  <2> QED  BY <2>1, <2>2, <2>3 DEF Turn, Excused, InProfile
<1>4. CASE Delete(p)
  <2>1. /\ held[p] = profile /\ held[p] # NoProfile
        /\ s \in {0} \cup disturbed \cup unrevoked \/ ~sessions[s].alive
    BY <1>4 DEF TypeOK, Turn, InStep, Delete
  <2>2. /\ profile' = NoProfile /\ pc'[p] = "idle" /\ held'[p] = NoProfile
        /\ UNCHANGED <<sessions, disturbed, unrevoked>>
    BY <1>4 DEF TypeOK, Delete, Exit, auth0
  <2>3. \A t \in SessionIds : sessions'[t].alive => t \in (InProfile \cup Excused)'
    BY <2>1, <2>2 DEF Turn, Of, InProfile, Excused, SessionIds
  <2>4. InStep(p)'
    BY <2>2 DEF InStep
  <2> QED  BY <2>2, <2>3, <2>4 DEF Turn
<1>5. CASE DeleteNever(p)
  <2>1. held[p] = profile /\ held[p] # NoProfile
    BY <1>5 DEF TypeOK, Turn, InStep, DeleteNever
  <2> QED  BY <1>5, <2>1, InterruptTurn DEF DeleteNever
<1> QED  BY <1>2, <1>3, <1>4, <1>5 DEF Logout

LEMMA OtherTurn ==
  ASSUME IInv, NEW p \in Processes, Turn(p), ReadersHoldNothing,
         Start(p) \/ Fail(p) \/ NotLoggedIn(p) \/ Load(p)
  PROVE  Turn(p)'
<1> TypeOK  BY DEF IInv
<1>1. CASE Start(p)
  <2>1. /\ pc[p] = "idle" /\ pc'[p] \in Commands
        /\ UNCHANGED <<profile, sessions, held, disturbed, unrevoked>>
    BY <1>1 DEF TypeOK, Start, Commands, keychain, auth0
  <2>2. profile # NoProfile => Good(profile)'
    BY <2>1 DEF Turn, Good, Accepts, Known, Current
  <2>3. InStep(p)'
    BY <2>1 DEF InStep, Commands
  <2> QED  BY <2>1, <2>2, <2>3 DEF Turn, Excused, InProfile
<1>2. ASSUME pc[p] \in Commands, Exit(p), UNCHANGED <<keychain, auth0, disturbed, unrevoked>>
      PROVE  Turn(p)'
  <2>1. held[p] = NoProfile
    BY <1>2 DEF ReadersHoldNothing, Holding, Commands
  <2>2. profile # NoProfile => Good(profile)
    BY <1>2 DEF Turn, Commands
  <2> QED  BY <1>2, <2>1, <2>2, ExitTurn DEF Of, keychain, auth0
<1>3. CASE Fail(p)
  <2>1. CASE pc[p] \in Commands
    BY <1>2, <1>3, <2>1 DEF Fail
  <2>2. CASE pc[p] \in {"refresh", "revoke"}
    BY <1>3, <2>2, InHandIsInKeychain, ExitTurn DEF Fail, keychain, auth0
  <2> QED  BY <1>3, <2>1, <2>2 DEF Fail
<1>4. CASE NotLoggedIn(p)
  BY <1>2, <1>4 DEF NotLoggedIn, Commands
<1>5. CASE Load(p)
  <2>1. /\ pc[p] \in Commands /\ pc'[p] \in {"refresh", "revoke"}
        /\ held'[p] = profile /\ profile # NoProfile /\ held[p] = NoProfile
        /\ UNCHANGED <<profile, sessions, disturbed, unrevoked>>
    BY <1>5 DEF TypeOK, Load, Commands, ReadersHoldNothing, Holding, keychain, auth0, history
  <2>2. Good(profile)'
    BY <2>1 DEF Turn, Commands, Good, Accepts, Known, Current
  <2>3. InStep(p)'
    BY <2>1 DEF InStep
  <2>4. \A s \in SessionIds : sessions'[s].alive => s \in (InProfile \cup Excused)'
    BY <2>1 DEF Turn, Of, Excused, InProfile
  <2> QED  BY <2>1, <2>2, <2>3, <2>4 DEF Turn
<1> QED  BY <1>1, <1>3, <1>4, <1>5

LEMMA StepTurn ==
  ASSUME IInv, NEW p \in Processes, Turn(p), ReadersHoldNothing, Step(p)
  PROVE  Turn(p)'
BY CommandTurn, LoginTurn, LogoutTurn, OtherTurn DEF Step

\* A step of one process leaves the others where they are; only a process
\* that has loaded or been given a profile holds one.
LEMMA OthersRest ==
  ASSUME TypeOK, NEW p \in Processes, Step(p)
  PROVE  \A q \in Processes \ {p} : pc'[q] = pc[q] /\ held'[q] = held[q]
<1>1. ASSUME Exit(p)
      PROVE  \A q \in Processes \ {p} : pc'[q] = pc[q] /\ held'[q] = held[q]
  BY <1>1 DEF TypeOK, Exit
<1>2. CASE Start(p) \/ Load(p)
  BY <1>2 DEF TypeOK, Start, Load
<1>3. CASE Auth0Grants(p)
  <2>1. held' = held \/ \E h : held' = [held EXCEPT ![p] = h]
    BY <1>3 DEF Auth0Grants
  <2> QED  BY <1>3, <2>1 DEF TypeOK, Auth0Grants
<1>4. CASE LoginFlow(p)
  <2>1. \E h : held' = [held EXCEPT ![p] = h]
    BY <1>4 DEF LoginFlow
  <2> QED  BY <1>4, <2>1 DEF TypeOK, LoginFlow
<1>5. CASE Persist(p) \/ RefreshAgain(p)
  BY <1>5 DEF TypeOK, Persist, RefreshAgain
<1>6. CASE Revoke(p) \/ RevokeFails(p)
  BY <1>6 DEF TypeOK, Revoke, RevokeFails
<1>7. CASE \/ Fail(p) \/ NotLoggedIn(p) \/ Auth0Refuses(p) \/ PersistNever(p) \/ Finish(p)
           \/ StoreLogin(p) \/ StoreNever(p) \/ Delete(p) \/ DeleteNever(p)
  BY <1>1, <1>7 DEF Fail, NotLoggedIn, Auth0Refuses, PersistNever, Finish, StoreLogin,
     StoreNever, Delete, DeleteNever, Interrupt
<1> QED  BY <1>2, <1>3, <1>4, <1>5, <1>6, <1>7 DEF Step, Command, Login, Logout

LEMMA StepHoldsNothing ==
  ASSUME TypeOK, ReadersHoldNothing, NEW p \in Processes, Step(p)
  PROVE  ReadersHoldNothing'
<1>1. pc'[p] \in Holding \/ held'[p] = NoProfile
  <2>1. ASSUME Exit(p)  PROVE held'[p] = NoProfile
    BY <2>1 DEF TypeOK, Exit
  <2>2. CASE Start(p)
    BY <2>2 DEF TypeOK, Start, ReadersHoldNothing, Holding
  <2>3. CASE Load(p) \/ Auth0Grants(p) \/ LoginFlow(p) \/ Persist(p) \/ RefreshAgain(p)
             \/ Revoke(p) \/ RevokeFails(p)
    BY <2>3 DEF TypeOK, Load, Auth0Grants, LoginFlow, Persist, RefreshAgain, Revoke,
       RevokeFails, Holding
  <2>4. CASE \/ Fail(p) \/ NotLoggedIn(p) \/ Auth0Refuses(p) \/ PersistNever(p) \/ Finish(p)
             \/ StoreLogin(p) \/ StoreNever(p) \/ Delete(p) \/ DeleteNever(p)
    BY <2>1, <2>4 DEF Fail, NotLoggedIn, Auth0Refuses, PersistNever, Finish, StoreLogin,
       StoreNever, Delete, DeleteNever, Interrupt
  <2> QED  BY <2>2, <2>3, <2>4 DEF Step, Command, Login, Logout
<1> QED  BY <1>1, OthersRest DEF ReadersHoldNothing

\* While nothing has overlapped, the process that takes a step is alone.
LEMMA StepIsAlone ==
  ASSUME TypeOK, TurnsInv, NEW p \in Processes, Step(p), ~overlapped'
  PROVE  ~overlapped /\ \A q \in Processes \ {p} : pc[q] = "idle"
<1>1. CASE Start(p)
  BY <1>1 DEF TypeOK, Start
<1>2. CASE ~Start(p)
  <2>1. overlapped' = overlapped
    BY <1>2 DEF Step, Command, Login, Logout, Fail, NotLoggedIn, Load, Auth0Grants,
       Auth0Refuses, Persist, PersistNever, RefreshAgain, Finish, LoginFlow, StoreLogin,
       StoreNever, Revoke, RevokeFails, Delete, DeleteNever, Interrupt, Exit, history
  <2>2. pc[p] # "idle"
    BY <1>2 DEF Step, Command, Login, Logout, Fail, NotLoggedIn, Load, Auth0Grants,
       Auth0Refuses, Persist, PersistNever, RefreshAgain, Finish, LoginFlow, StoreLogin,
       StoreNever, Revoke, RevokeFails, Delete, DeleteNever, Commands
  <2> QED  BY <2>1, <2>2 DEF TurnsInv, OneAtWork
<1> QED  BY <1>1, <1>2

LEMMA StepKeepsTurns ==
  ASSUME IInv, TurnsInv, NEW p \in Processes, Step(p)
  PROVE  TurnsInv'
<1> TypeOK  BY DEF IInv
<1>1. ReadersHoldNothing'
  BY StepHoldsNothing DEF TurnsInv
<1>2. ASSUME ~overlapped'
      PROVE  /\ OneAtWork' /\ ProfileIsGood' /\ NoSessionIsForgotten'
             /\ \A q \in Processes : InStep(q)'
  <2>1. /\ ~overlapped /\ ReadersHoldNothing
        /\ \A q \in Processes \ {p} : /\ pc[q] = "idle" /\ held[q] = NoProfile
                                      /\ pc'[q] = "idle" /\ held'[q] = NoProfile
    BY <1>2, StepIsAlone, OthersRest DEF TurnsInv, ReadersHoldNothing, Holding
  <2>2. Turn(p)
    <3>1. profile # NoProfile /\ pc[p] \notin {"persist", "delete"} => Good(profile)
      BY <2>1 DEF TurnsInv, ProfileIsGood
    <3>2. \A s \in SessionIds :
            sessions[s].alive => s \in InProfile \cup Excused \/ Of(held[p], s)
      BY <2>1 DEF TurnsInv, NoSessionIsForgotten, Of, Excused
    <3> QED  BY <2>1, <3>1, <3>2 DEF Turn, TurnsInv
  <2>3. Turn(p)'
    BY <2>1, <2>2, StepTurn
  <2>4. OneAtWork'
    BY <2>1 DEF OneAtWork
  <2>5. ProfileIsGood'
    BY <2>3 DEF Turn, ProfileIsGood
  <2>6. NoSessionIsForgotten'
    BY <2>3 DEF Turn, NoSessionIsForgotten, Of, Excused
  <2>7. \A q \in Processes : InStep(q)'
    BY <2>1, <2>3 DEF Turn, InStep
  <2> QED  BY <2>4, <2>5, <2>6, <2>7
<1> QED  BY <1>1, <1>2 DEF TurnsInv

LEMMA OutsideKeepsTurns ==
  ASSUME IInv, TurnsInv,
         \/ PublishDiscovery
         \/ \E s \in SessionIds : Auth0Ends(s)
         \/ UNCHANGED vars
  PROVE  TurnsInv'
<1> TypeOK  BY DEF IInv
<1>1. CASE PublishDiscovery \/ UNCHANGED vars
  BY <1>1 DEF PublishDiscovery, vars, keychain, auth0, process, history, TurnsInv,
     ReadersHoldNothing, OneAtWork, ProfileIsGood, NoSessionIsForgotten, InStep, Good,
     Accepts, Known, Current, InProfile
<1>2. ASSUME NEW s \in SessionIds, Auth0Ends(s)  PROVE TurnsInv'
  <2>1. /\ UNCHANGED <<profile, opened, rotates, pc, d, held, overlapped, unrevoked>>
        /\ disturbed' = disturbed \cup {s}
        /\ \A t \in SessionIds \ {s} : sessions'[t] = sessions[t]
        /\ ~sessions'[s].alive
    BY <1>2 DEF TypeOK, Auth0Ends, Ended, keychain, process
  <2>2. ASSUME NEW h \in Stored, Good(h)  PROVE Good(h)'
    BY <2>1, <2>2, GoodStays
  <2>3. ReadersHoldNothing' /\ (~overlapped => OneAtWork')
    BY <2>1 DEF TurnsInv, ReadersHoldNothing, OneAtWork
  <2>4. ~overlapped => ProfileIsGood'
    BY <2>1, <2>2 DEF TypeOK, TurnsInv, ProfileIsGood, Good
  <2>5. NoSessionIsForgotten'
    BY <2>1 DEF TurnsInv, NoSessionIsForgotten, InProfile
  <2>6. ASSUME NEW p \in Processes, ~overlapped  PROVE InStep(p)'
    <3>1. InStep(p)
      BY <2>6 DEF TurnsInv
    <3>2. CASE pc[p] \in {"persist", "store"}
      <4>1. held[p] \in Stored
        BY <3>2 DEF TypeOK
      <4>2. Good(held[p]) => Good(held[p])'
        BY <2>1, <4>1, GoodStays DEF Good
      <4> QED  BY <2>1, <3>1, <3>2, <4>2 DEF InStep
    <3>3. CASE pc[p] = "delete"
      <4>1. held[p].session \in SessionIds \cup {0}
        BY <3>3 DEF TypeOK, Stored
      <4> QED  BY <2>1, <3>1, <3>3, <4>1 DEF InStep
    <3>4. CASE pc[p] \notin {"persist", "store", "delete"}
      BY <2>1, <3>1, <3>4 DEF InStep
    <3> QED  BY <3>2, <3>3, <3>4
  <2> QED  BY <2>1, <2>3, <2>4, <2>5, <2>6 DEF TurnsInv
<1> QED  BY <1>1, <1>2

LEMMA TurnsInvariance == Spec => []TurnsInv
<1>1. Init => TurnsInv
  <2> SUFFICES ASSUME Init  PROVE TurnsInv  OBVIOUS
  <2>1. ReadersHoldNothing /\ OneAtWork /\ ProfileIsGood
    BY DEF Init, ReadersHoldNothing, OneAtWork, ProfileIsGood
  <2>2. NoSessionIsForgotten
    BY DEF Init, NoSessionIsForgotten
  <2>3. \A p \in Processes : InStep(p)
    BY DEF Init, InStep
  <2> QED  BY <2>1, <2>2, <2>3 DEF TurnsInv
<1>2. IInv /\ TurnsInv /\ [Next]_vars => TurnsInv'
  BY StepKeepsTurns, OutsideKeepsTurns DEF Next
<1> QED  BY <1>1, <1>2, Invariance, PTL DEF Spec

(***************************************************************************)
(* Someone who runs one command after another is not logged out by any of   *)
(* them: between two, Auth0 accepts the token in the keychain, unless it    *)
(* ended the session or a process was cut off with the only copy.           *)
(***************************************************************************)
THEOREM TurnsKeepUsersIn == Spec => []TurnsKeepTheSession
<1>1. TurnsInv => TurnsKeepTheSession
  BY DEF TurnsInv, ProfileIsGood, Good, TurnsKeepTheSession
<1> QED  BY <1>1, TurnsInvariance, PTL

(***************************************************************************)
(* No session stays alive at Auth0 that is neither in the keychain nor in   *)
(* the hands of a process, without the user having been told.               *)
(***************************************************************************)
THEOREM LogoutMeansOut == Spec => []NoSessionIsForgotten
<1>1. TurnsInv => NoSessionIsForgotten
  BY DEF TurnsInv, NoSessionIsForgotten
<1> QED  BY <1>1, TurnsInvariance, PTL

(***************************************************************************)
(* A command that is told its session has expired was not logged out by an  *)
(* earlier command.                                                         *)
(***************************************************************************)
THEOREM ExpiryIsExplained == Spec => []ExpiryHasACause
<1>1. ASSUME TypeOK, TurnsInv  PROVE ExpiryHasACause
  <2> SUFFICES ASSUME NEW p \in Processes, pc[p] = "refresh", ~overlapped,
                      d[p] = held[p].tenant
               PROVE  Accepts(held[p], AsksTenant(p)) \/ held[p].session \in {0} \cup disturbed
    BY DEF ExpiryHasACause
  <2>1. held[p] = profile /\ profile # NoProfile
    BY <1>1 DEF TypeOK, TurnsInv, InStep
  <2>2. \A q \in Processes : pc[q] \notin {"persist", "delete"}
    BY <1>1 DEF TurnsInv, OneAtWork
  <2>3. Good(profile)
    BY <1>1, <2>1, <2>2 DEF TurnsInv, ProfileIsGood
  <2> QED  BY <2>1, <2>3 DEF Good, AsksTenant
<1> QED  BY <1>1, TypeCorrect, TurnsInvariance, PTL
=============================================================================
