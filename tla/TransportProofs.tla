--------------------------- MODULE TransportProofs --------------------------
(***************************************************************************)
(* Theorems about TokenCache and about Transport, which drives it, for any  *)
(* set of goroutines and any bounds.  The transport uses the cache as its   *)
(* specification allows, so the cache's theorems hold of it too; what the   *)
(* second part adds follows a round trip from the 401 to the retry.         *)
(***************************************************************************)
EXTENDS Transport, FiniteSetTheorems, TLAPS

-----------------------------------------------------------------------------
(* The cache *)

\* The inductive invariant holds initially.
LEMMA InitIInv == Init => IInv
<1> SUFFICES ASSUME Init PROVE IInv
  OBVIOUS
<1>1. TypeOK
  BY NobodyAssumption DEF Init, TypeOK, Labels, Verdicts, NoTokens
<1>2. SingleRefresh
  BY NobodyAssumption DEF Init, SingleRefresh, InFlight
<1>3. AnswerIsNewest /\ SavesWhatWasIssued
  BY DEF Init, AnswerIsNewest, SavesWhatWasIssued
<1> QED
  BY <1>1, <1>2, <1>3 DEF IInv

\* Auth0's grant is the step that moves `minted' and `live'.
LEMMA GrantIInv ==
  ASSUME NEW g \in Goroutines, IInv, Auth0Grants(g)
  PROVE  IInv'
<1>0. PICK issued \in {0, live + 1} :
        /\ live' = KeptRT(live, issued)
        /\ AnsweredWith(g, [at |-> minted + 1, rt |-> KeptRT(tokens.rt, issued)])
  BY DEF Auth0Grants
<1> DEFINE answer == [at |-> minted + 1, rt |-> KeptRT(tokens.rt, issued)]
<1>1. /\ pc[g] = "refresh" /\ tokens.rt = live
      /\ live' = KeptRT(live, issued)
      /\ pc' = [pc EXCEPT ![g] = "reply"]
      /\ newToks' = [newToks EXCEPT ![g] = answer]
      /\ minted' = minted + 1
      /\ UNCHANGED <<mu, tokens, verdict, got, disk, alive, aged, invalidations, lost,
                     unsaved, overtaken>>
  BY <1>0 DEF Auth0Grants, AnsweredWith, histVars
<1>2. TypeOK /\ SingleRefresh /\ AnswerIsNewest /\ SavesWhatWasIssued
  BY DEF IInv
<1>3. live' \in Nat \ {0} /\ live' >= live /\ answer.rt = live' /\ answer.at = minted'
  BY <1>1, <1>2 DEF TypeOK, KeptRT
<1>4. \A h \in Goroutines : h # g => pc[h] \notin {"refresh", "reply"}
  BY <1>1, <1>2 DEF SingleRefresh, InFlight
<1> HIDE DEF answer
<1>5. answer \in [at : 0..minted', rt : 0..live']
  BY <1>1, <1>2, <1>3 DEF TypeOK, answer
<1>6. TypeOK'
  <2>1. newToks' \in [Goroutines -> [at : 0..minted', rt : 0..live']]
    BY <1>1, <1>2, <1>3, <1>5 DEF TypeOK
  <2>2. tokens' \in [at : 0..minted', rt : 1..live']
    BY <1>1, <1>2, <1>3 DEF TypeOK
  <2>3. pc' \in [Goroutines -> Labels]
    BY <1>1, <1>2 DEF TypeOK, Labels
  <2>4. /\ aged' \in SUBSET (1..minted') /\ disk' \in 1..live'
        /\ got' \in [Goroutines -> 0..minted'] /\ minted' \in Nat
    BY <1>1, <1>2, <1>3 DEF TypeOK
  <2> QED
    BY <1>1, <1>2, <1>3, <2>1, <2>2, <2>3, <2>4 DEF TypeOK
<1>7. SingleRefresh'
  BY <1>1, <1>2, <1>4 DEF SingleRefresh, InFlight, TypeOK
<1>8. AnswerIsNewest'
  BY <1>1, <1>2, <1>3, <1>4 DEF AnswerIsNewest, Granted, TypeOK
<1>9. SavesWhatWasIssued'
  BY <1>1, <1>2, <1>3, <1>4 DEF SavesWhatWasIssued, TypeOK
<1> QED
  BY <1>6, <1>7, <1>8, <1>9 DEF IInv

\* The inductive invariant is preserved by every other step inside the cache.
LEMMA InsideIInv ==
  ASSUME NEW g \in Goroutines, IInv, Inside(g)
  PROVE  IInv'
<1> USE NobodyAssumption
<1>1. TypeOK /\ SingleRefresh /\ AnswerIsNewest /\ SavesWhatWasIssued
  BY DEF IInv
<1>2. CASE AccessTokenHit(g)
  BY <1>1, <1>2 DEF AccessTokenHit, Return, IInv, TypeOK, SingleRefresh, AnswerIsNewest,
     SavesWhatWasIssued, InFlight, Granted, authVars, histVars, Labels, Verdicts
<1>3. CASE AccessTokenMiss(g)
  BY <1>1, <1>3 DEF AccessTokenMiss, IInv, TypeOK, SingleRefresh, AnswerIsNewest,
     SavesWhatWasIssued, InFlight, Granted, authVars, histVars, Labels
<1>4. CASE Invalidate(g)
  BY <1>1, <1>4 DEF Invalidate, Cleared, IInv, TypeOK, SingleRefresh, AnswerIsNewest,
     SavesWhatWasIssued, InFlight, Granted, authVars, Labels
<1>5. CASE Auth0Grants(g)
  BY <1>5, GrantIInv
<1>6. CASE Auth0Refuses(g)
  <2>1. alive' \in BOOLEAN
    BY <1>1, <1>6, Zenon DEF Auth0Refuses, TypeOK
  <2>2. /\ pc[g] = "refresh"
        /\ pc' = [pc EXCEPT ![g] = "reply"]
        /\ newToks' = [newToks EXCEPT ![g] = NoTokens]
        /\ UNCHANGED <<mu, tokens, verdict, got, disk, live, minted, aged, histVars>>
    BY <1>6 DEF Auth0Refuses, AnsweredWith
  <2>3. TypeOK'
    BY <1>1, <2>1, <2>2 DEF NoTokens, TypeOK, Labels, histVars
  <2>4. SingleRefresh' /\ AnswerIsNewest' /\ SavesWhatWasIssued'
    BY <1>1, <2>2 DEF NoTokens, TypeOK, SingleRefresh, AnswerIsNewest,
       SavesWhatWasIssued, InFlight, Granted
  <2> QED
    BY <2>3, <2>4 DEF IInv
<1>7. CASE RefreshUnreachable(g)
  BY <1>1, <1>7 DEF RefreshUnreachable, Return, IInv, TypeOK, SingleRefresh, AnswerIsNewest,
     SavesWhatWasIssued, InFlight, Granted, authVars, histVars, Labels, Verdicts
<1>8. CASE RefreshExpired(g)
  BY <1>1, <1>8 DEF RefreshExpired, Return, IInv, TypeOK, SingleRefresh, AnswerIsNewest,
     SavesWhatWasIssued, InFlight, Granted, authVars, histVars, Labels, Verdicts
<1>9. CASE LoseReply(g)
  BY <1>1, <1>9 DEF LoseReply, Return, NoTokens, IInv, TypeOK, SingleRefresh, AnswerIsNewest,
     SavesWhatWasIssued, InFlight, Granted, authVars, Labels, Verdicts
<1>10. CASE Adopt(g)
  BY <1>1, <1>10 DEF Adopt, IInv, TypeOK, SingleRefresh, AnswerIsNewest,
     SavesWhatWasIssued, InFlight, Granted, authVars, histVars, Labels
<1>11. CASE Persist(g)
  <2>1. newToks[g].rt \in 1..live /\ newToks[g].at \in 0..minted
    BY <1>1, <1>11 DEF Persist, SavesWhatWasIssued, TypeOK
  <2>2. overtaken' \subseteq 1..live
    <3>1. disk \in 1..live /\ overtaken \subseteq 1..live /\ live \in Nat
      BY <1>1 DEF TypeOK
    <3>2. (newToks[g].rt + 1)..disk \subseteq 1..live
      BY <2>1, <3>1
    <3> QED
      BY <1>11, <3>1, <3>2 DEF Persist
  <2>3. /\ UNCHANGED <<mu, tokens, live, alive, minted, aged, invalidations, lost, unsaved>>
        /\ disk' \in 1..live
        /\ pc' = [pc EXCEPT ![g] = "out"] /\ pc[g] = "persist"
        /\ verdict' = [verdict EXCEPT ![g] = "ok"]
        /\ got' = [got EXCEPT ![g] = newToks[g].at]
        /\ newToks' = [newToks EXCEPT ![g] = NoTokens]
    BY <1>11, <2>1 DEF Persist, Return, authVars
  <2>4. TypeOK'
    BY <1>1, <2>1, <2>2, <2>3 DEF NoTokens, TypeOK, Labels, Verdicts
  <2>5. SingleRefresh' /\ AnswerIsNewest' /\ SavesWhatWasIssued'
    BY <1>1, <2>3 DEF NoTokens, TypeOK, SingleRefresh, AnswerIsNewest, SavesWhatWasIssued,
       InFlight, Granted
  <2> QED
    BY <2>4, <2>5 DEF IInv
<1>12. CASE PersistFails(g)
  <2>1. unsaved' \subseteq 1..live
    BY <1>1, <1>12 DEF PersistFails, SavesWhatWasIssued, TypeOK
  <2>2. /\ UNCHANGED <<mu, tokens, disk, live, alive, minted, aged, invalidations, lost,
                       overtaken>>
        /\ pc' = [pc EXCEPT ![g] = "out"] /\ pc[g] = "persist"
        /\ verdict' = [verdict EXCEPT ![g] = "failed"]
        /\ got' = [got EXCEPT ![g] = 0]
        /\ newToks' = [newToks EXCEPT ![g] = NoTokens]
    BY <1>12 DEF PersistFails, Return, authVars
  <2>3. TypeOK'
    BY <1>1, <2>1, <2>2 DEF NoTokens, TypeOK, Labels, Verdicts
  <2>4. SingleRefresh' /\ AnswerIsNewest' /\ SavesWhatWasIssued'
    BY <1>1, <2>2 DEF NoTokens, TypeOK, SingleRefresh, AnswerIsNewest, SavesWhatWasIssued,
       InFlight, Granted
  <2> QED
    BY <2>3, <2>4 DEF IInv
<1> QED
  BY <1>2, <1>3, <1>4, <1>5, <1>6, <1>7, <1>8, <1>9, <1>10, <1>11, <1>12
  DEF Inside, Enter, Answer, Settle, Save

\* A goroutine calling a method, the passing of time and a revocation leave
\* the inductive invariant alone, and so does a stuttering step.
LEMMA OutsideIInv ==
  ASSUME IInv,
         \/ \E g \in Goroutines : CallAccessToken(g) \/ CallInvalidate(g)
         \/ Environment
         \/ UNCHANGED vars
  PROVE  IInv'
<1>1. TypeOK /\ SingleRefresh /\ AnswerIsNewest /\ SavesWhatWasIssued
  BY DEF IInv
<1>2. ASSUME NEW g \in Goroutines, CallAccessToken(g) PROVE IInv'
  BY <1>1, <1>2, NobodyAssumption DEF CallAccessToken, IInv, TypeOK, SingleRefresh,
     AnswerIsNewest, SavesWhatWasIssued, InFlight, Granted, authVars, histVars, Labels
<1>3. ASSUME NEW g \in Goroutines, CallInvalidate(g) PROVE IInv'
  BY <1>1, <1>3, NobodyAssumption DEF CallInvalidate, IInv, TypeOK, SingleRefresh,
     AnswerIsNewest, SavesWhatWasIssued, InFlight, Granted, authVars, histVars, Labels
<1>4. ASSUME NEW at \in (1..minted) \ aged, Age(at) PROVE IInv'
  BY <1>1, <1>4 DEF Age, IInv, TypeOK, SingleRefresh, AnswerIsNewest, SavesWhatWasIssued,
     InFlight, Granted, goVars, authVars, histVars
<1>5. CASE Revoke
  BY <1>1, <1>5 DEF Revoke, IInv, TypeOK, SingleRefresh, AnswerIsNewest,
     SavesWhatWasIssued, InFlight, Granted, goVars, histVars
<1>6. CASE UNCHANGED vars
  BY <1>1, <1>6 DEF IInv, TypeOK, SingleRefresh, AnswerIsNewest, SavesWhatWasIssued,
     InFlight, Granted, vars, goVars, authVars, histVars
<1> QED
  BY <1>2, <1>3, <1>4, <1>5, <1>6 DEF Environment

\* The inductive invariant holds in every reachable state.
THEOREM Invariance == Spec => []IInv
<1>1. Init => IInv
  BY InitIInv
<1>2. IInv /\ [Next]_vars => IInv'
  BY InsideIInv, OutsideIInv DEF Next
<1> QED
  BY <1>1, <1>2, PTL DEF Spec

\* The state is well typed; in particular no refresh token is ever blanked.
THEOREM TypeCorrect == Spec => []TypeOK
BY Invariance, PTL DEF IInv

\* At most one refresh grant is outstanding, and the mutex's holder has it.
THEOREM OneRefreshAtATime == Spec => []SingleRefresh
BY Invariance, PTL DEF IInv

-----------------------------------------------------------------------------
(* The chain of refresh tokens *)

\* The cache's steps keep hold of the token Auth0 accepts.
LEMMA HoldsLiveTokenStep ==
  ASSUME IInv, HoldsLiveToken, [Next]_vars
  PROVE  HoldsLiveToken'
<1>1. TypeOK /\ SingleRefresh /\ AnswerIsNewest
  BY DEF IInv
<1>2. CASE UNCHANGED vars
  BY <1>2 DEF HoldsLiveToken, Granted, vars, goVars, authVars, histVars
<1>3. ASSUME NEW g \in Goroutines, CallAccessToken(g) \/ CallInvalidate(g)
      PROVE  HoldsLiveToken'
  BY <1>1, <1>3 DEF CallAccessToken, CallInvalidate, HoldsLiveToken, Granted, TypeOK,
     authVars, histVars
<1>4. CASE Environment
  BY <1>1, <1>4 DEF Environment, Age, Revoke, HoldsLiveToken, Granted, TypeOK, goVars,
     authVars, histVars
<1>5. ASSUME NEW g \in Goroutines, Enter(g) PROVE HoldsLiveToken'
  BY <1>1, <1>5 DEF Enter, AccessTokenHit, AccessTokenMiss, Invalidate, Return, Cleared,
     HoldsLiveToken, Granted, TypeOK, authVars, histVars
<1>6. ASSUME NEW g \in Goroutines, Auth0Grants(g) PROVE HoldsLiveToken'
  <2>1. newToks'[g].at # 0 /\ newToks'[g].rt = live' /\ pc'[g] = "reply"
    BY <1>1, <1>6 DEF Auth0Grants, AnsweredWith, KeptRT, TypeOK
  <2>2. /\ \A h \in Goroutines \ {g} : pc'[h] = pc[h] /\ newToks'[h] = newToks[h]
        /\ UNCHANGED <<lost, alive, verdict>>
    BY <1>1, <1>6 DEF Auth0Grants, AnsweredWith, TypeOK, histVars
  <2> QED
    BY <2>1, <2>2 DEF HoldsLiveToken, Granted
<1>7. ASSUME NEW g \in Goroutines, Auth0Refuses(g) PROVE HoldsLiveToken'
  <2>1. lost = 0 => tokens.rt = live
    BY <1>1, <1>7 DEF Auth0Refuses, HoldsLiveToken, SingleRefresh, InFlight
  <2>2. lost = 0 => ~alive'
    BY <1>7, <2>1, Zenon DEF Auth0Refuses
  <2>3. UNCHANGED <<lost, tokens, live>>
    BY <1>7 DEF Auth0Refuses, histVars
  <2> QED
    BY <2>1, <2>2, <2>3 DEF HoldsLiveToken
<1>8. ASSUME NEW g \in Goroutines, RefreshUnreachable(g) \/ RefreshExpired(g) \/ LoseReply(g)
      PROVE  HoldsLiveToken'
  BY <1>1, <1>8 DEF RefreshUnreachable, RefreshExpired, LoseReply, Return, HoldsLiveToken,
     Granted, TypeOK, authVars, histVars
<1>9. ASSUME NEW g \in Goroutines, Adopt(g) PROVE HoldsLiveToken'
  BY <1>1, <1>9 DEF Adopt, HoldsLiveToken, AnswerIsNewest, SingleRefresh, InFlight,
     Granted, TypeOK, authVars, histVars
<1>10. ASSUME NEW g \in Goroutines, Save(g) PROVE HoldsLiveToken'
  BY <1>1, <1>10 DEF Save, Persist, PersistFails, Return, HoldsLiveToken, Granted, TypeOK,
     authVars, histVars
<1> QED
  BY <1>2, <1>3, <1>4, <1>5, <1>6, <1>7, <1>8, <1>9, <1>10 DEF Next, Inside, Answer, Settle

\* As long as no answer is lost, the process holds the token Auth0 accepts.
THEOREM LiveTokenHeld == Spec => []HoldsLiveToken
<1>1. Init => HoldsLiveToken
  BY DEF Init, HoldsLiveToken
<1>2. IInv /\ HoldsLiveToken /\ [Next]_vars => HoldsLiveToken'
  BY HoldsLiveTokenStep
<1> QED
  BY <1>1, <1>2, Invariance, PTL DEF Spec

\* A refresh never presents a token that was rotated away, and the session is
\* never reported over while Auth0 keeps it, unless an answer was lost.
THEOREM NeverPresentsRotatedToken == Spec => []PresentsLiveToken /\ []ExpiredIsTrue
<1>1. IInv /\ HoldsLiveToken => PresentsLiveToken
  BY DEF IInv, HoldsLiveToken, PresentsLiveToken, SingleRefresh, InFlight
<1>2. HoldsLiveToken => ExpiredIsTrue
  BY DEF HoldsLiveToken, ExpiredIsTrue
<1> QED
  BY <1>1, <1>2, Invariance, LiveTokenHeld, PTL

\* Neither cached token is ever replaced by an older one.
THEOREM NeverGoesBack == Spec => MemoryMovesForward
<1>1. ASSUME IInv, Next
      PROVE  tokens'.rt >= tokens.rt /\ (tokens'.at = 0 \/ tokens'.at >= tokens.at)
  <2>1. TypeOK /\ AnswerIsNewest
    BY <1>1 DEF IInv
  <2>2. ASSUME NEW g \in Goroutines, Adopt(g)
        PROVE  tokens'.rt >= tokens.rt /\ tokens'.at >= tokens.at
    BY <2>1, <2>2 DEF Adopt, AnswerIsNewest, TypeOK
  <2>3. ASSUME NEW g \in Goroutines, Invalidate(g)
        PROVE  tokens'.rt = tokens.rt /\ tokens'.at = 0
    BY <2>1, <2>3 DEF Invalidate, Cleared, TypeOK
  <2>4. CASE UNCHANGED tokens
    BY <2>1, <2>4 DEF TypeOK
  <2>5. \/ UNCHANGED tokens
        \/ \E g \in Goroutines : Adopt(g) \/ Invalidate(g)
    BY <1>1
    DEF Next, Inside, Enter, Answer, Settle, Save, CallAccessToken, CallInvalidate,
        AccessTokenHit, AccessTokenMiss, Auth0Grants, Auth0Refuses, RefreshUnreachable,
        RefreshExpired, LoseReply, Persist, PersistFails, Environment, Age, Revoke
  <2>6. tokens.rt \in Nat /\ tokens.at \in Nat
    BY <2>1 DEF TypeOK
  <2> QED
    BY <2>2, <2>3, <2>4, <2>5, <2>6
<1>2. IInv /\ [Next]_vars =>
        [tokens'.rt >= tokens.rt /\ (tokens'.at = 0 \/ tokens'.at >= tokens.at)]_vars
  BY <1>1
<1> QED
  BY <1>2, Invariance, PTL DEF Spec, MemoryMovesForward
-----------------------------------------------------------------------------
(* Coalescing *)

\* A refresh in flight stays needed: nobody else can fill the cache.
LEMMA RefreshIsNeededStep ==
  ASSUME IInv, RefreshIsNeeded, [Next]_vars
  PROVE  RefreshIsNeeded'
<1>1. TypeOK /\ SingleRefresh
  BY DEF IInv
<1>2. CASE UNCHANGED vars
  BY <1>2 DEF RefreshIsNeeded, InFlight, Usable, vars, goVars
<1>3. ASSUME NEW g \in Goroutines, CallAccessToken(g) \/ CallInvalidate(g)
      PROVE  RefreshIsNeeded'
  BY <1>1, <1>3 DEF CallAccessToken, CallInvalidate, RefreshIsNeeded, InFlight, Usable, TypeOK
<1>4. CASE Environment
  BY <1>1, <1>4 DEF Environment, Age, Revoke, RefreshIsNeeded, InFlight, Usable, goVars
<1>5. ASSUME NEW g \in Goroutines, Enter(g) PROVE RefreshIsNeeded'
  BY <1>1, <1>5, NobodyAssumption DEF Enter, AccessTokenHit, AccessTokenMiss, Invalidate,
     Return, Cleared, RefreshIsNeeded, SingleRefresh, InFlight, Usable, TypeOK
<1>6. ASSUME NEW g \in Goroutines, Answer(g) PROVE RefreshIsNeeded'
  BY <1>1, <1>6 DEF Answer, Auth0Grants, Auth0Refuses, RefreshUnreachable, AnsweredWith,
     Return, RefreshIsNeeded, InFlight, Usable, TypeOK
<1>7. ASSUME NEW g \in Goroutines, Settle(g) PROVE RefreshIsNeeded'
  BY <1>1, <1>7 DEF Settle, RefreshExpired, LoseReply, Adopt, Return, RefreshIsNeeded,
     SingleRefresh, InFlight, Usable, TypeOK
<1>8. ASSUME NEW g \in Goroutines, Save(g) PROVE RefreshIsNeeded'
  BY <1>1, <1>8 DEF Save, Persist, PersistFails, Return, RefreshIsNeeded, InFlight, Usable,
     TypeOK
<1> QED
  BY <1>2, <1>3, <1>4, <1>5, <1>6, <1>7, <1>8 DEF Next, Inside

\* Ageing one more token adds one to the tokens aged.
LEMMA AgedCount ==
  ASSUME TypeOK
  PROVE  /\ Cardinality(aged) \in Nat
         /\ \A at \in (1..minted) \ aged : Cardinality(aged \cup {at}) = Cardinality(aged) + 1
<1>1. IsFiniteSet(1..minted) /\ aged \subseteq 1..minted
  BY FS_Interval DEF TypeOK
<1>2. IsFiniteSet(aged)
  BY <1>1, FS_Subset
<1> QED
  BY <1>2, FS_CardinalityType, FS_AddElement

LEMMA MintsAccountedForStep ==
  ASSUME IInv, RefreshIsNeeded, MintsAccountedFor, [Next]_vars
  PROVE  MintsAccountedFor'
<1>1. TypeOK /\ SingleRefresh
  BY DEF IInv
<1>2. /\ Cardinality(aged) \in Nat /\ minted \in Nat
      /\ invalidations \in Nat /\ lost \in Nat
  BY <1>1, AgedCount DEF TypeOK
<1> DEFINE paid == Cardinality(aged) + invalidations + lost
<1>3. ASSUME minted' = minted, aged' = aged, invalidations' = invalidations, lost' = lost,
             HasUnspentToken <=> HasUnspentToken'
      PROVE  MintsAccountedFor'
  BY <1>2, <1>3 DEF MintsAccountedFor
<1>4. ASSUME minted' = minted, paid' \in Nat, paid' >= paid + 1
      PROVE  MintsAccountedFor'
  BY <1>2, <1>4 DEF MintsAccountedFor
<1>5. CASE UNCHANGED vars
  BY <1>3, <1>5 DEF HasUnspentToken, Usable, vars, goVars, authVars, histVars
<1>6. ASSUME NEW g \in Goroutines, CallAccessToken(g) \/ CallInvalidate(g)
      PROVE  MintsAccountedFor'
  BY <1>1, <1>3, <1>6 DEF CallAccessToken, CallInvalidate, HasUnspentToken, Usable, TypeOK,
     authVars, histVars
<1>7. CASE Revoke
  BY <1>3, <1>7 DEF Revoke, HasUnspentToken, Usable, goVars, histVars
<1>8. ASSUME NEW at \in (1..minted) \ aged, Age(at) PROVE MintsAccountedFor'
  <2>1. aged' = aged \cup {at} /\ UNCHANGED <<minted, invalidations, lost>>
    BY <1>8 DEF Age, authVars, histVars
  <2>2. Cardinality(aged') = Cardinality(aged) + 1
    BY <1>1, <1>8, <2>1, AgedCount
  <2> QED
    BY <1>2, <1>4, <2>1, <2>2
<1>9. ASSUME NEW g \in Goroutines, AccessTokenHit(g) \/ AccessTokenMiss(g)
       PROVE  MintsAccountedFor'
  BY <1>1, <1>3, <1>9 DEF AccessTokenHit, AccessTokenMiss, Return, HasUnspentToken, Usable,
     TypeOK, authVars, histVars
<1>10. ASSUME NEW g \in Goroutines, Invalidate(g) PROVE MintsAccountedFor'
  <2>1. /\ UNCHANGED <<minted, aged, lost>>
        /\ invalidations' = invalidations + 1
    BY <1>10 DEF Invalidate, authVars
  <2>2. Cardinality(aged') = Cardinality(aged)
    BY <2>1
  <2> QED
    BY <1>2, <1>4, <2>1, <2>2
<1>11. ASSUME NEW g \in Goroutines, Auth0Grants(g) PROVE MintsAccountedFor'
  <2>1. ~Usable(tokens)
    BY <1>11 DEF Auth0Grants, RefreshIsNeeded, InFlight
  <2>2. \A h \in Goroutines : pc[h] # "reply"
    BY <1>1, <1>11 DEF Auth0Grants, SingleRefresh, InFlight
  <2>3. minted <= paid
    BY <1>2, <2>1, <2>2 DEF HasUnspentToken, MintsAccountedFor
  <2>4. pc'[g] = "reply" /\ newToks'[g].at = minted + 1
    BY <1>1, <1>11 DEF Auth0Grants, AnsweredWith, TypeOK
  <2>5. minted + 1 \notin aged /\ UNCHANGED <<aged, invalidations, lost>>
    BY <1>1, <1>11 DEF Auth0Grants, TypeOK, histVars
  <2>6. HasUnspentToken'
    BY <1>2, <2>4, <2>5 DEF HasUnspentToken, Usable
  <2>7. minted' = minted + 1
    BY <1>11 DEF Auth0Grants
  <2> QED
    BY <1>2, <2>3, <2>5, <2>6, <2>7 DEF MintsAccountedFor
<1>12. ASSUME NEW g \in Goroutines, Auth0Refuses(g) PROVE MintsAccountedFor'
  BY <1>1, <1>3, <1>12 DEF Auth0Refuses, AnsweredWith, NoTokens, HasUnspentToken, Usable,
     TypeOK, histVars
<1>13. ASSUME NEW g \in Goroutines, RefreshUnreachable(g) \/ RefreshExpired(g)
       PROVE  MintsAccountedFor'
  BY <1>1, <1>3, <1>13 DEF RefreshUnreachable, RefreshExpired, Return, Granted,
     HasUnspentToken, Usable, TypeOK, authVars, histVars
<1>14. ASSUME NEW g \in Goroutines, LoseReply(g) PROVE MintsAccountedFor'
  <2>1. UNCHANGED <<tokens, minted, aged, invalidations>>
    BY <1>14 DEF LoseReply, authVars
  <2>2. CASE Granted(g)
    BY <1>2, <1>4, <1>14, <2>1, <2>2 DEF LoseReply
  <2>3. CASE ~Granted(g)
    BY <1>1, <1>3, <1>14, <2>1, <2>3 DEF LoseReply, Return, NoTokens, Granted,
       HasUnspentToken, Usable, TypeOK
  <2> QED
    BY <2>2, <2>3
<1>15. ASSUME NEW g \in Goroutines, Adopt(g) PROVE MintsAccountedFor'
  <2>1. ~Usable(tokens) /\ \A h \in Goroutines : h # g => pc[h] # "reply"
    BY <1>1, <1>15 DEF Adopt, RefreshIsNeeded, SingleRefresh, InFlight
  <2> QED
    BY <1>1, <1>3, <1>15, <2>1 DEF Adopt, HasUnspentToken, Usable, TypeOK, authVars, histVars
<1>16. ASSUME NEW g \in Goroutines, Save(g) PROVE MintsAccountedFor'
  BY <1>1, <1>3, <1>16 DEF Save, Persist, PersistFails, Return, HasUnspentToken, Usable,
     TypeOK, authVars, histVars
<1> QED
  BY <1>5, <1>6, <1>7, <1>8, <1>9, <1>10, <1>11, <1>12, <1>13, <1>14, <1>15, <1>16
  DEF Next, Environment, Inside, Enter, Answer, Settle

\* Parallel calls coalesce, whatever their number: Auth0 issues one token to
\* the process, and then one more only for each that went stale, was
\* invalidated or was lost on the way.
THEOREM CallersCoalesce == Spec => []RefreshesAreCaused
<1>1. Init => RefreshIsNeeded /\ MintsAccountedFor
  BY FS_EmptySet DEF Init, RefreshIsNeeded, InFlight, MintsAccountedFor
<1>2. IInv /\ RefreshIsNeeded /\ MintsAccountedFor /\ [Next]_vars
        => RefreshIsNeeded' /\ MintsAccountedFor'
  BY RefreshIsNeededStep, MintsAccountedForStep
<1>3. IInv /\ MintsAccountedFor => RefreshesAreCaused
  BY AgedCount DEF IInv, TypeOK, MintsAccountedFor, RefreshesAreCaused
<1> QED
  BY <1>1, <1>2, <1>3, Invariance, PTL DEF Spec
-----------------------------------------------------------------------------
(* What a crash leaves behind *)

LEMMA CrashStep ==
  ASSUME IInv, CrashIsAccountedFor, [Next]_vars
  PROVE  CrashIsAccountedFor'
<1>1. TypeOK /\ SingleRefresh /\ AnswerIsNewest /\ SavesWhatWasIssued
  BY DEF IInv
<1>2. /\ live \in Nat /\ disk \in Nat /\ tokens.rt \in Nat /\ lost \in Nat
      /\ pc \in [Goroutines -> Labels]
      /\ newToks \in [Goroutines -> [at : 0..minted, rt : 0..live]] /\ minted \in Nat
  BY <1>1 DEF TypeOK
\* A step that leaves the tokens and the goroutines about to save alone.
<1>3. ASSUME UNCHANGED <<disk, live, lost, unsaved, overtaken>>, tokens'.rt = tokens.rt,
             \A g \in Goroutines :
               pc[g] \in {"reply", "persist"} => pc'[g] = pc[g] /\ newToks'[g] = newToks[g]
      PROVE  CrashIsAccountedFor'
  BY <1>2, <1>3 DEF CrashIsAccountedFor, Granted
<1>4. CASE UNCHANGED vars
  BY <1>3, <1>4 DEF vars, goVars, authVars, histVars
<1>5. ASSUME NEW g \in Goroutines, CallAccessToken(g) \/ CallInvalidate(g)
      PROVE  CrashIsAccountedFor'
  BY <1>2, <1>3, <1>5 DEF CallAccessToken, CallInvalidate, authVars, histVars
<1>6. CASE Environment
  BY <1>3, <1>6 DEF Environment, Age, Revoke, goVars, authVars, histVars
<1>7. ASSUME NEW g \in Goroutines, Enter(g) PROVE CrashIsAccountedFor'
  BY <1>1, <1>2, <1>3, <1>7 DEF Enter, AccessTokenHit, AccessTokenMiss, Invalidate, Return,
     Cleared, TypeOK, authVars, histVars
<1>8. ASSUME NEW g \in Goroutines, Auth0Grants(g) PROVE CrashIsAccountedFor'
  <2>1. tokens.rt = live /\ live' \in {live, live + 1}
    BY <1>2, <1>8 DEF Auth0Grants, KeptRT
  <2>2. /\ pc'[g] = "reply" /\ Granted(g)'
        /\ UNCHANGED <<tokens, disk, lost, unsaved, overtaken>>
        /\ \A h \in Goroutines :
             pc[h] = "persist" => pc'[h] = "persist" /\ newToks'[h] = newToks[h]
    BY <1>2, <1>8 DEF Auth0Grants, AnsweredWith, Granted, histVars
  <2> QED
    BY <1>2, <2>1, <2>2 DEF CrashIsAccountedFor
<1>9. ASSUME NEW g \in Goroutines, Auth0Refuses(g) PROVE CrashIsAccountedFor'
  BY <1>2, <1>3, <1>9 DEF Auth0Refuses, AnsweredWith, histVars
<1>10. ASSUME NEW g \in Goroutines, RefreshUnreachable(g) PROVE CrashIsAccountedFor'
  BY <1>2, <1>3, <1>10 DEF RefreshUnreachable, Return, authVars, histVars
<1>11. ASSUME NEW g \in Goroutines, RefreshExpired(g) \/ LoseReply(g)
       PROVE  CrashIsAccountedFor'
  <2>1. /\ UNCHANGED <<tokens, disk, live, unsaved, overtaken>> /\ pc[g] = "reply"
        /\ \A h \in Goroutines :
             pc[h] = "persist" => pc'[h] = "persist" /\ newToks'[h] = newToks[h]
    BY <1>2, <1>11 DEF RefreshExpired, LoseReply, Return, authVars, histVars
  <2>2. live # tokens.rt => lost' > 0
    BY <1>1, <1>2, <1>11 DEF RefreshExpired, LoseReply, histVars, CrashIsAccountedFor,
       SingleRefresh, InFlight
  <2> QED
    BY <1>2, <2>1, <2>2 DEF CrashIsAccountedFor
<1>12. ASSUME NEW g \in Goroutines, Adopt(g) PROVE CrashIsAccountedFor'
  <2>1. /\ tokens' = newToks[g] /\ newToks[g].rt = live /\ pc'[g] = "persist"
        /\ UNCHANGED <<newToks, disk, live, lost, unsaved, overtaken>>
        /\ \A h \in Goroutines : pc[h] = "persist" => pc'[h] = "persist"
    BY <1>1, <1>2, <1>12 DEF Adopt, AnswerIsNewest, authVars, histVars
  <2>2. live \in {tokens.rt, tokens.rt + 1}
    BY <1>2 DEF CrashIsAccountedFor
  <2> QED
    BY <1>2, <2>1, <2>2 DEF CrashIsAccountedFor
<1>13. ASSUME NEW g \in Goroutines, Save(g) PROVE CrashIsAccountedFor'
  <2>1. /\ pc[g] = "persist" /\ UNCHANGED <<tokens, live, lost>>
        /\ \A h \in Goroutines \ {g} : pc'[h] = pc[h] /\ newToks'[h] = newToks[h]
        /\ \/ /\ disk' = newToks[g].rt /\ unsaved' = unsaved
              /\ overtaken' = overtaken \cup ((newToks[g].rt + 1)..disk)
           \/ /\ disk' = disk /\ overtaken' = overtaken
              /\ unsaved' = unsaved \cup {newToks[g].rt}
    BY <1>2, <1>13 DEF Save, Persist, PersistFails, Return, authVars
  <2>2. newToks[g].rt \in Nat
    BY <1>2
  <2>3. ASSUME NEW rt \in (disk' + 1)..tokens.rt
        PROVE  \/ rt \in unsaved' \cup overtaken'
               \/ \E h \in Goroutines : pc'[h] = "persist" /\ newToks'[h].rt = rt
    <3>1. CASE rt \in (disk + 1)..tokens.rt
      BY <1>2, <2>1, <2>2, <3>1 DEF CrashIsAccountedFor
    <3>2. CASE rt \notin (disk + 1)..tokens.rt
      BY <1>2, <2>1, <2>2, <3>2
    <3> QED
      BY <3>1, <3>2
  <2>4. live' = live /\ tokens' = tokens
    BY <2>1
  <2>5. live' # tokens'.rt =>
          lost' > 0 \/ \E h \in Goroutines : pc'[h] = "reply" /\ Granted(h)'
    BY <2>1 DEF CrashIsAccountedFor, Granted
  <2> QED
    BY <2>3, <2>4, <2>5 DEF CrashIsAccountedFor
<1> QED
  BY <1>4, <1>5, <1>6, <1>7, <1>8, <1>9, <1>10, <1>11, <1>12, <1>13
  DEF Next, Inside, Answer, Settle

\* Whatever the number of goroutines, a crash costs the keychain only tokens
\* that were being written, failed to be, or were overtaken, and the session
\* at most the one rotation under way.
THEOREM CrashIsBounded == Spec => []CrashIsAccountedFor
<1>1. Init => CrashIsAccountedFor
  BY DEF Init, CrashIsAccountedFor
<1>2. IInv /\ CrashIsAccountedFor /\ [Next]_vars => CrashIsAccountedFor'
  BY CrashStep
<1> QED
  BY <1>1, <1>2, Invariance, PTL DEF Spec

-----------------------------------------------------------------------------
(* The transport *)

\* A step of the transport is a step of the cache, or none.
LEMMA CacheStepOrNone == TransportNext => [Next]_vars
<1> SUFFICES ASSUME TransportNext PROVE Next \/ UNCHANGED vars
  OBVIOUS
<1>1. ASSUME NEW g \in Goroutines, Trip(g) PROVE Next \/ UNCHANGED vars
  BY <1>1 DEF Trip, Start, TokenError, Serve, NetworkError, Deliver, Drop401, Retry, Next
<1>2. ASSUME NEW g \in Goroutines, CacheStep(g) PROVE Next
  BY <1>2 DEF CacheStep, Next
<1>3. CASE Environment
  BY <1>3 DEF Next
<1>4. ASSUME NEW at \in (1..minted) \ refused, Refuse(at) PROVE UNCHANGED vars
  BY <1>4 DEF Refuse
<1> QED
  BY <1>1, <1>2, <1>3, <1>4 DEF TransportNext

\* What holds of the cache holds of the transport, which moves it by its actions.
LEMMA TransportUsesCache == TransportSpec => Spec
<1>1. TransportInit => Init
  BY DEF TransportInit
<1>2. [TransportNext]_allVars => [Next]_vars
  BY CacheStepOrNone DEF allVars
<1> QED
  BY <1>1, <1>2, PTL DEF TransportSpec, Spec

LEMMA CacheInvariance == TransportSpec => []IInv
BY TransportUsesCache, Invariance, PTL

LEMMA InitTransportInv == TransportInit => TransportInv
<1> SUFFICES ASSUME TransportInit PROVE TransportInv
  OBVIOUS
<1>1. IInv
  BY InitIInv DEF TransportInit
<1>2. NoTrip \in Trips
  BY DEF NewTrip, NoTrip, Trips, Stages, Outcomes
<1>3. minted = 0 /\ pc = [g \in Goroutines |-> "out"]
  BY DEF TransportInit, Init
<1> QED
  BY <1>1, <1>2, <1>3, MaxTripsAssumption
  DEF TransportInit, TransportInv, TransportTypeOK, IInv, NewTrip, NoTrip, StageMatchesCall,
      SentOncePerTry, OnlyNewerTokens, Dropped, Surfaced401

-----------------------------------------------------------------------------
(* What a step of the cache does to the tokens and to its callers. *)

\* Tokens are only ever added, and a new one is newer than all before it.
LEMMA MintedGrows ==
  ASSUME IInv, [Next]_vars
  PROVE  minted \in Nat /\ minted' \in Nat /\ minted <= minted'
<1>1. minted \in Nat
  BY DEF IInv, TypeOK
<1>2. minted' = minted \/ minted' = minted + 1
  BY DEF Next, Inside, Enter, Answer, Settle, Save, Environment, CallAccessToken,
         CallInvalidate, AccessTokenHit, AccessTokenMiss, Invalidate, Auth0Grants,
         Auth0Refuses, RefreshUnreachable, RefreshExpired, LoseReply, Adopt, Persist,
         PersistFails, Revoke, Age, vars, authVars
<1> QED
  BY <1>1, <1>2

\* A step inside the cache changes the program counter of its own goroutine,
\* which is in a call before it and may be out of it after.
LEMMA InsideOwnPC ==
  ASSUME IInv, NEW g \in Goroutines, Inside(g)
  PROVE  /\ pc[g] # "out" /\ pc'[g] # "invalidate"
         /\ pc[g] = "invalidate" => pc'[g] = "out"
         /\ \A h \in Goroutines \ {g} :
              pc'[h] = pc[h] /\ verdict'[h] = verdict[h] /\ got'[h] = got[h]
              /\ newToks'[h] = newToks[h]
<1>1. /\ pc \in [Goroutines -> Labels]
      /\ verdict \in [Goroutines -> Verdicts]
      /\ got \in [Goroutines -> 0..minted]
      /\ newToks \in [Goroutines -> [at : 0..minted, rt : 0..live]]
  BY DEF IInv, TypeOK
<1>2. CASE Enter(g)
  BY <1>1, <1>2 DEF Enter, AccessTokenHit, AccessTokenMiss, Invalidate, Return
<1>3. CASE Answer(g)
  BY <1>1, <1>3 DEF Answer, Auth0Grants, Auth0Refuses, RefreshUnreachable, Return, AnsweredWith
<1>4. CASE Settle(g)
  BY <1>1, <1>4 DEF Settle, RefreshExpired, LoseReply, Adopt, Return
<1>5. CASE Save(g)
  BY <1>1, <1>5 DEF Save, Persist, PersistFails, Return
<1> QED
  BY <1>2, <1>3, <1>4, <1>5 DEF Inside

\* While every token in reach is newer than `first', a step inside the cache
\* brings no other: a hit returns the cached one, a grant mints a new one.
LEMMA InsideKeepsNewer ==
  ASSUME IInv, NEW g \in Goroutines, Inside(g), UNCHANGED tripVars,
         NEW f \in Goroutines, NEW first \in Nat, first <= minted, NewerThan(f, first),
         trip[f].stage = "token" => pc[f] # "invalidate"
  PROVE  NewerThan(f, first)'
<1>1. /\ pc \in [Goroutines -> Labels]
      /\ verdict \in [Goroutines -> Verdicts]
      /\ got \in [Goroutines -> 0..minted]
      /\ newToks \in [Goroutines -> [at : 0..minted, rt : 0..live]]
      /\ minted \in Nat /\ tokens \in [at : 0..minted, rt : 1..live]
  BY DEF IInv, TypeOK
<1> USE DEF NewerThan, HasToken, Granted, tripVars
<1>2. CASE AccessTokenHit(g)
  BY <1>1, <1>2 DEF AccessTokenHit, Usable, Return
<1>3. CASE AccessTokenMiss(g)
  BY <1>1, <1>3 DEF AccessTokenMiss
<1>4. CASE Invalidate(g)
  <2>1. tokens'.at = 0
    BY <1>1, <1>4 DEF Invalidate, Cleared
  <2>2. /\ pc' = [pc EXCEPT ![g] = "out"] /\ pc[g] = "invalidate"
        /\ newToks' = newToks /\ verdict' = verdict /\ got' = got /\ trip' = trip
    BY <1>4 DEF Invalidate
  <2> QED
    BY <1>1, <2>1, <2>2
<1>5. CASE Auth0Grants(g)
  <2>1. PICK answer :
          /\ answer.at = minted + 1
          /\ pc' = [pc EXCEPT ![g] = "reply"] /\ newToks' = [newToks EXCEPT ![g] = answer]
    BY <1>5 DEF Auth0Grants, AnsweredWith
  <2>2. tokens' = tokens /\ verdict' = verdict /\ got' = got
    BY <1>5 DEF Auth0Grants
  <2> QED
    BY <1>1, <2>1, <2>2
<1>6. CASE Auth0Refuses(g)
  BY <1>1, <1>6 DEF Auth0Refuses, AnsweredWith, NoTokens
<1>7. CASE RefreshUnreachable(g)
  BY <1>1, <1>7 DEF RefreshUnreachable, Return
<1>8. CASE RefreshExpired(g)
  BY <1>1, <1>8 DEF RefreshExpired, Return
<1>9. CASE LoseReply(g)
  BY <1>1, <1>9 DEF LoseReply, Return, NoTokens
<1>10. CASE Adopt(g)
  BY <1>1, <1>10 DEF Adopt
<1>11. CASE Persist(g)
  BY <1>1, <1>11 DEF Persist, Return, NoTokens
<1>12. CASE PersistFails(g)
  BY <1>1, <1>12 DEF PersistFails, Return, NoTokens
<1> QED
  BY <1>2, <1>3, <1>4, <1>5, <1>6, <1>7, <1>8, <1>9, <1>10, <1>11, <1>12
  DEF Inside, Enter, Answer, Settle, Save

-----------------------------------------------------------------------------
(* Steps of the round trips. *)


\* What a round trip u of g has to satisfy while g is at `label' in the cache.
GoodTrip(g, u, label) ==
  /\ u \in Trips /\ u.at <= minted /\ u.first <= minted
  /\ u.stage \in {"idle", "sent"} => label = "out"
  /\ u.stage = "token" => label # "invalidate"
  /\ u.stage = "invalidating" => label \in {"invalidate", "out"}
  /\ u.stage # "idle" => u.outcome = "none"
  /\ u.stage = "token" => u.sent = IF u.retried THEN 1 ELSE 0
  /\ u.stage = "sent" => u.sent = IF u.retried THEN 2 ELSE 1
  /\ u.stage = "invalidating" => u.retried /\ u.sent = 1
  /\ u.retried => u.replayable
  /\ u.outcome = "401" =>
       IF u.replayable THEN u.retried /\ u.sent = 2 ELSE u.sent = 1
  /\ u.retried /\ (u.stage \in {"token", "sent"} \/ (u.stage = "invalidating" /\ label = "out")) =>
       /\ tokens.at = 0 \/ tokens.at > u.first
       /\ \A h \in Goroutines : pc[h] = "reply" /\ Granted(h) => newToks[h].at > u.first
       /\ label = "persist" => newToks[g].at > u.first
       /\ u.stage = "token" /\ label = "out" /\ verdict[g] = "ok" => got[g] > u.first
       /\ u.stage = "sent" => u.at > u.first

\* A round trip that holds no token, and is at most about to ask for one.
LEMMA TokenlessIsGood ==
  ASSUME NEW g \in Goroutines, NEW u \in Trips, NEW label,
         u.at <= minted, u.first <= minted, u.retried => u.replayable, u.outcome # "401",
         \/ u.stage = "idle" /\ label = "out"
         \/ u.stage = "token" /\ label = "acquire" /\ ~u.retried
            /\ u.sent = 0 /\ u.outcome = "none"
  PROVE  GoodTrip(g, u, label)
<1>1. CASE u.stage = "idle" /\ label = "out"
  BY <1>1 DEF GoodTrip
<1>2. CASE u.stage = "token" /\ label = "acquire" /\ ~u.retried /\ u.sent = 0 /\ u.outcome = "none"
  BY <1>2 DEF GoodTrip
<1> QED
  BY <1>1, <1>2

LEMMA FailedTrip ==
  ASSUME NEW t \in Trips, t.stage = "token" => t.sent \in 0..1, t.retried => t.replayable,
         NEW u, u = [[t EXCEPT !.stage = "idle", !.outcome = "failed"] EXCEPT
                       !.sent = IF t.stage = "sent" THEN @ ELSE @ + 1],
         t.stage \in {"token", "sent"}
  PROVE  /\ u \in Trips /\ u.at = t.at /\ u.first = t.first /\ u.stage = "idle"
         /\ (u.retried => u.replayable) /\ u.outcome = "failed"
<1>1. CASE t.stage = "sent"
  <2>1. u = [t EXCEPT !.stage = "idle", !.outcome = "failed"]
    BY <1>1 DEF Trips
  <2> QED
    BY <2>1 DEF Trips, Stages, Outcomes
<1>2. CASE t.stage = "token"
  <2>1. u = [t EXCEPT !.stage = "idle", !.outcome = "failed", !.sent = t.sent + 1]
    BY <1>2 DEF Trips
  <2>2. t.sent + 1 \in 0..2
    BY <1>2
  <2> QED
    BY <2>1, <2>2 DEF Trips, Stages, Outcomes
<1> QED
  BY <1>1, <1>2

LEMMA TripIsGood ==
  ASSUME TransportInv, NEW g \in Goroutines
  PROVE  GoodTrip(g, trip[g], pc[g])
BY DEF TransportInv, TransportTypeOK, StageMatchesCall, SentOncePerTry, Surfaced401,
       OnlyNewerTokens, Dropped, NewerThan, HasToken, GoodTrip

\* A step that changes one round trip into a good one, and of the cache at most
\* the call its goroutine is about to make, keeps the invariant.
LEMMA OneTripChanges ==
  ASSUME TransportInv, IInv', NEW g \in Goroutines, NEW u, NEW label,
         GoodTrip(g, u, label),
         trip' = [trip EXCEPT ![g] = u],
         pc' = [pc EXCEPT ![g] = label], label \in {pc[g], "acquire", "invalidate"},
         UNCHANGED <<minted, tokens, newToks, verdict, got, refused>>,
         trips' \in 0..MaxTrips
  PROVE  TransportInv'
<1>1. trip \in [Goroutines -> Trips] /\ pc \in [Goroutines -> Labels] /\ refused \subseteq 1..minted
  BY DEF TransportInv, TransportTypeOK, TypeOK
<1>2. TransportTypeOK'
  BY <1>1 DEF TransportTypeOK, IInv, GoodTrip
<1>3. /\ trip'[g] = u /\ pc'[g] = label
      /\ \A h \in Goroutines \ {g} : trip'[h] = trip[h] /\ pc'[h] = pc[h]
      /\ \A h \in Goroutines : pc'[h] = "reply" => pc[h] = "reply"
  BY <1>1
<1>4. StageMatchesCall' /\ SentOncePerTry' /\ Surfaced401'
  BY <1>3 DEF StageMatchesCall, SentOncePerTry, Surfaced401, TransportInv, GoodTrip
<1>5. OnlyNewerTokens'
  <2> SUFFICES ASSUME NEW h \in Goroutines, Dropped(h)' PROVE NewerThan(h, trip[h].first)'
    BY DEF OnlyNewerTokens
  <2>1. CASE h = g
    BY <1>3, <2>1 DEF Dropped, NewerThan, HasToken, Granted, GoodTrip
  <2>2. CASE h # g
    BY <1>3, <2>2 DEF Dropped, NewerThan, HasToken, Granted, TransportInv, OnlyNewerTokens
  <2> QED
    BY <2>1, <2>2
<1> QED
  BY <1>2, <1>4, <1>5 DEF TransportInv

LEMMA TripStep ==
  ASSUME TransportInv, IInv', NEW g \in Goroutines, Trip(g)
  PROVE  TransportInv'
<1>1. /\ trip \in [Goroutines -> Trips] /\ trip[g] \in Trips
      /\ trips \in 0..MaxTrips /\ refused \subseteq 1..minted
      /\ pc \in [Goroutines -> Labels] /\ verdict \in [Goroutines -> Verdicts]
      /\ got \in [Goroutines -> 0..minted] /\ minted \in Nat
      /\ tokens \in [at : 0..minted, rt : 1..live]
  BY DEF TransportInv, TransportTypeOK, TypeOK
<1>2. GoodTrip(g, trip[g], pc[g])
  BY TripIsGood
<1>3. [pc EXCEPT ![g] = pc[g]] = pc
  BY <1>1
<1>4. ASSUME NEW replayable \in BOOLEAN, Start(g, replayable) PROVE TransportInv'
  <2> DEFINE u == NewTrip("token", replayable)
  <2>1. GoodTrip(g, u, "acquire")
    <3>1. /\ u \in Trips /\ u.at = 0 /\ u.first = 0 /\ u.stage = "token" /\ ~u.retried
          /\ u.outcome = "none" /\ u.sent = 0
      BY DEF NewTrip, Trips, Stages, Outcomes
    <3> HIDE DEF u
    <3>2. u.at <= minted /\ u.first <= minted
      BY <1>1, <3>1
    <3> QED
      BY <3>1, <3>2, TokenlessIsGood
  <2>2. trip' = [trip EXCEPT ![g] = u] /\ pc' = [pc EXCEPT ![g] = "acquire"]
    BY <1>4 DEF Start, CallAccessToken
  <2>3. /\ UNCHANGED <<minted, tokens, newToks, verdict, got, refused>>
        /\ trips' \in 0..MaxTrips
    BY <1>1, <1>4, MaxTripsAssumption DEF Start, CallAccessToken, authVars
  <2> QED
    BY <2>1, <2>2, <2>3, OneTripChanges
<1>5. ASSUME NEW u, GoodTrip(g, u, pc[g]), trip' = [trip EXCEPT ![g] = u],
             UNCHANGED <<vars, trips, refused>>
      PROVE  TransportInv'
  <2>1. pc' = [pc EXCEPT ![g] = pc[g]]
    BY <1>3, <1>5 DEF vars, goVars
  <2>2. UNCHANGED <<minted, tokens, newToks, verdict, got, refused>> /\ trips' \in 0..MaxTrips
    BY <1>1, <1>5 DEF vars, goVars, authVars
  <2> QED
    BY <1>5, <2>1, <2>2, OneTripChanges
<1>6. CASE TokenError(g)
  <2>1. GoodTrip(g, Finish(g, verdict[g]), pc[g])
    BY <1>1, <1>2, <1>6 DEF TokenError, GoodTrip, Finish, Trips, Stages, Outcomes, Verdicts
  <2> QED
    BY <1>5, <1>6, <2>1 DEF TokenError
<1>7. CASE Serve(g)
  <2> DEFINE u == [trip[g] EXCEPT !.stage = "sent", !.at = got[g], !.sent = @ + 1,
                     !.status = IF got[g] \in refused THEN "401" ELSE "ok"]
  <2>1. GoodTrip(g, u, pc[g])
    BY <1>1, <1>2, <1>7 DEF Serve, HasToken, GoodTrip, Trips, Stages, Outcomes
  <2>2. trip' = [trip EXCEPT ![g] = u]
    BY <1>1, <1>7 DEF Serve
  <2> QED
    BY <1>5, <1>7, <2>1, <2>2 DEF Serve
<1>8. CASE NetworkError(g)
  <2>1. PICK u : u = [Finish(g, "failed") EXCEPT
                        !.sent = IF trip[g].stage = "sent" THEN @ ELSE @ + 1]
    OBVIOUS
  <2>2. PICK t \in Trips : t = trip[g]
    BY <1>1
  <2>3. /\ t.stage \in {"token", "sent"} /\ pc[g] = "out"
        /\ t.stage = "token" => t.sent \in 0..1
        /\ t.at <= minted /\ t.first <= minted /\ (t.retried => t.replayable)
    BY <1>1, <1>2, <1>8, <2>2 DEF NetworkError, HasToken, GoodTrip
  <2>4. u = [[t EXCEPT !.stage = "idle", !.outcome = "failed"] EXCEPT
               !.sent = IF t.stage = "sent" THEN @ ELSE @ + 1]
    BY <2>1, <2>2 DEF Finish
  <2>5. /\ u \in Trips /\ u.at = t.at /\ u.first = t.first /\ u.stage = "idle"
        /\ (u.retried => u.replayable) /\ u.outcome = "failed"
    BY <2>3, <2>4, FailedTrip
  <2>6. GoodTrip(g, u, pc[g])
    BY <2>3, <2>5, TokenlessIsGood
  <2> QED
    BY <1>5, <1>8, <2>1, <2>6 DEF NetworkError
<1>9. CASE Deliver(g)
  <2>1. GoodTrip(g, Finish(g, trip[g].status), pc[g])
    BY <1>1, <1>2, <1>9 DEF Deliver, MayRetry, GoodTrip, Finish, Trips, Stages, Outcomes
  <2> QED
    BY <1>5, <1>9, <2>1 DEF Deliver
<1>10. CASE Drop401(g)
  <2> DEFINE u == [trip[g] EXCEPT !.stage = "invalidating", !.first = trip[g].at, !.retried = TRUE]
  <2>1. GoodTrip(g, u, "invalidate")
    BY <1>1, <1>2, <1>10 DEF Drop401, MayRetry, GoodTrip, Trips, Stages, Outcomes
  <2>2. trip' = [trip EXCEPT ![g] = u] /\ pc' = [pc EXCEPT ![g] = "invalidate"]
    BY <1>1, <1>10 DEF Drop401, CallInvalidate
  <2>3. UNCHANGED <<minted, tokens, newToks, verdict, got, refused>> /\ trips' \in 0..MaxTrips
    BY <1>1, <1>10 DEF Drop401, CallInvalidate, authVars
  <2> QED
    BY <2>1, <2>2, <2>3, OneTripChanges
<1>11. CASE Retry(g)
  <2> DEFINE u == [trip[g] EXCEPT !.stage = "token"]
  <2>1. pc[g] = "out"
    BY <1>11 DEF Retry, CallAccessToken
  <2>2. GoodTrip(g, u, "acquire")
    BY <1>1, <1>2, <1>11, <2>1 DEF Retry, GoodTrip, Trips, Stages, Outcomes
  <2>3. trip' = [trip EXCEPT ![g] = u] /\ pc' = [pc EXCEPT ![g] = "acquire"]
    BY <1>1, <1>11 DEF Retry, CallAccessToken
  <2>4. UNCHANGED <<minted, tokens, newToks, verdict, got, refused>> /\ trips' \in 0..MaxTrips
    BY <1>1, <1>11 DEF Retry, CallAccessToken, authVars
  <2> QED
    BY <2>2, <2>3, <2>4, OneTripChanges
<1> QED
  BY <1>4, <1>6, <1>7, <1>8, <1>9, <1>10, <1>11 DEF Trip

-----------------------------------------------------------------------------
\* A step inside the cache: the tokens in reach of a retry stay newer, and the
\* Invalidate of g leaves none that is not.
LEMMA CacheStepKeeps ==
  ASSUME TransportInv, IInv', NEW g \in Goroutines, CacheStep(g)
  PROVE  TransportInv'
<1>1. Inside(g) /\ UNCHANGED tripVars /\ IInv
  BY DEF CacheStep, TransportInv
<1>2. minted \in Nat /\ minted' \in Nat /\ minted <= minted'
  <2>1. [Next]_vars
    BY <1>1 DEF Next
  <2> QED
    BY <1>1, <2>1, MintedGrows
<1>3. /\ pc[g] # "out" /\ pc'[g] # "invalidate"
      /\ pc[g] = "invalidate" => pc'[g] = "out"
      /\ \A h \in Goroutines \ {g} : pc'[h] = pc[h]
  BY <1>1, InsideOwnPC
<1>4. trip \in [Goroutines -> Trips] /\ trip' = trip /\ trips' = trips /\ refused' = refused
      /\ trips \in 0..MaxTrips /\ refused \subseteq 1..minted
  BY <1>1 DEF tripVars, TransportInv, TransportTypeOK
<1>5. TransportTypeOK'
  BY <1>2, <1>4 DEF TransportTypeOK, IInv
<1>6. StageMatchesCall'
  <2> SUFFICES ASSUME NEW h \in Goroutines
               PROVE  /\ trip[h].stage \in {"idle", "sent"} => pc'[h] = "out"
                      /\ trip[h].stage = "token" => pc'[h] # "invalidate"
                      /\ trip[h].stage = "invalidating" => pc'[h] \in {"invalidate", "out"}
                      /\ trip[h].at <= minted' /\ trip[h].first <= minted'
    BY <1>4 DEF StageMatchesCall
  <2>1. trip[h].at \in Nat /\ trip[h].first \in Nat
    BY <1>4 DEF Trips
  <2> QED
    BY <1>2, <1>3, <2>1 DEF TransportInv, StageMatchesCall
<1>7. SentOncePerTry' /\ Surfaced401'
  BY <1>4 DEF TransportInv, SentOncePerTry, Surfaced401
<1>8. OnlyNewerTokens'
  <2> SUFFICES ASSUME NEW h \in Goroutines, Dropped(h)' PROVE NewerThan(h, trip[h].first)'
    BY DEF OnlyNewerTokens
  <2>1. trip[h].first \in Nat /\ trip[h].first <= minted
    BY <1>4 DEF Trips, TransportInv, StageMatchesCall
  <2>2. CASE Dropped(h)
    <3> DEFINE first == trip[h].first
    <3>1. NewerThan(h, first)
      BY <2>2 DEF TransportInv, OnlyNewerTokens
    <3>2. first' = first
      BY <1>4
    <3> HIDE DEF first
    <3>3. first \in Nat /\ first <= minted
      BY <2>1 DEF first
    <3>4. trip[h].stage = "token" => pc[h] # "invalidate"
      BY DEF TransportInv, StageMatchesCall
    <3> QED
      BY <1>1, <3>1, <3>2, <3>3, <3>4, InsideKeepsNewer DEF first
  <2>3. CASE ~Dropped(h)
    <3>1. h = g /\ pc[g] = "invalidate" /\ pc'[g] = "out" /\ trip[g].stage = "invalidating"
      BY <1>3, <1>4, <2>3 DEF Dropped, TransportInv, StageMatchesCall
    <3>2. Invalidate(g)
      BY <1>1, <3>1 DEF Inside, Enter, Answer, Settle, Save, AccessTokenHit, AccessTokenMiss,
         Auth0Grants, Auth0Refuses, RefreshUnreachable, RefreshExpired, LoseReply, Adopt,
         Persist, PersistFails
    <3>3. \A x \in Goroutines : pc[x] # "reply"
      BY <1>1, <3>2, NobodyAssumption DEF Invalidate, IInv, SingleRefresh, InFlight
    <3>4. tokens'.at = 0
      BY <1>1, <3>2 DEF Invalidate, Cleared, IInv, TypeOK
    <3> QED
      BY <1>3, <1>4, <3>1, <3>3, <3>4 DEF NewerThan, HasToken
  <2> QED
    BY <2>2, <2>3
<1> QED
  BY <1>5, <1>6, <1>7, <1>8 DEF TransportInv

LEMMA WorldStep ==
  ASSUME TransportInv, IInv',
         \/ Environment /\ UNCHANGED tripVars
         \/ \E at \in (1..minted) \ refused : Refuse(at)
         \/ UNCHANGED allVars
  PROVE  TransportInv'
<1>1. /\ UNCHANGED <<trip, trips, pc, tokens, newToks, verdict, got, minted>>
      /\ refused' \subseteq 1..minted
  BY DEF Environment, Revoke, Age, Refuse, allVars, tripVars, vars, goVars, authVars,
         TransportInv, TransportTypeOK
<1> QED
  BY <1>1 DEF TransportInv, TransportTypeOK, IInv, StageMatchesCall, SentOncePerTry,
              OnlyNewerTokens, Dropped, NewerThan, HasToken, Granted, Surfaced401

LEMMA TransportInvariance == TransportSpec => []TransportInv
<1>1. IInv /\ IInv' /\ TransportInv /\ [TransportNext]_allVars => TransportInv'
  BY TripStep, CacheStepKeeps, WorldStep DEF TransportNext
<1> QED
  BY <1>1, InitTransportInv, CacheInvariance, PTL DEF TransportSpec

\* The state has its type; no request is ever sent a third time.
THEOREM TransportTypeCorrect == TransportSpec => []TransportTypeOK
BY TransportInvariance, PTL DEF TransportInv

\* A retry carries a token minted after the one that was refused.
THEOREM RetryHasNewToken == TransportSpec => []RetryIsFresh
<1>1. TransportInv => RetryIsFresh
  BY DEF TransportInv, OnlyNewerTokens, Dropped, NewerThan, RetryIsFresh
<1> QED
  BY <1>1, TransportInvariance, PTL

\* A 401 is surfaced after exactly one retry, or for a body that cannot be sent again.
THEOREM RetryHappensOnce == TransportSpec => []Surfaced401
BY TransportInvariance, PTL DEF TransportInv
=============================================================================
