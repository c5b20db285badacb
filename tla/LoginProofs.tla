---------------------------- MODULE LoginProofs -----------------------------
(***************************************************************************)
(* Proofs about Login, for any intervals, lifetimes and timeouts.  What is  *)
(* known of the clock at a stage follows from what was known at the stage   *)
(* before it and from how long time may pass there, so the bounds and the   *)
(* fate of the session fall out of one inductive invariant.                 *)
(***************************************************************************)
EXTENDS Login, TLAPS

USE ExchangeAssumption, DeviceAssumption, LoopbackAssumption

LEMMA InitEstablishes == Init => IInv
  <1>1. SUFFICES ASSUME Init PROVE IInv
    OBVIOUS
  <1>2. TypeOK /\ StageOfFlow
    BY <1>1 DEF Init, TypeOK, Stages, Outcomes, Answers, TokenSets, StageOfFlow
  <1>3. PastIsPast /\ IntervalIsAsTold /\ CodeWaits
    BY <1>1 DEF Init, PastIsPast, IntervalIsAsTold, CodeWaits
  <1>4. TokensOnTheirWay /\ SessionIsHandedOver
    BY <1>1 DEF Init, TokensOnTheirWay, SessionIsHandedOver, TokenSets
  <1>5. ~Cancelled /\ ~Exchanging
    BY <1>1 DEF Init, Cancelled, Exchanging
  <1>6. DeviceClock /\ LoopbackClock /\ ConsentClock /\ ExpiryIsTrue
    BY <1>1, <1>5 DEF Init, DeviceClock, LoopbackClock, ConsentClock, ExpiryIsTrue
  <1>7. EndsInTime /\ CancelIsNoticed
    BY <1>1, <1>5 DEF Init, EndsInTime, CancelIsNoticed
  <1>8. QED
    BY <1>2, <1>3, <1>4, <1>6, <1>7 DEF IInv

-----------------------------------------------------------------------------
(* The stages                                                                *)

Typed == TypeOK /\ StageOfFlow /\ PastIsPast

\* What Auth0 may send with a device code makes a positive interval.
LEMMA DeviceCodeSays ==
  ASSUME DeviceCode
  PROVE  /\ interval' \in Nat /\ told' = interval'
         /\ now \in Nat => deadline' \in Nat /\ deadline' >= now
  <1>1. PICK i \in Intervals : interval' = Requested(i) /\ told' = Requested(i)
    BY DEF DeviceCode
  <1>2. PICK e \in Lifetimes : deadline' = now + e
    BY DEF DeviceCode
  <1>3. Requested(i) \in Nat
    BY DEF Requested
  <1>4. QED
    BY <1>1, <1>2, <1>3

\* Auth0 answers a poll.
LEMMA ServePollTyped ==
  ASSUME TypeOK, ServePoll
  PROVE  /\ granted' \in TokenSets \cup {"nothing"} /\ answer' \in Answers
         /\ told' \in Nat /\ told' >= told
         /\ slowedAt' \in Nat \cup {-1} /\ slowedAt' \in {slowedAt, now}
  <1>1. CASE TokensIfApproved
    BY <1>1 DEF TokensIfApproved, Auth0Grants, TypeOK, TokenSets, Answers
  <1>2. CASE SlowDown
    BY <1>2 DEF SlowDown, TypeOK, Answers
  <1>3. CASE NotYet
    BY <1>3 DEF NotYet, TypeOK, Answers
  <1>4. QED
    BY <1>1, <1>2, <1>3 DEF ServePoll

\* How a flow returns.
LEMMA ReturnTyped ==
  /\ \A toks : checkRefreshTokenIssued(toks) \in Outcomes
  /\ ReturnRefused => outcome' \in Outcomes
  /\ TypeOK /\ (SelectError \/ SelectCancelled \/ SelectTimeout \/ Exchanged \/ ExchangeFails) =>
       outcome' \in Outcomes /\ due' \in Nat /\ due' = now + ShutdownTime
  <1>1. \A toks : checkRefreshTokenIssued(toks) \in Outcomes
    BY DEF checkRefreshTokenIssued, Outcomes
  <1>2. TypeOK /\ errCh # "empty" => errCh \in Outcomes
    BY DEF TypeOK, Outcomes
  <1>3. "timeout" \in Outcomes /\ "cancelled" \in Outcomes /\ "failed" \in Outcomes
    BY DEF Outcomes
  <1>4. ReturnRefused => outcome' \in Outcomes
    BY DEF ReturnRefused, Return, Outcomes
  <1>5. TypeOK => now + ShutdownTime \in Nat
    BY DEF TypeOK
  <1>6. QED
    BY <1>1, <1>2, <1>3, <1>4, <1>5
    DEF SelectError, SelectCancelled, SelectTimeout, Exchanged, ExchangeFails, ReturnLater

LEMMA DeviceStepsTyped ==
  ASSUME Typed, Device
  PROVE  Typed' /\ flow = "device" /\ flow' = "device"
  <1>0. UNCHANGED loopback
    BY DEF Device
  <1>1. CASE DeviceCode
    BY <1>0, <1>1, DeviceCodeSays
    DEF DeviceCode, Typed, TypeOK, Stages, StageOfFlow, PastIsPast, device,
        loopback, Exchanging
  <1>2. CASE DeviceCodeFails
    BY <1>0, <1>2
    DEF DeviceCodeFails, Return, Outcomes, Typed, TypeOK, Stages, StageOfFlow,
        PastIsPast, device, loopback, Exchanging
  <1>3. CASE ReturnCancelled
    BY <1>0, <1>3
    DEF ReturnCancelled, Return, Outcomes, Typed, TypeOK, Stages, StageOfFlow,
        PastIsPast, device, loopback, Exchanging
  <1>4. CASE ReturnExpired
    BY <1>0, <1>4
    DEF ReturnExpired, Return, Outcomes, Typed, TypeOK, Stages, StageOfFlow,
        PastIsPast, device, loopback, Exchanging
  <1>5. CASE Poll
    BY <1>0, <1>5
    DEF Poll, Ask, Answers, Typed, TypeOK, Stages, StageOfFlow, PastIsPast,
        device, loopback, Exchanging
  <1>6. CASE PollFails
    BY <1>0, <1>6
    DEF PollFails, Return, Outcomes, Typed, TypeOK, Stages, StageOfFlow,
        PastIsPast, device, loopback, Exchanging
  <1>7. CASE ReturnTokens
    BY <1>0, <1>7, ReturnTyped
    DEF ReturnTokens, Return, Typed, TypeOK, Stages, StageOfFlow, PastIsPast,
        device, loopback, Exchanging
  <1>8. CASE ReturnRefused
    BY <1>0, <1>8, ReturnTyped
    DEF ReturnRefused, Return, Typed, TypeOK, Stages, StageOfFlow, PastIsPast,
        device, loopback, Exchanging
  <1>9. CASE Sleep
    <2>1. interval' \in Nat /\ due' \in Nat
      BY <1>9 DEF Sleep, NextInterval, Typed, TypeOK
    <2>2. QED
      BY <1>0, <1>9, <2>1
      DEF Sleep, Typed, TypeOK, Stages, StageOfFlow, PastIsPast, device, loopback
  <1>10. CASE WakeUp
    BY <1>0, <1>10
    DEF WakeUp, Typed, TypeOK, Stages, StageOfFlow, PastIsPast, device,
        loopback, Exchanging
  <1>11. CASE Decide
    <2>1. denied' \in BOOLEAN
      BY <1>11 DEF Decide, Typed, TypeOK
    <2>2. QED
      BY <1>0, <1>11, <2>1
      DEF Decide, CodeShown, Typed, TypeOK, Stages, StageOfFlow, PastIsPast, device, loopback
  <1>12. CASE ServePoll
    BY <1>0, <1>12, ServePollTyped
    DEF ServePoll, Typed, TypeOK, Stages, StageOfFlow, PastIsPast, device,
        loopback, Exchanging
  <1>13. QED
    BY <1>1, <1>2, <1>3, <1>4, <1>5, <1>6, <1>7, <1>8, <1>9, <1>10, <1>11, <1>12
    DEF Device, LoginDevice

LEMMA LoopbackStepsTyped ==
  ASSUME Typed, Loopback
  PROVE  Typed' /\ flow = "pkce" /\ flow' = "pkce"
  <1>0. UNCHANGED device
    BY DEF Loopback
  <1>1. CASE ListenFails
    BY <1>0, <1>1
    DEF ListenFails, Outcomes, Typed, TypeOK, Stages, StageOfFlow, PastIsPast,
        device, loopback, Exchanging
  <1>2. CASE Listen
    BY <1>0, <1>2
    DEF Listen, Typed, TypeOK, Stages, StageOfFlow, PastIsPast, device,
        loopback, Exchanging
  <1>3. CASE BrowserOpened
    BY <1>0, <1>3
    DEF BrowserOpened, Typed, TypeOK, Stages, StageOfFlow, PastIsPast, device,
        loopback, Exchanging
  <1>4. CASE SelectCode
    BY <1>0, <1>4
    DEF SelectCode, Ask, Answers, Typed, TypeOK, Stages, StageOfFlow,
        PastIsPast, device, loopback, Exchanging
  <1>5. CASE SelectError
    BY <1>0, <1>5, ReturnTyped
    DEF SelectError, ReturnLater, Typed, TypeOK, Stages, StageOfFlow,
        PastIsPast, device, loopback, Exchanging
  <1>6. CASE SelectCancelled
    BY <1>0, <1>6, ReturnTyped
    DEF SelectCancelled, ReturnLater, Typed, TypeOK, Stages, StageOfFlow,
        PastIsPast, device, loopback, Exchanging
  <1>7. CASE SelectTimeout
    BY <1>0, <1>7, ReturnTyped
    DEF SelectTimeout, ReturnLater, Typed, TypeOK, Stages, StageOfFlow,
        PastIsPast, device, loopback, Exchanging
  <1>8. CASE Exchanged
    BY <1>0, <1>8, ReturnTyped
    DEF Exchanged, ReturnLater, Typed, TypeOK, Stages, StageOfFlow,
        PastIsPast, device, loopback, Exchanging
  <1>9. CASE ExchangeFails
    BY <1>0, <1>9, ReturnTyped
    DEF ExchangeFails, ReturnLater, Typed, TypeOK, Stages, StageOfFlow,
        PastIsPast, device, loopback, Exchanging
  <1>10. CASE Shutdown
    BY <1>0, <1>10
    DEF Shutdown, Typed, TypeOK, Stages, StageOfFlow, PastIsPast, device,
        loopback, Exchanging
  <1>11. CASE CallbackWithCode
    BY <1>0, <1>11
    DEF CallbackWithCode, Serving, Post, Typed, TypeOK, Stages, StageOfFlow,
        PastIsPast, device, loopback, Exchanging
  <1>12. CASE CallbackWithError
    BY <1>0, <1>12
    DEF CallbackWithError, Serving, Post, Typed, TypeOK, Stages, StageOfFlow,
        PastIsPast, device, loopback, Exchanging
  <1>13. CASE ServeExchange
    <2>1. granted' \in TokenSets \cup {"nothing"} /\ answer' \in Answers
      BY <1>13 DEF ServeExchange, Auth0Grants, Answers, TokenSets
    <2>2. QED
      BY <1>0, <1>13, <2>1
      DEF ServeExchange, Typed, TypeOK, Stages, StageOfFlow, PastIsPast, device, loopback
  <1>14. QED
    BY <1>1, <1>2, <1>3, <1>4, <1>5, <1>6, <1>7, <1>8, <1>9, <1>10, <1>11, <1>12, <1>13
    DEF Loopback, LoginPKCE

LEMMA ClockStepsTyped ==
  ASSUME Typed, Tick \/ Cancel
  PROVE  Typed' /\ flow' = flow
  <1>1. CASE Tick
    BY <1>1
    DEF Tick, Typed, TypeOK, Stages, StageOfFlow, PastIsPast, device,
        loopback, Exchanging, Cancelled
  <1>2. CASE Cancel
    BY <1>2
    DEF Cancel, Typed, TypeOK, Stages, StageOfFlow, PastIsPast, device,
        loopback, Exchanging, Cancelled
  <1>3. QED
    BY <1>1, <1>2

-----------------------------------------------------------------------------
(* The session                                                               *)

Handed == TokensOnTheirWay /\ SessionIsHandedOver

\* The device flow's steps.
LEMMA DeviceStepsHandOver ==
  ASSUME Typed, Handed, Device
  PROVE  Handed'
  <1>0. granted \in {"access", "refresh", "nothing"} /\ errCh \in {"empty", "refused", "mismatch"}
    BY DEF Typed, TypeOK, TokenSets
  <1>1. CASE DeviceCode
    BY <1>0, <1>1
    DEF DeviceCode, Handed, TokensOnTheirWay, SessionIsHandedOver, Typed,
        StageOfFlow
  <1>2. CASE DeviceCodeFails
    BY <1>0, <1>2
    DEF DeviceCodeFails, Return, Handed, TokensOnTheirWay,
        SessionIsHandedOver, Typed, StageOfFlow
  <1>3. CASE ReturnCancelled
    BY <1>0, <1>3
    DEF ReturnCancelled, Return, Handed, TokensOnTheirWay,
        SessionIsHandedOver, Typed, StageOfFlow
  <1>4. CASE ReturnExpired
    BY <1>0, <1>4
    DEF ReturnExpired, Return, Expired, Handed, TokensOnTheirWay,
        SessionIsHandedOver, Typed, StageOfFlow
  <1>5. CASE Poll
    BY <1>0, <1>5
    DEF Poll, Ask, Expired, Handed, TokensOnTheirWay, SessionIsHandedOver,
        Typed, StageOfFlow
  <1>6. CASE PollFails
    BY <1>0, <1>6
    DEF PollFails, Return, Exchanging, Handed, TokensOnTheirWay,
        SessionIsHandedOver, Typed, StageOfFlow
  <1>7. CASE ReturnTokens
    BY <1>0, <1>7
    DEF ReturnTokens, Return, checkRefreshTokenIssued, TokenSets, Handed,
        TokensOnTheirWay, SessionIsHandedOver, Typed, StageOfFlow
  <1>8. CASE ReturnRefused
    BY <1>0, <1>8
    DEF ReturnRefused, Return, TokenSets, Handed, TokensOnTheirWay,
        SessionIsHandedOver, Typed, StageOfFlow
  <1>9. CASE Sleep
    BY <1>0, <1>9
    DEF Sleep, NextInterval, TokenSets, Handed, TokensOnTheirWay,
        SessionIsHandedOver, Typed, StageOfFlow
  <1>10. CASE WakeUp
    BY <1>0, <1>10
    DEF WakeUp, Handed, TokensOnTheirWay, SessionIsHandedOver, Typed,
        StageOfFlow
  <1>11. CASE Decide
    BY <1>0, <1>11
    DEF Decide, CodeShown, Handed, TokensOnTheirWay, SessionIsHandedOver,
        Typed, StageOfFlow
  <1>12. CASE ServePoll
    BY <1>0, <1>12
    DEF ServePoll, TokensIfApproved, SlowDown, NotYet, Auth0Grants, TokenSets,
        CodeMayBeOver, Handed, TokensOnTheirWay, SessionIsHandedOver, Typed,
        StageOfFlow
  <1>13. QED
    BY <1>1, <1>2, <1>3, <1>4, <1>5, <1>6, <1>7, <1>8, <1>9, <1>10, <1>11,
       <1>12
    DEF Device, LoginDevice

\* The browser flow's.
LEMMA LoopbackStepsHandOver ==
  ASSUME Typed, Handed, Loopback
  PROVE  Handed'
  <1>0. granted \in {"access", "refresh", "nothing"} /\ errCh \in {"empty", "refused", "mismatch"}
    BY DEF Typed, TypeOK, TokenSets
  <1>1. CASE ListenFails
    BY <1>0, <1>1
    DEF ListenFails, Outcomes, Handed, TokensOnTheirWay, SessionIsHandedOver,
        Typed, StageOfFlow
  <1>2. CASE Listen
    BY <1>0, <1>2
    DEF Listen, Handed, TokensOnTheirWay, SessionIsHandedOver, Typed,
        StageOfFlow
  <1>3. CASE BrowserOpened
    BY <1>0, <1>3
    DEF BrowserOpened, Handed, TokensOnTheirWay, SessionIsHandedOver, Typed,
        StageOfFlow
  <1>4. CASE SelectCode
    BY <1>0, <1>4
    DEF SelectCode, Ask, Handed, TokensOnTheirWay, SessionIsHandedOver, Typed,
        StageOfFlow
  <1>5. CASE SelectError
    BY <1>0, <1>5
    DEF SelectError, ReturnLater, Handed, TokensOnTheirWay,
        SessionIsHandedOver, Typed, StageOfFlow
  <1>6. CASE SelectCancelled
    BY <1>0, <1>6
    DEF SelectCancelled, ReturnLater, Handed, TokensOnTheirWay,
        SessionIsHandedOver, Typed, StageOfFlow
  <1>7. CASE SelectTimeout
    BY <1>0, <1>7
    DEF SelectTimeout, ReturnLater, Handed, TokensOnTheirWay,
        SessionIsHandedOver, Typed, StageOfFlow
  <1>8. CASE Exchanged
    BY <1>0, <1>8
    DEF Exchanged, ReturnLater, checkRefreshTokenIssued, TokenSets, Handed,
        TokensOnTheirWay, SessionIsHandedOver, Typed, StageOfFlow
  <1>9. CASE ExchangeFails
    BY <1>0, <1>9
    DEF ExchangeFails, ReturnLater, Exchanging, Handed, TokensOnTheirWay,
        SessionIsHandedOver, Typed, StageOfFlow
  <1>10. CASE Shutdown
    BY <1>0, <1>10
    DEF Shutdown, Handed, TokensOnTheirWay, SessionIsHandedOver, Typed,
        StageOfFlow
  <1>11. CASE CallbackWithCode
    BY <1>0, <1>11
    DEF CallbackWithCode, Serving, Post, Handed, TokensOnTheirWay,
        SessionIsHandedOver, Typed, StageOfFlow
  <1>12. CASE CallbackWithError
    BY <1>0, <1>12
    DEF CallbackWithError, Serving, Post, Handed, TokensOnTheirWay,
        SessionIsHandedOver, Typed, StageOfFlow
  <1>13. CASE ServeExchange
    BY <1>0, <1>13
    DEF ServeExchange, Auth0Grants, TokenSets, Handed, TokensOnTheirWay,
        SessionIsHandedOver, Typed, StageOfFlow
  <1>14. QED
    BY <1>1, <1>2, <1>3, <1>4, <1>5, <1>6, <1>7, <1>8, <1>9, <1>10, <1>11,
       <1>12, <1>13
    DEF Loopback, LoginPKCE

\* Time and the signal leave the session alone.
LEMMA ClockStepsHandOver ==
  ASSUME Handed, Tick \/ Cancel
  PROVE  Handed'
  <1>1. /\ flow' = flow /\ pc' = pc /\ outcome' = outcome /\ offline' = offline
        /\ granted' = granted /\ answer' = answer
    BY DEF Tick, Cancel
  <1>2. QED
    BY <1>1 DEF Handed, TokensOnTheirWay, SessionIsHandedOver

-----------------------------------------------------------------------------
(* The device flow's clock                                                   *)

Timed == IntervalIsAsTold /\ DeviceClock

\* The device flow's steps take no time.
LEMMA DeviceStepsTimed ==
  ASSUME Typed, Timed, Device
  PROVE  Timed'
  <1>0. flow = "device" /\ flow' = "device"
    BY DeviceStepsTyped
  <1>1. CASE DeviceCode
    BY <1>0, <1>1, DeviceCodeSays
    DEF DeviceCode, Timed, IntervalIsAsTold, DeviceClock, Typed, TypeOK,
        StageOfFlow, PastIsPast, Exchanging, Cancelled, device
  <1>2. CASE DeviceCodeFails
    BY <1>0, <1>2
    DEF DeviceCodeFails, Return, Timed, IntervalIsAsTold, DeviceClock, Typed,
        TypeOK, StageOfFlow, PastIsPast, Exchanging, Cancelled, device
  <1>3. CASE ReturnCancelled
    BY <1>0, <1>3
    DEF ReturnCancelled, Return, Timed, IntervalIsAsTold, DeviceClock, Typed,
        TypeOK, StageOfFlow, PastIsPast, Exchanging, Cancelled, device
  <1>4. CASE ReturnExpired
    BY <1>0, <1>4
    DEF ReturnExpired, Return, Expired, Timed, IntervalIsAsTold, DeviceClock,
        Typed, TypeOK, StageOfFlow, PastIsPast, Exchanging, Cancelled, device
  <1>5. CASE Poll
    BY <1>0, <1>5
    DEF Poll, Ask, Expired, Timed, IntervalIsAsTold, DeviceClock, Typed,
        TypeOK, StageOfFlow, PastIsPast, Exchanging, Cancelled, device
  <1>6. CASE PollFails
    BY <1>0, <1>6
    DEF PollFails, Return, Timed, IntervalIsAsTold, DeviceClock, Typed,
        TypeOK, StageOfFlow, PastIsPast, Exchanging, Cancelled, device
  <1>7. CASE ReturnTokens
    BY <1>0, <1>7
    DEF ReturnTokens, Return, checkRefreshTokenIssued, TokenSets, Timed,
        IntervalIsAsTold, DeviceClock, Typed, TypeOK, StageOfFlow, PastIsPast,
        Exchanging, Cancelled, device
  <1>8. CASE ReturnRefused
    BY <1>0, <1>8
    DEF ReturnRefused, Return, TokenSets, Timed, IntervalIsAsTold,
        DeviceClock, Typed, TypeOK, StageOfFlow, PastIsPast, Exchanging,
        Cancelled, device
  <1>9. CASE Sleep
    BY <1>0, <1>9
    DEF Sleep, NextInterval, TokenSets, Timed, IntervalIsAsTold, DeviceClock,
        Typed, TypeOK, StageOfFlow, PastIsPast, Exchanging, Cancelled, device
  <1>10. CASE WakeUp
    BY <1>0, <1>10
    DEF WakeUp, Timed, IntervalIsAsTold, DeviceClock, Typed, TypeOK,
        StageOfFlow, PastIsPast, Exchanging, Cancelled, device
  <1>11. CASE Decide
    BY <1>0, <1>11
    DEF Decide, CodeShown, Timed, IntervalIsAsTold, DeviceClock, Typed,
        TypeOK, StageOfFlow, PastIsPast, Exchanging, Cancelled, device
  <1>12. CASE ServePoll
    BY <1>0, <1>12, ServePollTyped
    DEF ServePoll, TokensIfApproved, SlowDown, NotYet, Auth0Grants, TokenSets,
        CodeMayBeOver, Timed, IntervalIsAsTold, DeviceClock, Typed, TypeOK,
        StageOfFlow, PastIsPast, Exchanging, Cancelled, device
  <1>13. QED
    BY <1>1, <1>2, <1>3, <1>4, <1>5, <1>6, <1>7, <1>8, <1>9, <1>10, <1>11,
       <1>12
    DEF Device, LoginDevice

\* Time passes where the flow waits, and a signal comes at some moment.
LEMMA ClockStepsTimed ==
  ASSUME Typed, Timed, Tick \/ Cancel
  PROVE  Timed'
  <1>1. CASE Tick
    BY <1>1
    DEF Tick, Waiting, Exchanging, Timed, IntervalIsAsTold, DeviceClock,
        Typed, TypeOK, StageOfFlow, PastIsPast, Exchanging, Cancelled, device
  <1>2. CASE Cancel
    BY <1>2
    DEF Cancel, Timed, IntervalIsAsTold, DeviceClock, Typed, TypeOK,
        StageOfFlow, PastIsPast, Exchanging, Cancelled, device
  <1>3. QED
    BY <1>1, <1>2

\* The browser flow has no device code.
LEMMA LoopbackStepsTimed ==
  ASSUME Typed, Loopback
  PROVE  Timed'
  <1>1. Typed' /\ flow' = "pkce"
    BY LoopbackStepsTyped
  <1>2. QED
    BY <1>1 DEF Timed, IntervalIsAsTold, DeviceClock, Typed, StageOfFlow

-----------------------------------------------------------------------------
(* The user's consent, and the end of the code's life                        *)

Consented == ConsentClock /\ ExpiryIsTrue

\* The device flow's steps.
LEMMA DeviceStepsConsented ==
  ASSUME Typed, Timed, Consented, Device
  PROVE  Consented'
  <1>0. flow = "device" /\ flow' = "device"
    BY DeviceStepsTyped
  <1>1. CASE DeviceCode
    BY <1>0, <1>1, DeviceCodeSays
    DEF DeviceCode, Consented, ConsentClock, ExpiryIsTrue, Timed,
        IntervalIsAsTold, DeviceClock, Typed, TypeOK, StageOfFlow, PastIsPast,
        Exchanging, Cancelled, device
  <1>2. CASE DeviceCodeFails
    BY <1>0, <1>2
    DEF DeviceCodeFails, Return, Consented, ConsentClock, ExpiryIsTrue, Timed,
        IntervalIsAsTold, DeviceClock, Typed, TypeOK, StageOfFlow, PastIsPast,
        Exchanging, Cancelled, device
  <1>3. CASE ReturnCancelled
    BY <1>0, <1>3
    DEF ReturnCancelled, Return, Consented, ConsentClock, ExpiryIsTrue, Timed,
        IntervalIsAsTold, DeviceClock, Typed, TypeOK, StageOfFlow, PastIsPast,
        Exchanging, Cancelled, device
  <1>4. CASE ReturnExpired
    BY <1>0, <1>4
    DEF ReturnExpired, Return, Expired, Consented, ConsentClock, ExpiryIsTrue,
        Timed, IntervalIsAsTold, DeviceClock, Typed, TypeOK, StageOfFlow,
        PastIsPast, Exchanging, Cancelled, device
  <1>5. CASE Poll
    BY <1>0, <1>5
    DEF Poll, Ask, Expired, Consented, ConsentClock, ExpiryIsTrue, Timed,
        IntervalIsAsTold, DeviceClock, Typed, TypeOK, StageOfFlow, PastIsPast,
        Exchanging, Cancelled, device
  <1>6. CASE PollFails
    BY <1>0, <1>6
    DEF PollFails, Return, Consented, ConsentClock, ExpiryIsTrue, Timed,
        IntervalIsAsTold, DeviceClock, Typed, TypeOK, StageOfFlow, PastIsPast,
        Exchanging, Cancelled, device
  <1>7. CASE ReturnTokens
    BY <1>0, <1>7
    DEF ReturnTokens, Return, checkRefreshTokenIssued, TokenSets, Consented,
        ConsentClock, ExpiryIsTrue, Timed, IntervalIsAsTold, DeviceClock,
        Typed, TypeOK, StageOfFlow, PastIsPast, Exchanging, Cancelled, device
  <1>8. CASE ReturnRefused
    BY <1>0, <1>8
    DEF ReturnRefused, Return, TokenSets, Consented, ConsentClock,
        ExpiryIsTrue, Timed, IntervalIsAsTold, DeviceClock, Typed, TypeOK,
        StageOfFlow, PastIsPast, Exchanging, Cancelled, device
  <1>9. CASE Sleep
    BY <1>0, <1>9
    DEF Sleep, NextInterval, TokenSets, Consented, ConsentClock, ExpiryIsTrue,
        Timed, IntervalIsAsTold, DeviceClock, Typed, TypeOK, StageOfFlow,
        PastIsPast, Exchanging, Cancelled, device
  <1>10. CASE WakeUp
    BY <1>0, <1>10
    DEF WakeUp, Consented, ConsentClock, ExpiryIsTrue, Timed,
        IntervalIsAsTold, DeviceClock, Typed, TypeOK, StageOfFlow, PastIsPast,
        Exchanging, Cancelled, device
  <1>11. CASE Decide
    BY <1>0, <1>11
    DEF Decide, CodeShown, Consented, ConsentClock, ExpiryIsTrue, Timed,
        IntervalIsAsTold, DeviceClock, Typed, TypeOK, StageOfFlow, PastIsPast,
        Exchanging, Cancelled, device
  <1>12. CASE ServePoll
    BY <1>0, <1>12, ServePollTyped
    DEF ServePoll, TokensIfApproved, SlowDown, NotYet, Auth0Grants, TokenSets,
        CodeMayBeOver, Consented, ConsentClock, ExpiryIsTrue, Timed,
        IntervalIsAsTold, DeviceClock, Typed, TypeOK, StageOfFlow, PastIsPast,
        Exchanging, Cancelled, device
  <1>13. QED
    BY <1>1, <1>2, <1>3, <1>4, <1>5, <1>6, <1>7, <1>8, <1>9, <1>10, <1>11,
       <1>12
    DEF Device, LoginDevice

\* Time passes where the flow waits.
LEMMA ClockStepsConsented ==
  ASSUME Typed, Timed, Consented, Tick \/ Cancel
  PROVE  Consented'
  <1>1. CASE Tick
    BY <1>1
    DEF Tick, Waiting, Exchanging, Consented, ConsentClock, ExpiryIsTrue,
        Timed, IntervalIsAsTold, DeviceClock, Typed, TypeOK, StageOfFlow,
        PastIsPast, Exchanging, Cancelled, device
  <1>2. CASE Cancel
    BY <1>2
    DEF Cancel, Consented, ConsentClock, ExpiryIsTrue, Timed,
        IntervalIsAsTold, DeviceClock, Typed, TypeOK, StageOfFlow, PastIsPast,
        Exchanging, Cancelled, device
  <1>3. QED
    BY <1>1, <1>2

\* The browser flow's consent is the callback.
LEMMA LoopbackStepsConsented ==
  ASSUME Typed, Loopback
  PROVE  Consented'
  <1>1. flow' = "pkce"
    BY LoopbackStepsTyped
  <1>2. QED
    BY <1>1 DEF Consented, ConsentClock, ExpiryIsTrue

-----------------------------------------------------------------------------
(* The browser flow's clock                                                  *)

Returning == LoopbackClock /\ CodeWaits

\* The browser flow's steps take no time.
LEMMA LoopbackStepsReturn ==
  ASSUME Typed, Returning, Loopback
  PROVE  Returning'
  <1>0. flow = "pkce" /\ flow' = "pkce"
    BY LoopbackStepsTyped
  <1>1. CASE ListenFails
    BY <1>0, <1>1
    DEF ListenFails, Outcomes, Returning, LoopbackClock, CodeWaits, Typed,
        TypeOK, StageOfFlow, PastIsPast, Exchanging, Cancelled, loopback
  <1>2. CASE Listen
    BY <1>0, <1>2
    DEF Listen, Returning, LoopbackClock, CodeWaits, Typed, TypeOK,
        StageOfFlow, PastIsPast, Exchanging, Cancelled, loopback
  <1>3. CASE BrowserOpened
    BY <1>0, <1>3
    DEF BrowserOpened, Returning, LoopbackClock, CodeWaits, Typed, TypeOK,
        StageOfFlow, PastIsPast, Exchanging, Cancelled, loopback
  <1>4. CASE SelectCode
    BY <1>0, <1>4
    DEF SelectCode, Ask, Returning, LoopbackClock, CodeWaits, Typed, TypeOK,
        StageOfFlow, PastIsPast, Exchanging, Cancelled, loopback
  <1>5. CASE SelectError
    BY <1>0, <1>5
    DEF SelectError, ReturnLater, Returning, LoopbackClock, CodeWaits, Typed,
        TypeOK, StageOfFlow, PastIsPast, Exchanging, Cancelled, loopback
  <1>6. CASE SelectCancelled
    BY <1>0, <1>6
    DEF SelectCancelled, ReturnLater, Returning, LoopbackClock, CodeWaits,
        Typed, TypeOK, StageOfFlow, PastIsPast, Exchanging, Cancelled,
        loopback
  <1>7. CASE SelectTimeout
    BY <1>0, <1>7
    DEF SelectTimeout, ReturnLater, Returning, LoopbackClock, CodeWaits,
        Typed, TypeOK, StageOfFlow, PastIsPast, Exchanging, Cancelled,
        loopback
  <1>8. CASE Exchanged
    BY <1>0, <1>8
    DEF Exchanged, ReturnLater, Returning, LoopbackClock, CodeWaits, Typed,
        TypeOK, StageOfFlow, PastIsPast, Exchanging, Cancelled, loopback
  <1>9. CASE ExchangeFails
    BY <1>0, <1>9
    DEF ExchangeFails, ReturnLater, Returning, LoopbackClock, CodeWaits,
        Typed, TypeOK, StageOfFlow, PastIsPast, Exchanging, Cancelled,
        loopback
  <1>10. CASE Shutdown
    BY <1>0, <1>10
    DEF Shutdown, Returning, LoopbackClock, CodeWaits, Typed, TypeOK,
        StageOfFlow, PastIsPast, Exchanging, Cancelled, loopback
  <1>11. CASE CallbackWithCode
    BY <1>0, <1>11
    DEF CallbackWithCode, Serving, Post, Returning, LoopbackClock, CodeWaits,
        Typed, TypeOK, StageOfFlow, PastIsPast, Exchanging, Cancelled,
        loopback
  <1>12. CASE CallbackWithError
    BY <1>0, <1>12
    DEF CallbackWithError, Serving, Post, Returning, LoopbackClock, CodeWaits,
        Typed, TypeOK, StageOfFlow, PastIsPast, Exchanging, Cancelled,
        loopback
  <1>13. CASE ServeExchange
    BY <1>0, <1>13
    DEF ServeExchange, Auth0Grants, TokenSets, Returning, LoopbackClock,
        CodeWaits, Typed, TypeOK, StageOfFlow, PastIsPast, Exchanging,
        Cancelled, loopback
  <1>14. QED
    BY <1>1, <1>2, <1>3, <1>4, <1>5, <1>6, <1>7, <1>8, <1>9, <1>10, <1>11,
       <1>12, <1>13
    DEF Loopback, LoginPKCE

\* Time passes where the flow waits.
LEMMA ClockStepsReturn ==
  ASSUME Typed, Returning, Tick \/ Cancel
  PROVE  Returning'
  <1>1. CASE Tick
    BY <1>1
    DEF Tick, Waiting, Exchanging, Returning, LoopbackClock, CodeWaits, Typed,
        TypeOK, StageOfFlow, PastIsPast, Exchanging, Cancelled, loopback
  <1>2. CASE Cancel
    BY <1>2
    DEF Cancel, Returning, LoopbackClock, CodeWaits, Typed, TypeOK,
        StageOfFlow, PastIsPast, Exchanging, Cancelled, loopback
  <1>3. QED
    BY <1>1, <1>2

\* The device flow has no server.
LEMMA DeviceStepsReturn ==
  ASSUME Typed, Device
  PROVE  Returning'
  <1>1. flow' = "device"
    BY DeviceStepsTyped
  <1>2. QED
    BY <1>1 DEF Returning, LoopbackClock, CodeWaits

-----------------------------------------------------------------------------
(* The bounds                                                                *)

Bounded == EndsInTime /\ CancelIsNoticed

\* The device flow's steps neither move the clock nor shorten what is left of it.
LEMMA DeviceStepsAreInstant ==
  ASSUME Typed, Timed, Device
  PROVE  /\ now' = now /\ cancelledAt' = cancelledAt
         /\ told' \in Nat /\ told' >= told /\ deadline' \in Nat
         /\ pc # "request" => deadline' = deadline /\ pc' # "request"
  <1>1. CASE DeviceCode
    BY <1>1, DeviceCodeSays
    DEF DeviceCode, Timed, IntervalIsAsTold, Typed, TypeOK, device
  <1>2. CASE DeviceCodeFails
    BY <1>2
    DEF DeviceCodeFails, Return, Typed, TypeOK, device
  <1>3. CASE ReturnCancelled
    BY <1>3
    DEF ReturnCancelled, Return, Typed, TypeOK, device
  <1>4. CASE ReturnExpired
    BY <1>4
    DEF ReturnExpired, Return, Typed, TypeOK, device
  <1>5. CASE Poll
    BY <1>5
    DEF Poll, Ask, Typed, TypeOK, device
  <1>6. CASE PollFails
    BY <1>6
    DEF PollFails, Return, Typed, TypeOK, device
  <1>7. CASE ReturnTokens
    BY <1>7
    DEF ReturnTokens, Return, Typed, TypeOK, device
  <1>8. CASE ReturnRefused
    BY <1>8
    DEF ReturnRefused, Return, TokenSets, Typed, TypeOK, device
  <1>9. CASE Sleep
    BY <1>9
    DEF Sleep, NextInterval, TokenSets, Typed, TypeOK, device
  <1>10. CASE WakeUp
    BY <1>10
    DEF WakeUp, Typed, TypeOK, device
  <1>11. CASE Decide
    BY <1>11
    DEF Decide, Typed, TypeOK, device
  <1>12. CASE ServePoll
    BY <1>12, ServePollTyped
    DEF ServePoll, Typed, TypeOK, device
  <1>13. QED
    BY <1>1, <1>2, <1>3, <1>4, <1>5, <1>6, <1>7, <1>8, <1>9, <1>10, <1>11,
       <1>12
    DEF Device, LoginDevice

\* Nor do the browser flow's.
LEMMA LoopbackStepsAreInstant ==
  ASSUME Loopback
  PROVE  now' = now /\ cancelledAt' = cancelledAt
  <1>1. CASE ListenFails
    BY <1>1
    DEF ListenFails, Outcomes
  <1>2. CASE Listen
    BY <1>2
    DEF Listen
  <1>3. CASE BrowserOpened
    BY <1>3
    DEF BrowserOpened
  <1>4. CASE SelectCode
    BY <1>4
    DEF SelectCode, Ask
  <1>5. CASE SelectError
    BY <1>5
    DEF SelectError, ReturnLater
  <1>6. CASE SelectCancelled
    BY <1>6
    DEF SelectCancelled, ReturnLater
  <1>7. CASE SelectTimeout
    BY <1>7
    DEF SelectTimeout, ReturnLater
  <1>8. CASE Exchanged
    BY <1>8
    DEF Exchanged, ReturnLater
  <1>9. CASE ExchangeFails
    BY <1>9
    DEF ExchangeFails, ReturnLater
  <1>10. CASE Shutdown
    BY <1>10
    DEF Shutdown
  <1>11. CASE CallbackWithCode
    BY <1>11
    DEF CallbackWithCode
  <1>12. CASE CallbackWithError
    BY <1>12
    DEF CallbackWithError
  <1>13. CASE ServeExchange
    BY <1>13
    DEF ServeExchange, Auth0Grants, TokenSets
  <1>14. QED
    BY <1>1, <1>2, <1>3, <1>4, <1>5, <1>6, <1>7, <1>8, <1>9, <1>10, <1>11,
       <1>12, <1>13
    DEF Loopback, LoginPKCE

\* The bounds hold after every step: only time could break them.
LEMMA StepsBounded ==
  ASSUME Typed, Timed, Returning, Bounded, Next
  PROVE  Bounded'
  <1>1. CASE Device
    <2>1. flow = "device" /\ flow' = "device"
      BY <1>1, DeviceStepsTyped
    <2>2. QED
      BY <1>1, <2>1, DeviceStepsAreInstant
      DEF Bounded, EndsInTime, CancelIsNoticed, Cancelled, Typed, TypeOK
  <1>2. CASE Loopback
    <2>1. flow = "pkce" /\ flow' = "pkce"
      BY <1>2, LoopbackStepsTyped
    <2>2. QED
      BY <1>2, <2>1, LoopbackStepsAreInstant
      DEF Bounded, EndsInTime, CancelIsNoticed, Cancelled
  <1>3. CASE Cancel
    BY <1>3 DEF Cancel, device, Bounded, EndsInTime, CancelIsNoticed, Cancelled, Typed, TypeOK
  <1>4. CASE Tick
    <2>1. CASE flow = "device"
      BY <1>4, <2>1
      DEF Tick, Waiting, Exchanging, device, Timed, DeviceClock, Typed, TypeOK, StageOfFlow,
          Bounded, EndsInTime, CancelIsNoticed, Cancelled
    <2>2. CASE flow = "pkce"
      BY <1>4, <2>2
      DEF Tick, Waiting, Exchanging, Returning, LoopbackClock, Typed, TypeOK, StageOfFlow,
          Bounded, EndsInTime, CancelIsNoticed, Cancelled
    <2>3. QED
      BY <2>1, <2>2 DEF Typed, TypeOK
  <1>5. QED
    BY <1>1, <1>2, <1>3, <1>4 DEF Next

-----------------------------------------------------------------------------
(* The invariant                                                             *)

Inv == Typed /\ Handed /\ Timed /\ Consented /\ Returning /\ Bounded

LEMMA InvIsIInv == Inv <=> IInv
  BY DEF Inv, IInv, Typed, Handed, Timed, Consented, Returning, Bounded

LEMMA StepPreserves ==
  ASSUME Inv, [Next]_vars
  PROVE  Inv'
  <1>1. CASE Device
    <2>1. Typed' /\ Handed' /\ Timed' /\ Consented' /\ Returning'
      BY <1>1, DeviceStepsTyped, DeviceStepsHandOver, DeviceStepsTimed,
         DeviceStepsConsented, DeviceStepsReturn DEF Inv
    <2>2. QED
      BY <1>1, <2>1, StepsBounded DEF Inv, Next
  <1>2. CASE Loopback
    <2>1. Typed' /\ Handed' /\ Timed' /\ Consented' /\ Returning'
      BY <1>2, LoopbackStepsTyped, LoopbackStepsHandOver, LoopbackStepsTimed,
         LoopbackStepsConsented, LoopbackStepsReturn DEF Inv
    <2>2. QED
      BY <1>2, <2>1, StepsBounded DEF Inv, Next
  <1>3. CASE Tick \/ Cancel
    <2>1. Typed' /\ Handed' /\ Timed' /\ Consented' /\ Returning'
      BY <1>3, ClockStepsTyped, ClockStepsHandOver, ClockStepsTimed,
         ClockStepsConsented, ClockStepsReturn DEF Inv
    <2>2. QED
      BY <1>3, <2>1, StepsBounded DEF Inv, Next
  <1>4. CASE UNCHANGED vars
    <2>1. Typed'
      BY <1>4 DEF vars, device, loopback, Inv, Typed, TypeOK, StageOfFlow, PastIsPast
    <2>2. Handed'
      BY <1>4 DEF vars, device, loopback, Inv, Handed, TokensOnTheirWay, SessionIsHandedOver
    <2>3. Timed'
      BY <1>4 DEF vars, device, loopback, Inv, Timed, IntervalIsAsTold, DeviceClock,
         Exchanging, Cancelled
    <2>4. Consented'
      BY <1>4 DEF vars, device, loopback, Inv, Consented, ConsentClock, ExpiryIsTrue
    <2>5. Returning'
      BY <1>4 DEF vars, device, loopback, Inv, Returning, LoopbackClock, CodeWaits,
         Exchanging, Cancelled
    <2>6. Bounded'
      BY <1>4 DEF vars, device, loopback, Inv, Bounded, EndsInTime, CancelIsNoticed, Cancelled
    <2>7. QED
      BY <2>1, <2>2, <2>3, <2>4, <2>5, <2>6 DEF Inv
  <1>5. QED
    BY <1>1, <1>2, <1>3, <1>4 DEF Next

LEMMA Invariant == Spec => []Inv
  <1>1. Init => Inv
    BY InitEstablishes, InvIsIInv
  <1>2. Inv /\ [Next]_vars => Inv'
    BY StepPreserves
  <1>3. QED
    BY <1>1, <1>2, PTL DEF Spec

-----------------------------------------------------------------------------
(* The theorems                                                              *)

\* The clock, the channels and the session keep their types in both flows.
THEOREM TypeCorrect == Spec => []TypeOK
  <1>1. Inv => TypeOK
    BY DEF Inv, Typed
  <1>2. QED
    BY <1>1, Invariant, PTL

\* A login ends in time, whatever Auth0, the browser and the user do: the code's
\* life, or the timeout, and what may pass after it.
THEOREM LoginEndsInTime == Spec => []EndsInTime
  <1>1. Inv => EndsInTime
    BY DEF Inv, Bounded
  <1>2. QED
    BY <1>1, Invariant, PTL

\* A signal ends a login within one sleep, or one launch and one shutdown.
THEOREM LoginCancelIsNoticed == Spec => []CancelIsNoticed
  <1>1. Inv => CancelIsNoticed
    BY DEF Inv, Bounded
  <1>2. QED
    BY <1>1, Invariant, PTL

\* A session Auth0 has opened is handed to the login, or its answer was lost.
THEOREM LoginHandsOverSession == Spec => []SessionIsHandedOver
  <1>1. Inv => SessionIsHandedOver
    BY DEF Inv, Handed
  <1>2. QED
    BY <1>1, Invariant, PTL

\* Two polls of the token endpoint are an interval apart, and every slow_down
\* lengthens it.
THEOREM LoginHonoursInterval == Spec => PollsHonourInterval
  <1>1. Inv /\ [Next]_vars =>
          [flow = "device" /\ askedAt' # askedAt /\ askedAt >= 0 => askedAt' >= askedAt + told]_vars
    <2>1. SUFFICES ASSUME Inv, Next, flow = "device", askedAt' # askedAt, askedAt >= 0
                   PROVE  askedAt' >= askedAt + told
      BY DEF vars
    <2>2. Device
      BY <2>1, LoopbackStepsTyped DEF Inv, Next, Tick, Cancel
    <2>3. Poll
      BY <2>1, <2>2
      DEF Device, LoginDevice, DeviceCode, DeviceCodeFails, ReturnCancelled, ReturnExpired,
          PollFails, ReturnTokens, ReturnRefused, Sleep, WakeUp, Decide, ServePoll
    <2>4. QED
      BY <2>1, <2>3 DEF Poll, Ask, Inv, Timed, IntervalIsAsTold
  <1>2. QED
    BY <1>1, Invariant, PTL DEF PollsHonourInterval, Spec

\* A callback that came in time is not answered with a timeout.
THEOREM LoginCountsCallback == Spec => CallbackInTimeCounts
  <1>1. Inv /\ [Next]_vars =>
          [outcome = "none" /\ outcome' = "timeout" /\ consentAt >= 0 => consentAt >= due]_vars
    <2>0. SUFFICES ASSUME Inv, Next, outcome = "none", outcome' = "timeout", consentAt >= 0
                   PROVE  consentAt >= due
      BY DEF vars
    <2>1. SelectTimeout
      BY <2>0
      DEF Next, Device, LoginDevice, DeviceCode, DeviceCodeFails, ReturnCancelled,
          ReturnExpired, Poll, Ask, PollFails, ReturnTokens, ReturnRefused, Return,
          checkRefreshTokenIssued, Sleep, WakeUp, Decide, ServePoll, Loopback, LoginPKCE,
          ListenFails, Listen, BrowserOpened, SelectCode, SelectError, SelectCancelled,
          Exchanged, ExchangeFails, ReturnLater, Shutdown, CallbackWithCode,
          CallbackWithError, ServeExchange, Tick, Cancel, Inv, Typed, TypeOK
    <2>2. flow = "pkce" /\ now \in Nat /\ due \in Nat /\ consentAt \in Int
      BY <2>0, <2>1 DEF SelectTimeout, Inv, Typed, TypeOK, StageOfFlow
    <2>3. QED
      BY <2>0, <2>1, <2>2 DEF SelectTimeout, Inv, Returning, CodeWaits
  <1>2. QED
    BY <1>1, Invariant, PTL DEF CallbackInTimeCounts, Spec

\* An approval that came in time is not answered with an expiry.
THEOREM LoginCountsApproval == Spec => ApprovalInTimeCounts
  <1>1. Inv /\ [Next]_vars =>
          [outcome = "none" /\ outcome' = "expired" /\ consentAt > slowedAt =>
             consentAt + told + Late + 3 * MaxExchange >= deadline]_vars
    <2>0. SUFFICES ASSUME Inv, Next, outcome = "none", outcome' = "expired", consentAt > slowedAt
                   PROVE  consentAt + told + Late + 3 * MaxExchange >= deadline
      BY DEF vars
    <2>1. ReturnExpired \/ (ReturnRefused /\ answer = "expired")
      <3>1. errCh \in {"empty", "refused", "mismatch"}
        BY <2>0 DEF Inv, Typed, TypeOK
      <3>2. CASE Device
        <4>1. ~ReturnTokens
          BY <2>0 DEF ReturnTokens, Return, checkRefreshTokenIssued
        <4>2. ReturnRefused => answer = "expired"
          BY <2>0 DEF ReturnRefused, Return
        <4>3. ~DeviceCode /\ ~Poll /\ ~Sleep /\ ~WakeUp /\ ~Decide /\ ~ServePoll
          BY <2>0 DEF DeviceCode, Poll, Sleep, WakeUp, Decide, ServePoll
        <4>4. ~DeviceCodeFails /\ ~ReturnCancelled /\ ~PollFails
          BY <2>0 DEF DeviceCodeFails, ReturnCancelled, PollFails, Return
        <4>5. QED
          BY <3>2, <4>1, <4>2, <4>3, <4>4 DEF Device, LoginDevice
      <3>3. ~Loopback
        BY <2>0, <3>1
        DEF Loopback, LoginPKCE, ListenFails, Listen, BrowserOpened, SelectCode, Ask,
            SelectError, SelectCancelled, SelectTimeout, Exchanged, ExchangeFails,
            ReturnLater, checkRefreshTokenIssued, Shutdown, CallbackWithCode,
            CallbackWithError, ServeExchange
      <3>4. QED
        BY <2>0, <3>2, <3>3 DEF Next, Tick, Cancel
    <2>2. flow = "device"
      BY <2>0, <2>1 DEF ReturnExpired, ReturnRefused, Inv, Typed, TypeOK, StageOfFlow
    <2>3. /\ now \in Nat /\ told \in Nat /\ deadline \in Nat /\ consentAt \in Int
          /\ Late \in Nat /\ MaxExchange \in Nat
      BY <2>0 DEF Inv, Typed, TypeOK
    <2>4. CASE ReturnExpired
      BY <2>0, <2>2, <2>3, <2>4 DEF ReturnExpired, Expired, Inv, Consented, ConsentClock
    <2>5. CASE ReturnRefused /\ answer = "expired"
      BY <2>0, <2>2, <2>3, <2>5 DEF ReturnRefused, Inv, Consented, ConsentClock
    <2>6. QED
      BY <2>1, <2>4, <2>5
  <1>2. QED
    BY <1>1, Invariant, PTL DEF ApprovalInTimeCounts, Spec
=============================================================================
