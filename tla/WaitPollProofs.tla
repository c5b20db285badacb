--------------------------- MODULE WaitPollProofs ---------------------------
(***************************************************************************)
(* Proofs about WaitPoll, for any options, any timeout and any timer.  The  *)
(* clock at each stage of the loop is bounded by the clock at the stage     *)
(* before it, so the three bounds fall out of one inductive invariant.      *)
(***************************************************************************)
EXTENDS WaitPoll, TLAPS

\* Whatever the caller passes, the loop works with positive numbers.
LEMMA EffectiveOptions ==
  ASSUME opts \in Options
  PROVE  /\ Initial \in Nat \ {0} /\ Max \in Nat \ {0}
         /\ Mult \in Nat \ {0} /\ Deadline \in Nat \ {0}
  <1>1. opts \in WaitOpts
    BY OptionsAssumption
  <1>2. /\ opts.initial \in Int /\ opts.max \in Int
        /\ opts.total \in Int /\ opts.mult \in Int
    BY <1>1 DEF WaitOpts
  <1>3. QED
    BY <1>2, OptionsAssumption DEF Initial, Max, Mult, Deadline, Given

\* A backoff never shrinks below the shortest nor grows past the longest.
LEMMA BumpStaysInRange ==
  ASSUME NEW i \in Nat \ {0}, NEW m \in Nat \ {0}, NEW k \in Nat \ {0},
         NEW d \in Nat \ {0}, d >= i \/ d >= m
  PROVE  LET b == IF d * k > m THEN m ELSE d * k IN
         /\ b \in Nat \ {0}
         /\ b <= m
         /\ b >= i \/ b >= m
  <1>1. d * k \in Nat /\ d * k >= d
    <2>1. PICK j \in Nat : k = j + 1
      <3>1. k - 1 \in Nat /\ k = (k - 1) + 1
        OBVIOUS
      <3>2. QED
        BY <3>1
    <2>2. d * k = d * j + d
      BY <2>1
    <2>3. d * j \in Nat
      BY <2>1
    <2>4. QED
      BY <2>2, <2>3
  <1>2. QED
    BY <1>1

LEMMA InitEstablishes == Init => IInv
  <1>1. SUFFICES ASSUME Init PROVE IInv
    OBVIOUS
  <1>2. opts \in Options
    BY <1>1 DEF Init
  <1>3. /\ Initial \in Nat \ {0} /\ Max \in Nat \ {0} /\ Deadline \in Nat \ {0}
        /\ MaxPoll \in Nat \ {0} /\ Late \in Nat
    BY <1>2, EffectiveOptions, TimeAssumption
  <1>4. TypeOK
    BY <1>1, <1>3 DEF Init, TypeOK, Stages, Outcomes
  <1>5. QED
    BY <1>1, <1>3, <1>4
    DEF Init, IInv, DelayInRange, SawItRunning, FinishedInPast, AskingClock,
        SleepingClock, CheckClock, TimeoutIsHonest, OvershootIsBounded,
        EndIsNoticed, Finished, Longest, Shortest

\* One step per action; the clock bounds of the next stage come from those of
\* the stage the action leaves.
LEMMA StepPreserves == IInv /\ [Next]_vars => IInv'
  <1>1. SUFFICES ASSUME IInv, [Next]_vars PROVE IInv'
    OBVIOUS
  <1>2. TypeOK /\ opts \in Options
    BY <1>1 DEF IInv, TypeOK
  <1>3. /\ Initial \in Nat \ {0} /\ Max \in Nat \ {0}
        /\ Mult \in Nat \ {0} /\ Deadline \in Nat \ {0}
    BY <1>2, EffectiveOptions
  <1>4. opts' = opts
    BY <1>1 DEF Next, Loop, Ask, ReturnCancelled, PollFailed, ReturnTerminal,
                ReturnTimeout, Sleep, WakeUp, WakeCancelled, Serve, FinishJob,
                Cancel, Tick, vars
  <1>5. /\ Initial' = Initial /\ Max' = Max /\ Mult' = Mult
        /\ Deadline' = Deadline /\ Longest' = Longest /\ Shortest' = Shortest
    BY <1>4 DEF Initial, Max, Mult, Deadline, Longest, Shortest
  <1>6. /\ Longest \in Nat \ {0} /\ Shortest \in Nat \ {0}
        /\ MaxPoll \in Nat \ {0} /\ Late \in Nat
    BY <1>3, TimeAssumption DEF Longest, Shortest
  <1> USE <1>1, <1>2, <1>4, <1>5, <1>6
      DEF IInv, TypeOK, DelayInRange, SawItRunning, FinishedInPast, AskingClock,
          SleepingClock, CheckClock, TimeoutIsHonest, OvershootIsBounded,
          EndIsNoticed, Finished, Stages, Outcomes
  <1>7. CASE Ask
    BY <1>3, <1>7 DEF Ask
  <1>8. CASE ReturnCancelled
    BY <1>3, <1>8 DEF ReturnCancelled, Return
  <1>9. CASE PollFailed
    BY <1>3, <1>9 DEF PollFailed, Return
  <1>10. CASE ReturnTerminal
    BY <1>3, <1>10 DEF ReturnTerminal, Return, Answered
  <1>11. CASE ReturnTimeout
    BY <1>3, <1>11 DEF ReturnTimeout, Return, Answered, OutOfTime
  <1>12. CASE Sleep
    BY <1>3, <1>12 DEF Sleep, Answered, OutOfTime
  <1>13. CASE WakeUp
    <2>1. Bump(delay) \in Nat \ {0} /\ Shortest <= Bump(delay) /\ Bump(delay) <= Longest
      BY <1>3, BumpStaysInRange DEF Bump, Shortest, Longest
    <2>2. delay' = Bump(delay) /\ pc = "sleeping" /\ pc' = "check" /\ now >= wake
      BY <1>13 DEF WakeUp
    <2>3. QED
      BY <1>3, <1>13, <2>1, <2>2 DEF WakeUp
  <1>14. CASE WakeCancelled
    BY <1>3, <1>14 DEF WakeCancelled, Return
  <1>15. CASE Serve
    BY <1>3, <1>15 DEF Serve
  <1>16. CASE FinishJob
    BY <1>3, <1>16 DEF FinishJob
  <1>17. CASE Cancel
    BY <1>3, <1>17 DEF Cancel
  <1>18. CASE Tick
    BY <1>3, <1>18 DEF Tick
  <1>19. CASE UNCHANGED vars
    BY <1>3, <1>19 DEF vars
  <1>20. QED
    BY <1>7, <1>8, <1>9, <1>10, <1>11, <1>12, <1>13, <1>14, <1>15, <1>16,
       <1>17, <1>18, <1>19 DEF Next, Loop

LEMMA Invariance == Spec => []IInv
  BY InitEstablishes, StepPreserves, PTL DEF Spec

\* The state has its type throughout: the backoff in particular stays positive.
THEOREM TypeCorrect == Spec => []TypeOK
  BY Invariance, PTL DEF IInv

\* A timeout is reported only of a job that was running one exchange before
\* the deadline.
THEOREM HonestTimeout == Spec => []TimeoutIsHonest
  BY Invariance, PTL DEF IInv

\* The wait is over one backoff and one exchange after the deadline.
THEOREM BoundedOvershoot == Spec => []OvershootIsBounded
  BY Invariance, PTL DEF IInv

\* The end of the job is noticed within a backoff and two exchanges.
THEOREM PromptReturn == Spec => []EndIsNoticed
  BY Invariance, PTL DEF IInv

\* Polls are spaced by at least the shortest backoff.
THEOREM NeverHammers == Spec => PollsAreSpaced
  <1>1. IInv /\ [Next]_vars =>
          [askedAt' # askedAt /\ askedAt >= 0 => askedAt' >= askedAt + Shortest]_vars
    BY DEF IInv, CheckClock, Next, Loop, Ask, ReturnCancelled, PollFailed,
           ReturnTerminal, ReturnTimeout, Sleep, WakeUp, WakeCancelled, Serve,
           FinishJob, Cancel, Tick, vars
  <1>2. QED
    BY <1>1, Invariance, PTL DEF Spec, PollsAreSpaced
=============================================================================
