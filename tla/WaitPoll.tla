------------------------------ MODULE WaitPoll ------------------------------
(***************************************************************************)
(* output.PollUntilTerminal: the loop behind every --wait.  It polls a      *)
(* remote job with exponential backoff until the job is in a terminal       *)
(* state, the Total deadline has passed, a poll fails or the context is     *)
(* cancelled.  The clock is an integer; the loop's own computations take no *)
(* time, a poll takes at most MaxPoll and a timer fires at most Late late.  *)
(* Timer, HTTP exchange and job are the loop's environment.                 *)
(***************************************************************************)
EXTENDS Integers

CONSTANTS
  Options,   \* the WaitOpts a caller may pass
  Defaults,  \* what stands in for a field that is zero or negative
  MaxPoll,   \* the timeout of the HTTP client behind the poll function
  Late       \* how late a timer may fire

WaitOpts == [initial : Int, max : Int, total : Int, mult : Int]

ASSUME OptionsAssumption ==
  /\ Options \subseteq WaitOpts
  /\ Defaults \in [initial : Nat \ {0}, max : Nat \ {0},
                   total : Nat \ {0}, mult : Nat \ {0}]

ASSUME TimeAssumption == MaxPoll \in Nat \ {0} /\ Late \in Nat

VARIABLES
  opts,       \* the caller's options
  pc,         \* where the loop is
  now,        \* the clock; the wait starts at 0
  delay,      \* the next backoff
  wake,       \* when the running timer is set to fire
  askedAt,    \* when the last poll began, -1 before the first
  reply,      \* what the server read for the poll in flight
  finishedAt, \* when the job reached a terminal state, -1 before
  cancelled,  \* ctx is done
  outcome

vars == <<opts, pc, now, delay, wake, askedAt, reply, finishedAt, cancelled,
          outcome>>

Finished == finishedAt >= 0

\* Bug: a zero multiplier is taken as it is.
GivenAsIs(value, default) == IF value < 0 THEN default ELSE value

Given(value, default) == IF value <= 0 THEN default ELSE value

Initial  == Given(opts.initial, Defaults.initial)
Max      == Given(opts.max, Defaults.max)
Mult     == Given(opts.mult, Defaults.mult)
Deadline == Given(opts.total, Defaults.total)

Stages   == {"check", "asking", "answering", "sleeping", "done"}
Outcomes == {"none", "terminal", "timeout", "failed", "cancelled"}

TypeOK ==
  /\ opts \in Options
  /\ pc \in Stages
  /\ now \in Nat /\ delay \in Nat \ {0} /\ wake \in Nat
  /\ askedAt \in Nat \cup {-1} /\ finishedAt \in Nat \cup {-1}
  /\ reply \in {"none", "running", "terminal"}
  /\ cancelled \in BOOLEAN
  /\ outcome \in Outcomes

Init ==
  /\ opts \in Options
  /\ pc = "check" /\ outcome = "none"
  /\ now = 0 /\ wake = 0
  /\ delay = Initial
  /\ askedAt = -1 /\ reply = "none"
  /\ finishedAt = -1
  /\ cancelled = FALSE

-----------------------------------------------------------------------------
(* The loop *)

Return(result) == pc' = "done" /\ outcome' = result

Ask ==
  /\ pc = "check" /\ ~cancelled
  /\ pc' = "asking" /\ askedAt' = now
  /\ UNCHANGED <<opts, now, delay, wake, reply, finishedAt, cancelled, outcome>>

ReturnCancelled ==
  /\ pc = "check" /\ cancelled
  /\ Return("cancelled")
  /\ UNCHANGED <<opts, now, delay, wake, askedAt, reply, finishedAt, cancelled>>

\* Any error of the poll function ends the wait, a cancelled request too.
PollFailed ==
  /\ pc \in {"asking", "answering"}
  /\ Return("failed")
  /\ UNCHANGED <<opts, now, delay, wake, askedAt, reply, finishedAt, cancelled>>

Answered == pc = "answering" /\ ~cancelled

ReturnTerminal ==
  /\ Answered /\ reply = "terminal"
  /\ Return("terminal")
  /\ UNCHANGED <<opts, now, delay, wake, askedAt, reply, finishedAt, cancelled>>

\* Bug: the time left after the coming sleep is what is checked.
WouldRunOut == now + delay > Deadline

OutOfTime == now >= Deadline

ReturnTimeout ==
  /\ Answered /\ reply = "running" /\ OutOfTime
  /\ Return("timeout")
  /\ UNCHANGED <<opts, now, delay, wake, askedAt, reply, finishedAt, cancelled>>

Sleep ==
  /\ Answered /\ reply = "running" /\ ~OutOfTime
  /\ pc' = "sleeping" /\ wake' = now + delay
  /\ UNCHANGED <<opts, now, delay, askedAt, reply, finishedAt, cancelled, outcome>>

\* Bug: the backoff is not capped.
BumpUncapped(d) == d * Mult

Bump(d) == IF d * Mult > Max THEN Max ELSE d * Mult

\* The timer may win the select though ctx is done; the loop's head then sees it.
WakeUp ==
  /\ pc = "sleeping" /\ now >= wake
  /\ pc' = "check" /\ delay' = Bump(delay)
  /\ UNCHANGED <<opts, now, wake, askedAt, reply, finishedAt, cancelled, outcome>>

\* Bug: nothing looks at ctx while the loop sleeps.
SleepOn == FALSE /\ UNCHANGED vars

WakeCancelled ==
  /\ pc = "sleeping" /\ cancelled
  /\ Return("cancelled")
  /\ UNCHANGED <<opts, now, delay, wake, askedAt, reply, finishedAt, cancelled>>

Loop == \/ Ask \/ ReturnCancelled \/ PollFailed \/ ReturnTerminal
        \/ ReturnTimeout \/ Sleep \/ WakeUp \/ WakeCancelled

-----------------------------------------------------------------------------
(* Its environment *)

\* The server reads the state of the job some time after the poll began.
Serve ==
  /\ pc = "asking"
  /\ pc' = "answering" /\ reply' = IF Finished THEN "terminal" ELSE "running"
  /\ UNCHANGED <<opts, now, delay, wake, askedAt, finishedAt, cancelled, outcome>>

FinishJob ==
  /\ pc # "done" /\ ~Finished
  /\ finishedAt' = now
  /\ UNCHANGED <<opts, pc, now, delay, wake, askedAt, reply, cancelled, outcome>>

Cancel ==
  /\ pc # "done" /\ ~cancelled
  /\ cancelled' = TRUE
  /\ UNCHANGED <<opts, pc, now, delay, wake, askedAt, reply, finishedAt, outcome>>

\* Time passes while the loop waits for an exchange or a timer; a done
\* context ends both at once.
Tick ==
  /\ ~cancelled
  /\ \/ pc \in {"asking", "answering"} /\ now < askedAt + MaxPoll
     \/ pc = "sleeping" /\ now < wake + Late
  /\ now' = now + 1
  /\ UNCHANGED <<opts, pc, delay, wake, askedAt, reply, finishedAt, cancelled, outcome>>

Next == Loop \/ Serve \/ FinishJob \/ Cancel \/ Tick

\* The loop runs, timers fire, the client gives up on a request in time.
Fairness == WF_vars(Loop) /\ WF_vars(Tick)

Spec     == Init /\ [][Next]_vars
FairSpec == Spec /\ Fairness

-----------------------------------------------------------------------------
(* Properties *)

Longest  == IF Initial > Max THEN Initial ELSE Max
Shortest == IF Initial > Max THEN Max ELSE Initial

\* "ErrWaitTimeout on deadline" is said only of a job the loop saw running at
\* the end: the deadline has passed, and the job was not in a terminal state
\* until at most one exchange before it.  A job that ends in the last backoff
\* before the deadline is still reported as terminal.
TimeoutIsHonest ==
  outcome = "timeout" =>
    now >= Deadline /\ (Finished => finishedAt >= Deadline - MaxPoll)

\* The wait outlives the deadline by at most one backoff and one exchange.
OvershootIsBounded == now <= Deadline + Longest + Late + MaxPoll

\* The loop does not sleep through the end of the job: it returns within one
\* backoff, the exchange that just missed the end and the one that sees it.
EndIsNoticed == Finished => now <= finishedAt + MaxPoll + Longest + Late + MaxPoll

\* "so we don't hammer the server": two polls are never closer than the
\* shortest backoff, whatever the options.
PollsAreSpaced ==
  [][askedAt' # askedAt /\ askedAt >= 0 => askedAt' >= askedAt + Shortest]_vars

\* The loop returns: on the job's end, the deadline, an error or the context.
WaitEnds == <>(pc = "done")

-----------------------------------------------------------------------------
(* What the induction needs to know of the clock at each stage *)

DelayInRange == Shortest <= delay /\ delay <= Longest

\* The last answer that said "running" was true when the poll began.
SawItRunning ==
  Finished /\ (pc = "sleeping" \/ pc = "check" \/ (pc = "answering" /\ reply = "running"))
    => finishedAt >= askedAt

AskingClock ==
  pc \in {"asking", "answering"} =>
    /\ askedAt >= 0 /\ askedAt <= now /\ now <= askedAt + MaxPoll
    /\ askedAt <= Deadline + Longest + Late
    /\ Finished => askedAt <= finishedAt + MaxPoll + Longest + Late

SleepingClock ==
  pc = "sleeping" =>
    /\ askedAt >= 0 /\ now <= wake + Late
    /\ askedAt + delay <= wake /\ wake <= askedAt + MaxPoll + delay
    /\ wake <= Deadline + delay

CheckClock ==
  pc = "check" =>
    /\ now <= Deadline + Longest + Late
    /\ askedAt >= 0 => askedAt + Shortest <= now
    /\ Finished => now <= finishedAt + MaxPoll + Longest + Late

FinishedInPast == finishedAt <= now /\ askedAt <= now

IInv ==
  /\ TypeOK /\ DelayInRange /\ SawItRunning /\ FinishedInPast
  /\ AskingClock /\ SleepingClock /\ CheckClock
  /\ TimeoutIsHonest /\ OvershootIsBounded /\ EndIsNoticed
=============================================================================
