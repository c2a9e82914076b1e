------------------------------- MODULE Poller -------------------------------
(***************************************************************************)
(* The convergence poller of the ltc command factory:                      *)
(* AppRunnerCommandFactory.pollUntilSuccess (app_runner_command_factory,   *)
(* src/unnamed/part_000 lines 435-449).                                    *)
(*                                                                         *)
(*   startingTime := clock.Now()                                           *)
(*   for startingTime.Add(timeout).After(clock.Now()) {                    *)
(*       if pollingFunc() { NewLine(); return true }                       *)
(*       else if outputProgress { Say(".") }                               *)
(*       clock.Sleep(1 * time.Second)                                      *)
(*   }                                                                     *)
(*   NewLine(); return false                                               *)
(*                                                                         *)
(* Time is counted in ticks: one poll interval (the 1 second slept) is     *)
(* Interval ticks and the factory's timeout is Timeout ticks, so a timeout *)
(* that is not a whole number of seconds can be expressed.  The predicate  *)
(* is arbitrary: each call returns TRUE or FALSE.  With the fake clock of  *)
(* the tests no time passes except in Sleep; with the real clock a         *)
(* predicate call (an HTTP round trip to the cluster) takes time and Sleep *)
(* may oversleep: both are bounded by MaxDelay ticks.                      *)
(* Progress dots and new lines are output only and are left out.  The     *)
(* code does not bound the calls; MaxCalls does, for TLC, and a run sets   *)
(* it above ceil(timeout / interval), which CallBudget shows is never      *)
(* reached, so the bound cuts only behaviours of a broken loop.            *)
(***************************************************************************)
EXTENDS Naturals

CONSTANTS
  Timeout,   \* factory.timeout, in ticks
  Interval,  \* the 1-second poll interval, in ticks
  MaxDelay,  \* bound on the time a call takes and on oversleeping (0: fake clock)
  MaxCalls   \* model bound on the calls of pollingFunc; the code has none

ASSUME TimeoutAssumption  == Timeout \in Nat
ASSUME IntervalAssumption == Interval \in Nat \ {0}
ASSUME MaxDelayAssumption == MaxDelay \in Nat
ASSUME MaxCallsAssumption == MaxCalls \in Nat

VARIABLES
  pc,      \* where the polling goroutine is in pollUntilSuccess
  now,     \* clock.Now()
  start,   \* startingTime
  calls,   \* number of calls of pollingFunc made so far
  result,  \* value returned by the last call of pollingFunc
  ok       \* the value pollUntilSuccess returns, once pc = "done"

vars == <<pc, now, start, calls, result, ok>>

PC == {"idle", "loop", "call", "sleep", "done"}

\* Mutants of the deadline check: a non-strict comparison, and a loop that
\* gives up when the next sleep would overshoot the deadline.
BeforeDeadlineLe == now <= start + Timeout
BeforeDeadlineAhead == now + Interval < start + Timeout

\* startingTime.Add(timeout).After(clock.Now())
BeforeDeadline == now < start + Timeout

\* The number of loop iterations whose deadline check can pass when every
\* iteration takes exactly one interval: the calls at 0, Interval, 2*Interval
\* ... that are strictly before Timeout.
CeilDiv(a, b) == (a + b - 1) \div b

-----------------------------------------------------------------------------
Init ==
  /\ pc = "idle"
  /\ now = 0
  /\ start = 0
  /\ calls = 0
  /\ result = FALSE
  /\ ok = FALSE

\* startingTime := factory.clock.Now()
Begin ==
  /\ pc = "idle"
  /\ pc' = "loop"
  /\ start' = now
  /\ UNCHANGED <<now, calls, result, ok>>

\* The for condition holds: enter the loop body.
LoopEnter ==
  /\ pc = "loop"
  /\ BeforeDeadline
  /\ pc' = "call"
  /\ UNCHANGED <<now, start, calls, result, ok>>

\* The for condition fails: NewLine(); return false.
TimeOut ==
  /\ pc = "loop"
  /\ ~BeforeDeadline
  /\ pc' = "done"
  /\ ok' = FALSE
  /\ UNCHANGED <<now, start, calls, result>>

\* pollingFunc() returns true: NewLine(); return true.  The call itself may
\* take up to MaxDelay ticks.
CallConverged ==
  /\ pc = "call"
  /\ calls < MaxCalls
  /\ \E d \in 0..MaxDelay : now' = now + d
  /\ calls' = calls + 1
  /\ result' = TRUE
  /\ pc' = "done"
  /\ ok' = TRUE
  /\ UNCHANGED start

\* pollingFunc() returns false: print a progress dot and go on to Sleep.
CallFailed ==
  /\ pc = "call"
  /\ calls < MaxCalls
  /\ \E d \in 0..MaxDelay : now' = now + d
  /\ calls' = calls + 1
  /\ result' = FALSE
  /\ pc' = "sleep"
  /\ UNCHANGED <<start, ok>>

\* Mutant: the clock's Sleep returns without the clock having advanced.
SleepNoAdvance ==
  /\ pc = "sleep"
  /\ now' = now
  /\ pc' = "loop"
  /\ UNCHANGED <<start, calls, result, ok>>

\* factory.clock.Sleep(1 * time.Second): at least one interval passes.
Sleep ==
  /\ pc = "sleep"
  /\ \E d \in Interval..(Interval + MaxDelay) : now' = now + d
  /\ pc' = "loop"
  /\ UNCHANGED <<start, calls, result, ok>>

Next ==
  \/ Begin
  \/ LoopEnter
  \/ TimeOut
  \/ CallConverged
  \/ CallFailed
  \/ Sleep

\* One goroutine runs the loop; the clock's Sleep returns and each call of
\* the predicate returns (its HTTP client has a timeout), so the loop's
\* next step is never postponed forever.
Spec == Init /\ [][Next]_vars /\ WF_vars(Next)

\* The poller's safety part: what a caller that may never poll implements.
SafetySpec == Init /\ [][Next]_vars

-----------------------------------------------------------------------------
TypeOK ==
  /\ pc \in PC
  /\ now \in Nat
  /\ start \in Nat
  /\ calls \in Nat
  /\ result \in BOOLEAN
  /\ ok \in BOOLEAN

(***************************************************************************)
(* CallBudget: whatever the predicate answers and however slow the calls   *)
(* and sleeps are, pollUntilSuccess never calls the predicate more than    *)
(* ceil(timeout / interval) times.  It depends on the deadline being       *)
(* re-read before every call and on each Sleep lasting a whole interval.   *)
(***************************************************************************)
CallBudget == calls <= CeilDiv(Timeout, Interval)

(***************************************************************************)
(* Outcome: when pollUntilSuccess returns, it returns true exactly when    *)
(* its last call of the predicate returned true, and it returns false only *)
(* once the deadline startingTime + timeout has been reached: it never     *)
(* gives up early and never reports a convergence it did not observe.      *)
(***************************************************************************)
Outcome ==
  pc = "done" =>
    /\ ok = (calls > 0 /\ result)
    /\ ~ok => now >= start + Timeout

(***************************************************************************)
(* ExactCallCount: with the fake clock of the tests (MaxDelay = 0), a      *)
(* predicate that never becomes true is called exactly once per interval   *)
(* that starts before the deadline, ceil(timeout / interval) times, and a  *)
(* predicate that first holds at its k-th call converges after k calls at  *)
(* the time (k - 1) * interval.                                            *)
(***************************************************************************)
ExactCallCount ==
  (MaxDelay = 0 /\ pc = "done") =>
    IF ok THEN now = start + (calls - 1) * Interval
          ELSE calls = CeilDiv(Timeout, Interval)

(***************************************************************************)
(* SpecTimedOutCallCount: spec.md section 8 says that for a predicate that *)
(* never becomes true pollUntilSuccess "returns TimedOut after invoking the *)
(* predicate floor(timeout/interval)+1 times", the first call at t = 0.    *)
(* The loop condition of the code is a strict `After`, so when the timeout *)
(* is a whole number of intervals the call at t = timeout is never made.   *)
(***************************************************************************)
SpecTimedOutCallCount ==
  (MaxDelay = 0 /\ pc = "done" /\ ~ok) => calls = Timeout \div Interval + 1

(***************************************************************************)
(* Terminates: pollUntilSuccess always returns.                            *)
(***************************************************************************)
Terminates == <>(pc = "done")

=============================================================================
