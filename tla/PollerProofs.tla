---------------------------- MODULE PollerProofs ----------------------------
(***************************************************************************)
(* Proofs about the convergence poller (Poller.tla, pollUntilSuccess), for *)
(* every timeout, interval and delay bound.                                *)
(***************************************************************************)
EXTENDS Poller, TLAPS

(***************************************************************************)
(* The inductive invariant.  CallBudget alone is not inductive: a state    *)
(* that is about to call the predicate must also remember that the         *)
(* deadline check passed (pc = "call" => now < deadline) and that every    *)
(* earlier iteration used up a whole interval (now - start >= calls *      *)
(* Interval).  Outcome needs that the last answer was FALSE whenever the   *)
(* loop is still running.                                                  *)
(***************************************************************************)
\* The numeric and Boolean parts of TypeOK, proved by different backends.
NumOK  == pc \in PC /\ now \in Nat /\ start \in Nat /\ calls \in Nat
BoolOK == result \in BOOLEAN /\ ok \in BOOLEAN

Clock ==
  /\ start <= now
  /\ pc = "idle" => calls = 0
  /\ pc \in {"loop", "call"} => now >= start + calls * Interval
  /\ pc = "call" => now < start + Timeout
  /\ pc = "sleep" => calls >= 1 /\ now >= start + (calls - 1) * Interval
  /\ calls = 0 \/ (calls - 1) * Interval < Timeout
  /\ pc # "done" => ~result

IInv == TypeOK /\ Clock /\ Outcome

USE TimeoutAssumption, IntervalAssumption, MaxDelayAssumption

\* A count whose predecessor's intervals end before the timeout is within
\* the budget ceil(Timeout / Interval).
LEMMA BudgetArith ==
  ASSUME NEW c \in Nat, c = 0 \/ (c - 1) * Interval < Timeout
  PROVE  c <= CeilDiv(Timeout, Interval)
<1>1. CASE c = 0
  BY <1>1, SMT DEF CeilDiv
<1>2. CASE c # 0
  <2>1. c * Interval <= Timeout + Interval - 1
    BY <1>2, SMT
  <2>2. QED
    BY <2>1, SMT DEF CeilDiv
<1>3. QED
  BY <1>1, <1>2

LEMMA TypeOKParts == TypeOK <=> NumOK /\ BoolOK
BY DEF TypeOK, NumOK, BoolOK

LEMMA InitIInv == Init => IInv
<1> SUFFICES ASSUME Init PROVE IInv
  OBVIOUS
<1>1. NumOK /\ start <= now
  BY DEF Init, NumOK, PC
<1>2. BoolOK
  BY Zenon DEF Init, BoolOK
<1>3. pc = "idle" /\ calls = 0 /\ ~result
  BY DEF Init
<1>4. QED
  BY <1>1, <1>2, <1>3, TypeOKParts DEF IInv, Clock, Outcome

\* Every step keeps result and ok Boolean.
LEMMA NextBoolOK == BoolOK /\ [Next]_vars => BoolOK'
BY Zenon DEF BoolOK, Next, vars, Begin, LoopEnter, TimeOut, CallConverged,
             CallFailed, Sleep

LEMMA NextIInv == IInv /\ [Next]_vars => IInv'
<1> SUFFICES ASSUME IInv, [Next]_vars PROVE IInv'
  OBVIOUS
<1>0. BoolOK'
  BY NextBoolOK, TypeOKParts DEF IInv
<1> SUFFICES NumOK' /\ Clock' /\ Outcome'
  BY <1>0, Zenon DEF IInv, TypeOK, NumOK, BoolOK
<1> USE DEF IInv, TypeOK, NumOK, PC, Clock, Outcome, BeforeDeadline
<1>1. CASE Begin
  BY <1>1 DEF Begin
<1>2. CASE LoopEnter
  BY <1>2 DEF LoopEnter
<1>3. CASE TimeOut
  <2>1. Clock'
    BY <1>3 DEF TimeOut
  <2>2. now' >= start' + Timeout
    BY <1>3 DEF TimeOut
  <2>3. ~result' /\ ok' = FALSE /\ pc' = "done"
    BY <1>3, Zenon DEF TimeOut
  <2>4. Outcome'
    BY <2>2, <2>3, Zenon
  <2>5. QED
    BY <1>3, <2>1, <2>4 DEF TimeOut
<1>4. CASE CallConverged
  <2>1. PICK d \in 0..MaxDelay : now' = now + d
    BY <1>4 DEF CallConverged
  <2>2. calls' = calls + 1 /\ calls * Interval < Timeout
    BY <1>4 DEF CallConverged
  <2>3. (NumOK /\ Clock)'
    BY <1>4, <2>1, <2>2 DEF CallConverged
  <2>4. calls' > 0
    BY <2>2
  <2>5. result' = TRUE /\ ok' = TRUE
    BY <1>4, Zenon DEF CallConverged
  <2>6. Outcome'
    BY <2>4, <2>5, Zenon
  <2>7. QED
    BY <2>3, <2>6
<1>5. CASE CallFailed
  <2>1. PICK d \in 0..MaxDelay : now' = now + d
    BY <1>5 DEF CallFailed
  <2>2. calls' = calls + 1 /\ calls * Interval < Timeout
    BY <1>5 DEF CallFailed
  <2>3. QED
    BY <1>5, <2>1, <2>2 DEF CallFailed
<1>6. CASE Sleep
  <2>1. PICK d \in Interval..(Interval + MaxDelay) : now' = now + d
    BY <1>6 DEF Sleep
  <2>2. (calls - 1) * Interval + Interval = calls * Interval
    BY <1>6 DEF Sleep
  <2>3. QED
    BY <1>6, <2>1, <2>2 DEF Sleep
<1>7. CASE UNCHANGED vars
  BY <1>7 DEF vars
<1>8. QED
  BY <1>1, <1>2, <1>3, <1>4, <1>5, <1>6, <1>7 DEF Next

LEMMA IInvInvariant == Spec => []IInv
BY InitIInv, NextIInv, PTL DEF Spec

(***************************************************************************)
(* Type correctness of pollUntilSuccess's state.                           *)
(***************************************************************************)
THEOREM TypeCorrect == Spec => []TypeOK
BY IInvInvariant, PTL DEF IInv

(***************************************************************************)
(* pollUntilSuccess calls its predicate at most ceil(timeout / interval)   *)
(* times, for every timeout, interval and delay.                           *)
(***************************************************************************)
THEOREM CallBudgetHolds == Spec => []CallBudget
<1>1. IInv => CallBudget
  BY BudgetArith DEF IInv, TypeOK, Clock, CallBudget
<1>2. QED
  BY <1>1, IInvInvariant, PTL DEF Spec

(***************************************************************************)
(* pollUntilSuccess returns true exactly when its last call of the         *)
(* predicate did, and returns false only at or after the deadline.         *)
(***************************************************************************)
THEOREM OutcomeHolds == Spec => []Outcome
BY IInvInvariant, PTL DEF IInv

(***************************************************************************)
(* The call budget and the outcome rest on the poller's steps alone, not   *)
(* on its fairness: they hold for SafetySpec, and so for every caller that *)
(* implements SafetySpec (the command handlers, CommandsProofs).           *)
(***************************************************************************)
THEOREM SafetyHolds == SafetySpec => [](CallBudget /\ Outcome)
<1>1. SafetySpec => []IInv
  BY InitIInv, NextIInv, PTL DEF SafetySpec
<1>2. IInv => CallBudget /\ Outcome
  BY BudgetArith DEF IInv, TypeOK, Clock, CallBudget
<1>3. QED
  BY <1>1, <1>2, PTL


(***************************************************************************)
(* Under the fake clock (MaxDelay = 0) time passes only in Sleep, by one   *)
(* interval, so the clock is determined by the number of calls: Exact is   *)
(* the strengthening ExactCallCount needs, on top of IInv.                 *)
(***************************************************************************)
Exact ==
  MaxDelay = 0 =>
    /\ pc \in {"loop", "call"} => now = start + calls * Interval
    /\ pc = "sleep" => calls >= 1 /\ now = start + (calls - 1) * Interval
    /\ pc = "done" /\ ok => calls >= 1 /\ now = start + (calls - 1) * Interval
    /\ pc = "done" /\ ~ok => calls = CeilDiv(Timeout, Interval)

\* A count whose last interval ends at or after the timeout, and whose
\* predecessor's intervals end before it, is exactly ceil(Timeout / Interval).
LEMMA CeilExact ==
  ASSUME NEW c \in Nat, c * Interval >= Timeout,
         c = 0 \/ (c - 1) * Interval < Timeout
  PROVE  c = CeilDiv(Timeout, Interval)
<1>1. c * Interval <= Timeout + Interval - 1
  BY SMT
<1>2. Timeout + Interval - 1 < (c + 1) * Interval
  BY SMT
<1>3. QED
  BY <1>1, <1>2, SMT DEF CeilDiv

LEMMA ExactInit == Init => Exact
BY DEF Init, Exact

LEMMA ExactStep == IInv /\ Exact /\ [Next]_vars => Exact'
<1> SUFFICES ASSUME IInv, Exact, [Next]_vars, MaxDelay = 0 PROVE Exact'
  BY DEF Exact
<1> USE DEF IInv, TypeOK, Clock, Exact
<1>1. CASE Begin
  BY <1>1 DEF Begin
<1>2. CASE LoopEnter
  BY <1>2 DEF LoopEnter
<1>3. CASE TimeOut
  <2>1. now >= start + Timeout /\ now = start + calls * Interval
    BY <1>3 DEF TimeOut, BeforeDeadline
  <2>2. calls = CeilDiv(Timeout, Interval)
    BY <2>1, CeilExact
  <2>3. QED
    BY <1>3, <2>2 DEF TimeOut
<1>4. CASE CallConverged
  <2>1. now' = now /\ calls' = calls + 1 /\ pc' = "done" /\ start' = start
    BY <1>4 DEF CallConverged
  <2>2. QED
    BY <2>1, <1>4 DEF CallConverged
<1>5. CASE CallFailed
  <2>1. now' = now /\ calls' = calls + 1 /\ pc' = "sleep" /\ start' = start
    BY <1>5 DEF CallFailed
  <2>2. QED
    BY <2>1, <1>5 DEF CallFailed
<1>6. CASE Sleep
  <2>1. now' = now + Interval /\ pc' = "loop" /\ UNCHANGED <<start, calls>>
    BY <1>6 DEF Sleep
  <2>2. QED
    BY <2>1, <1>6 DEF Sleep
<1>7. CASE UNCHANGED vars
  BY <1>7 DEF vars
<1>8. QED
  BY <1>1, <1>2, <1>3, <1>4, <1>5, <1>6, <1>7 DEF Next

(***************************************************************************)
(* Under the fake clock of the tests, for every timeout and interval: a    *)
(* poll that times out has called the predicate exactly                    *)
(* ceil(timeout / interval) times, and one that converges at its k-th call *)
(* returns at (k - 1) intervals after it started (lines 437-447).          *)
(***************************************************************************)
THEOREM ExactCallCountHolds == Spec => []ExactCallCount
<1>1. Spec => [](IInv /\ Exact)
  BY InitIInv, NextIInv, ExactInit, ExactStep, PTL DEF Spec
<1>2. Exact => ExactCallCount
  BY DEF Exact, ExactCallCount
<1>3. QED
  BY <1>1, <1>2, PTL


(***************************************************************************)
(* StepMonotone, an action property: no step of pollUntilSuccess moves the  *)
(* clock backwards, a step after startingTime was read (line 436) never     *)
(* changes it, so the deadline the loop condition of line 437 compares      *)
(* against is fixed, the call count never decreases, and once the function  *)
(* has returned its answer never changes.                                   *)
(***************************************************************************)
StepMonotone ==
  /\ now' >= now
  /\ calls' >= calls
  /\ pc # "idle" => start' = start
  /\ pc = "done" => pc' = "done" /\ ok' = ok

(***************************************************************************)
(* Every step of the poller satisfies StepMonotone, for all constants.      *)
(***************************************************************************)
THEOREM StepMonotoneHolds == Spec => [][StepMonotone]_vars
<1>1. IInv /\ [Next]_vars => [StepMonotone]_vars
  <2> SUFFICES ASSUME IInv, [Next]_vars PROVE [StepMonotone]_vars
    OBVIOUS
  <2>1. now \in Nat /\ calls \in Nat
    BY DEF IInv, TypeOK
  <2>2. CASE Begin
    BY <2>1, <2>2 DEF Begin, StepMonotone
  <2>3. CASE LoopEnter
    BY <2>1, <2>3 DEF LoopEnter, StepMonotone
  <2>4. CASE TimeOut
    BY <2>1, <2>4 DEF TimeOut, StepMonotone
  <2>5. CASE CallConverged
    BY <2>1, <2>5 DEF CallConverged, StepMonotone
  <2>6. CASE CallFailed
    BY <2>1, <2>6 DEF CallFailed, StepMonotone
  <2>7. CASE Sleep
    BY <2>1, <2>7 DEF Sleep, StepMonotone
  <2>8. CASE UNCHANGED vars
    BY <2>8 DEF vars
  <2>9. QED
    BY <2>2, <2>3, <2>4, <2>5, <2>6, <2>7, <2>8 DEF Next
<1>2. QED
  BY <1>1, IInvInvariant, PTL DEF Spec

=============================================================================
