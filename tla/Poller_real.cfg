\* pollUntilSuccess under the real clock: slow calls and oversleeping.
CONSTANTS
  Timeout  <- RealTimeout
  Interval <- RealInterval
  MaxDelay <- RealDelay
  MaxCalls <- RealMaxCalls
SPECIFICATION Spec
INVARIANTS CallBudget Outcome
PROPERTIES Terminates
\* pollUntilSuccess returns: its final state has no successor.
CHECK_DEADLOCK FALSE
