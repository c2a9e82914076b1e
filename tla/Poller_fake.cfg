\* pollUntilSuccess under the fake clock of the tests.
CONSTANTS
  Timeout  <- FakeTimeout
  Interval <- FakeInterval
  MaxDelay <- FakeDelay
  MaxCalls <- FakeMaxCalls
SPECIFICATION Spec
INVARIANTS CallBudget Outcome ExactCallCount
PROPERTIES Terminates
\* pollUntilSuccess returns: its final state has no successor.
CHECK_DEADLOCK FALSE
