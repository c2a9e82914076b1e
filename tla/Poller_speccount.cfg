\* spec.md's call count for a predicate that never holds, under the fake clock.
CONSTANTS
  Timeout  <- FakeTimeout
  Interval <- FakeInterval
  MaxDelay <- FakeDelay
  MaxCalls <- FakeMaxCalls
SPECIFICATION Spec
INVARIANT SpecTimedOutCallCount
\* pollUntilSuccess returns: its final state has no successor.
CHECK_DEADLOCK FALSE
