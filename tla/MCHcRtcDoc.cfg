CONSTANTS
  Base = 2
  TimeOut = 3
SPECIFICATION Spec
INVARIANT GaveUpMeansTimeout
CHECK_DEADLOCK FALSE
