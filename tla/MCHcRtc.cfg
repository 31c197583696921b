CONSTANTS
  Base = 2
  TimeOut = 3
SPECIFICATION FairSpec
INVARIANT ReadIsSnapshot
INVARIANT SetInWindow
INVARIANT StoppedByTimeout
PROPERTY CallsReturn
CHECK_DEADLOCK FALSE
