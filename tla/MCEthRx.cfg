CONSTANTS
  N = 3
  Pool = 3
  MaxSize = 2
  MaxFrames = 5
SPECIFICATION FairSpec
INVARIANT RingWindow
INVARIANT Conservation
PROPERTY InOrder
PROPERTY RingDrains
CHECK_DEADLOCK FALSE
