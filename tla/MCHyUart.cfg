CONSTANTS
  h1 = h1
  h2 = h2
  Handle = {h1, h2}
  NULL = NULL
  MaxCreates = 3
  MaxBytes = 5
SPECIFICATION FairSpec
INVARIANT IsrReadsLiveContext
INVARIANT EveryByteAccounted
PROPERTY OnlyAByteEndsSpin
PROPERTY CallsReturn
CHECK_DEADLOCK FALSE
