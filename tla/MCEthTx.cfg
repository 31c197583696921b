CONSTANTS
  TxN = 3
  MaxCalls = 6
SPECIFICATION TxFairSpec
INVARIANT TxRingWindow
INVARIANT WireFaithful
PROPERTY AllButLastSent
CHECK_DEADLOCK FALSE
