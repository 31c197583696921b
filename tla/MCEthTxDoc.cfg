CONSTANTS
  TxN = 2
  MaxCalls = 4
SPECIFICATION TxFairSpec
INVARIANT ErrOkMeansTaken
CHECK_DEADLOCK FALSE
