CONSTANTS
  h1 = h1
  h2 = h2
  NULL = NULL
  Handle <- MCHandle
  Num <- MCNum
  HY_TIME_2 <- MCHyTime2
SPECIFICATION FairSpec
INVARIANT IsrReadsLiveContext
INVARIANT SilentIfCreatedStopped
PROPERTY StormNeverEnds
PROPERTY CallsReturn
PROPERTY RunningTimerFires
