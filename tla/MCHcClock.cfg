CONSTANTS
  Source = {"RCH", "XTH", "PLL"}
  Freq <- MCFreq
  Trims = {4, 24}
  Muls = {3}
  MaxPrs = 1
SPECIFICATION FairSpec
INVARIANT RunningSourceOn
INVARIANT GatesRestored
INVARIANT CoreClockFresh
INVARIANT PllWithinLimit
PROPERTY CallsReturn
CHECK_DEADLOCK FALSE
