CONSTANTS
  h1 = h1
  h2 = h2
  Handle = {h1, h2}
  NULL = NULL
  LoadMod = 4
  TickLoad = 3
  StepDelay = 2
  MaxDelay = 5
  NestedDelay = 2
  MaxNested = 2
SPECIFICATION FairSpec
INVARIANT DelayLongEnough
INVARIANT NoTickAfterDelay
PROPERTY DelayReturns
PROPERTY TicksGoOn
CHECK_DEADLOCK FALSE
