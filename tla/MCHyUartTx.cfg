CONSTANTS
  CountMax = 3
  IMod = 4
  MaxLen = 4
  MaxCalls = 4
  MaxEchoes = 2
  MaxWire = 11
SPECIFICATION FairSpec
INVARIANT OverwriteNeedsGiveUp
INVARIANT LineInOrder
INVARIANT CountMatchesLine
PROPERTY SendReturns
CHECK_DEADLOCK FALSE
