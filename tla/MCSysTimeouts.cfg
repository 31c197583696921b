CONSTANT W = 12
CONSTANT Late = 2
CONSTANT CyclicTimers <- MCCyclicTimers
CONSTANT TcpInterval = 2
CONSTANT Shots = {"shot"}
CONSTANT Delays = {0, 2}
CONSTANT PoolSize = 4
SPECIFICATION FairSpec
INVARIANT TimersKept
PROPERTY InDueOrder
PROPERTY CheckReturns
CHECK_DEADLOCK FALSE
