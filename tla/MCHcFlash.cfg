CONSTANT TimeOut = 2
SPECIFICATION FlashSpec
INVARIANT LockedBetweenCalls
INVARIANT OkMeansDone
INVARIANT OnlyWhatIsAsked
