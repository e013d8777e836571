SPECIFICATION FairSpec
CONSTANTS
    CacheSize = 2
    Inputs = {"full", "half"}
    Divisor <- MCDivisor
    Failing = {"full"}
    MaxCount = 2
    MaxTicks = 5
    MaxChanges = 2
    MaxSkips = 1
INVARIANTS
    NeverSharesSlot
    DeliversEveryTick
    WakesForEachFrame
    SkipsCountedOnce
    InputCadence
PROPERTIES
    StopReturns
    ImplementsQueue
CHECK_DEADLOCK FALSE
