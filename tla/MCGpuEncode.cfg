CONSTANTS
    Encoders = {e1, e2}
    Textures = {t1, t2, t3}
    RawActive = FALSE
    MaxCount = 2
    MaxTicks = 5
    MaxStarts = 2
SPECIFICATION FairSpec
INVARIANTS KeysAgree TakesEachTick QuietOnceStopped
PROPERTY StopReturns
CHECK_DEADLOCK FALSE
