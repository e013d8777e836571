SPECIFICATION FairSpec
CONSTANTS
    Ui = Ui
    ConnectThread = ConnectThread
    SendThread = SendThread
    EndThread = EndThread
    EncoderThread = EncoderThread
    RetryMax = 1
    MaxThreads = 2
    Courses <- StopAndLoss
    LateLoss = TRUE
    EarlyForce = TRUE
CHECK_DEADLOCK FALSE
INVARIANT ToldOfTheEnd
