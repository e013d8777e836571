SPECIFICATION FairSpec
CONSTANTS
    Ui = Ui
    ConnectThread = ConnectThread
    SendThread = SendThread
    EndThread = EndThread
    EncoderThread = EncoderThread
    RetryMax = 2
    MaxThreads = 8
    Courses <- AllSessions
    LateLoss = TRUE
    EarlyForce = TRUE
CHECK_DEADLOCK FALSE
INVARIANTS EverythingReset
PROPERTIES TellsASession UserIsAnswered
