CONSTANTS
    Video = {v1, v2}
    Audio = {a1}
    FirstVideo = v1
    Interval = 3
    Shapes <- MCShapes
    Patient = TRUE
    MaxDelay = 6
    MaxTime = 26
    MaxPauses = 2
SPECIFICATION PauseSpec
INVARIANTS KeepsExactly CanGoOn
CHECK_DEADLOCK FALSE
