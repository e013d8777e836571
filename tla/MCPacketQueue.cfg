SPECIFICATION FairSpec
CONSTANTS
    Courses <- MCCourses
    Gap = 2
    Few = 3
    DropB = 2
    DropP = 4
    Trigger = 2
    IncTimer = 2
    Original = 200
    Increase = 100
    Least = 50
    Grain = 100
    Estimates = {0, 60, 140}
INVARIANTS Playable BitrateReturns
PROPERTIES SenderAnswers
CHECK_DEADLOCK FALSE
