SPECIFICATION Spec
CONSTANTS
    Courses <- MCCourses
    KeyEvery = 2
    NoTime <- MCNoTime
    MaxPackets = 7
INVARIANTS
    SentInOrder
    UnbrokenFromKey
    StartsTogether
    BeginsInTime
CHECK_DEADLOCK FALSE
