SPECIFICATION FairSpec
CONSTANTS
    Clients = {"ui", "graphics"}
    Owner = "ui"
    Tasks = {"scene", "input", "filter", "text"}
    Children <- MCChildren
    MaxWaits = 2
INVARIANTS
    SemCountsTasks
    RunsInOrder
    WaitFlushes
PROPERTIES
    OwnerReturns
CHECK_DEADLOCK FALSE
