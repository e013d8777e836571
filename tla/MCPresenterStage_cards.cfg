SPECIFICATION Spec
CONSTANTS
    None = None
    Images = {slide}
    Sounds = {}
    Videos = {clip}
    Captures = {camera}
    Instances = {i1, i2, i3}
    MaxChoices = 3
    MaxActs = 1
    Reselects = FALSE
INVARIANTS OneSourceAfterHandover OthersFallSilent
PROPERTY HandoverEnds
CHECK_DEADLOCK FALSE
