SPECIFICATION Spec
CONSTANTS
    Writers = {w1}
    Items = {a, b, c}
    Sorts <- MCSorts
    MaxCached = 2
    PruneSize = 1
    None = None
    MaxWork = 3
PROPERTY PruneKeepsTheBest
CHECK_DEADLOCK FALSE
