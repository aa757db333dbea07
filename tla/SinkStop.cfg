SPECIFICATION Spec
CONSTANTS
    Pad = {v}
    Peer = {c}
    MaxRuns = 1
    MaxSaid = 1
    Habits = {TRUE}
    Chatty = TRUE
PROPERTIES
    StopEnds
CHECK_DEADLOCK FALSE
