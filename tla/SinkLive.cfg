SPECIFICATION Spec
CONSTANTS
    Pad = {v}
    Peer = {c}
    MaxRuns = 2
    MaxSaid = 2
    Habits = {FALSE}
    Chatty = FALSE
PROPERTIES
    StopEnds
CHECK_DEADLOCK FALSE
