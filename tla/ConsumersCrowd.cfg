SPECIFICATION Spec
CONSTANTS
    Peer = {c, d}
    Stream = {v}
    MaxSessions = 2
    Habits = {"crowding"}
PROPERTIES
    AllServed
CHECK_DEADLOCK FALSE
