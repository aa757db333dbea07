SPECIFICATION Spec
CONSTANTS
    Pad = {v, a}
    Peer = {c}
    MaxRuns = 2
    MaxSaid = 1
    Habits = {TRUE, FALSE}
    Chatty = TRUE
SYMMETRY Pads
INVARIANTS
    SinkInv
    CapsAreThere
    PatientIsQuiet
PROPERTIES
    NoOrphan
CHECK_DEADLOCK FALSE
