SPECIFICATION Spec
CONSTANTS
    Peer = {c, d}
    Stream = {v, a}
    MaxSessions = 2
    Habits = {"patient", "crowding", "returning"}
INVARIANTS
    ConsumersInv
    SessionsMatch
    PatientNeverPanic
PROPERTIES
    ServedInTurn
CHECK_DEADLOCK FALSE
