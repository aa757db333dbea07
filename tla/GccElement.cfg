SPECIFICATION Spec
CONSTANTS
    First = {65534}
    Jumps <- NearAndFar
    Arrivals = {1, 4}
    Window = 2
    MaxReports = 3
    BufferBits = 2
    Earnings = {1, 3}
    MaxHeld = 3
    MaxBuffers = 3
    MaxCredit = 2
    MaxRuns = 2
INVARIANTS
    ElementInv
    NumbersAreTrue
PROPERTIES
    BuffersFlow
CHECK_DEADLOCK FALSE
