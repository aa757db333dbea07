SPECIFICATION RateSpec
CONSTANTS
    Word = 1024
    MinBitrate = 50
    MaxBitrate = 54
    Starts = {45, 52, 60}
    Growths = {108}
    Additions = {1}
    Received = {0, 35, 1023}
    Losses = {0, 5, 20}
INVARIANTS
    RateInv
PROPERTIES
    OveruseLowers
    HeedsLoss
    Recovers
CHECK_DEADLOCK FALSE
