SPECIFICATION Spec
CONSTANTS
    Word = 1024
    Checked = TRUE
    DefaultMin = 40
    DefaultMax = 40
    FecFrom = 50
    Additions = {1, 5}
    AskedMin = {70}
    AskedMax = {40, 50}
    Starts = {30, 50, 500}
    Units = {4}
    MaxVideos = 2
    Excesses = {0, 5, 40}
    Estimates = {40, 45, 55, 60, 700, 1000}
CHECK_DEADLOCK FALSE
INVARIANTS
    BitratesInv
    SensibleNeverPanics
    EstimateHolds
PROPERTIES
    OpsKeepTheirSign
    Recovers
