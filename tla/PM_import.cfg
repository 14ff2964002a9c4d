SPECIFICATION ScheduleSpec
CONSTANTS
    N = 4
    MinMBlocks = 9
    NoBlock = NoBlock
    PowReady = FALSE
    Importers = {1}
    MaxEarly = 0
    MaxCrash = 0
    MaxRestart = 0
    MaxLoss = 0
    MaxRound = 5
    MaxHeight = 5
    Schedule <- ImportSchedule
INVARIANTS NoPanic
CHECK_DEADLOCK FALSE
