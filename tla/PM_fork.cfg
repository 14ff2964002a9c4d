SPECIFICATION ScheduleSpec
CONSTANTS
    N = 3
    MinMBlocks = 9
    NoBlock = NoBlock
    PowReady = FALSE
    Importers = {}
    MaxEarly = 4
    MaxCrash = 0
    MaxRestart = 0
    MaxLoss = 0
    MaxRound = 5
    MaxHeight = 5
    Schedule <- ForkSchedule
INVARIANTS Agreement
CHECK_DEADLOCK FALSE
