SPECIFICATION ScheduleSpec
CONSTANTS
    N = 3
    MinMBlocks = 9
    NoBlock = NoBlock
    PowReady = FALSE
    Importers = {}
    MaxEarly = 10
    MaxCrash = 1
    MaxRestart = 1
    MaxLoss = 0
    MaxRound = 6
    MaxHeight = 5
    Schedule <- StraySchedule
INVARIANTS VotesFollowQC
CHECK_DEADLOCK FALSE
