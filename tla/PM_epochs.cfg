SPECIFICATION FairSpec
CONSTANTS
    N = 2
    MinMBlocks = 3
    NoBlock = NoBlock
    PowReady = TRUE
    Importers = {0}
    MaxEarly = 0
    MaxCrash = 0
    MaxRestart = 0
    MaxLoss = 2
    MaxRound = 0
    MaxHeight = 7
PROPERTIES EpochCatchesUp
CHECK_DEADLOCK FALSE
