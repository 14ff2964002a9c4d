SPECIFICATION Spec
CONSTANTS
    N = 3
    MinMBlocks = 2
    NoBlock = NoBlock
    PowReady = FALSE
    Importers = {}
    MaxEarly = 0
    MaxCrash = 0
    MaxRestart = 0
    MaxLoss = 0
    MaxRound = 0
    MaxHeight = 2
PROPERTIES OnlyOutdatedVotesDropped
CHECK_DEADLOCK FALSE
