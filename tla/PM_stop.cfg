SPECIFICATION Spec
CONSTANTS
    N = 2
    MinMBlocks = 2
    NoBlock = NoBlock
    PowReady = TRUE
    Importers = {}
    MaxEarly = 0
    MaxCrash = 0
    MaxRestart = 0
    MaxLoss = 0
    MaxRound = 2
    MaxHeight = 6
INVARIANTS AtMostTwoSBlocks
CHECK_DEADLOCK FALSE
