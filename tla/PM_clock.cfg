SPECIFICATION Spec
CONSTANTS
    N = 3
    MinMBlocks = 2
    NoBlock = NoBlock
    PowReady = TRUE
    Importers = {0}
    MaxEarly = 0
    MaxCrash = 0
    MaxRestart = 0
    MaxLoss = 0
    MaxRound = 0
    MaxHeight = 3
INVARIANTS RoundTimerRuns
CHECK_DEADLOCK FALSE
