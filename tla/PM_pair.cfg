SPECIFICATION Spec
CONSTANTS
    N = 2
    MinMBlocks = 2
    NoBlock = NoBlock
    PowReady = FALSE
    Importers = {1}
    MaxEarly = 0
    MaxCrash = 1
    MaxRestart = 1
    MaxLoss = 1
    MaxRound = 3
    MaxHeight = 4
INVARIANTS TwoChainCommit ForkNeedsDoubleVote
CHECK_DEADLOCK FALSE
