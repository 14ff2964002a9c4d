SPECIFICATION Spec
CONSTANTS
    N = 3
    MinMBlocks = 2
    NoBlock = NoBlock
    PowReady = FALSE
    Importers = {}
    MaxEarly = 2
    MaxCrash = 0
    MaxRestart = 0
    MaxLoss = 0
    MaxRound = 3
    MaxHeight = 2
INVARIANTS TypeOK CertifiedAncestry TwoChainCommit OneVotePerRound RoundTimerRuns
CHECK_DEADLOCK FALSE
