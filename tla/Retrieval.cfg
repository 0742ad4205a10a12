SPECIFICATION Spec
CONSTANTS
    None = None
    Chunks <- MCChunks
    Paper <- MCPaper
    Version <- MCVersion
    Words <- MCWords
    Cost <- MCCost
    Weights <- MCWeights
    RrfK = 60
    Deduplicate = TRUE
    Similarity = 90
    MaxPerPaper = 2
    Pool = 3
    TopK = 3
    RerankTop = 2
    Budget = 8
    Limits = {0, 3}
    KValues = {1, 2, 4}
    Deepest = 4
    Gain <- MCGain
CHECK_DEADLOCK FALSE
PROPERTY RankedFairly
INVARIANT ContextIsFaithful
PROPERTY RerankLosesNothing
INVARIANT ScoresMeanWhatTheySay
