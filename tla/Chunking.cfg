SPECIFICATION Spec
CONSTANTS
    None = None
    IncludeReferences = FALSE
    IncludeAppendix = TRUE
    Lines <- MCLines
    MaxLines = 5
    MaxTokens = 32
    MinTokens = 16
    Overlap = 10
    MaxChunks = 5
CHECK_DEADLOCK FALSE
INVARIANT ChunksFit
INVARIANT OverlapIsTail
INVARIANT LostToCapOrNoise
PROPERTY MergesCrossSections
