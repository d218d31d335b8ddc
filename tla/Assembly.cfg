\* The worker and the creating request on one window; either may die
\* between two nodes and is started again.
SPECIFICATION FairSpec
CONSTANTS
    RawBudget = 8
    UtilPct = 80
    FloorPct = 20
    ChunkPct = 13
    Tier3Pct = 10
    MinChunks = 2
    MaxChunks = 3
    MinLoad = 9
    TokensPerMessage = 1
    LookbackFactor = 3
    MaxLookback = 100
    Worker = worker
    Inline = inline
    NoOne = none
    Creators <- OneCreator
    ChunkSize = 1
    Sizes <- OneToken
    MaxSeq = 6
    MayFail = FALSE
    MayOverflow = FALSE
    MayEscape = TRUE
    MayDelete = FALSE
INVARIANTS
    NothingSkipped
PROPERTIES
    CatchesUp
CHECK_DEADLOCK FALSE
