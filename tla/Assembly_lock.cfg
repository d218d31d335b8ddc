\* The advisory lock does not keep the two assemblers apart.
SPECIFICATION Spec
CONSTANTS
    RawBudget = 10
    UtilPct = 80
    FloorPct = 20
    ChunkPct = 13
    Tier3Pct = 10
    MinChunks = 2
    MaxChunks = 3
    MinLoad = 9
    TokensPerMessage = 1
    LookbackFactor = 3
    MaxLookback = 100
    Worker = worker
    Inline = inline
    NoOne = none
    Creators <- OneCreator
    ChunkSize = 2
    Sizes <- OneToken
    MaxSeq = 3
    MayFail = FALSE
    MayOverflow = FALSE
    MayEscape = FALSE
    MayDelete = FALSE
INVARIANTS
    MutualExclusion
CHECK_DEADLOCK FALSE
