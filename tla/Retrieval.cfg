\* A reader of each build type against the worker, with every failure the
\* flow handles, runs that die, and a deletion.
SPECIFICATION RSpec
CONSTANTS
    RawBudget = 8
    UtilPct = 80
    FloorPct = 20
    ChunkPct = 13
    Tier3Pct = 10
    MinChunks = 2
    MaxChunks = 3
    MinLoad = 9
    TokensPerMessage = 1
    LookbackFactor = 3
    MaxLookback = 100
    Worker = worker
    Inline = inline
    NoOne = none
    Creators <- NoCreator
    ChunkSize = 1
    Sizes <- OneToken
    MaxSeq = 7
    MayFail = TRUE
    MayOverflow = TRUE
    MayEscape = TRUE
    MayDelete = TRUE
    Reader = reader
    SummaryTokens = 2
    DomainTokens = 3
    MaxMessages = 5
    BuildTypes <- AllBuildTypes
INVARIANTS
    NeverTwiceInContext
    ContextFits
    NoDoubleCoverage
PROPERTIES
    CoverageOnlyGrows
CHECK_DEADLOCK FALSE
