\* One poisonous message, every failure and a migration.
CONSTANTS
    Count = 3
    Poison = {2}
    BatchSize = 2
    Limit = 5
    ProviderMayFail = TRUE
    MayTimeOut = TRUE
    MayDie = TRUE
    MayLoseDb = TRUE
    MayMigrate = TRUE
SPECIFICATION EmbeddingFairSpec
PROPERTIES
    VectorsKept
    EveryMessageServed
\* With every message embedded the loop only polls.
CHECK_DEADLOCK FALSE
