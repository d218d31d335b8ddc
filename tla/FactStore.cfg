\* Two extractions or calls of the tool, the worker and a search, with every
\* failure, a restart and a deletion.
CONSTANTS
    Adders = {a1, a2}
    Worker = worker
    Facts = {f1}
    Nothing = nothing
    MaxIds = 2
    MaxTime = 1
    MayCrash = TRUE
    MayFail = TRUE
    MayDelete = TRUE
SPECIFICATION FairSpec
INVARIANTS
    ExpiredNotReturned
PROPERTIES
    FactsAccounted
    RowsOutliveFacts
    ExpiredFactsGo
CHECK_DEADLOCK FALSE
