SPECIFICATION FairSpec
CONSTANTS
    Turns = {t1, t2}
    None = None
    MaxConvs = 3
    MaxSteps = 2
    MaxSearches = 2
    MaxRestarts = 1
    MaxActors = 2
INVARIANT StoredOnce
INVARIANT QuestionBeforeAnswer
INVARIANT FileFollowsMemory
PROPERTY TurnsReturn
CHECK_DEADLOCK FALSE
