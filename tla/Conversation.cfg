\* Two storing calls and a prompting one, with a deletion, a recovery and
\* lost connections.
SPECIFICATION FairSpec
CONSTANTS
    s1 = s1
    s2 = s2
    p1 = p1
    Storers <- TwoStorers
    Prompters <- OnePrompter
    NoOne = none
    Null = null
    Roles = {user}
    Senders = {user}
    Contents = {hello, bye}
    UserRole = user
    UserSender = user
    MaxCalls = 3
    MaxDeletes = 1
    MayAbort = TRUE
INVARIANTS
    TypeOK
    CountersMatch
    SeqAlwaysFree
    NoAdjacentDuplicates
    AcknowledgedIsStored
PROPERTIES
    AppendOnly
    ImplementsMessageLog
    CallsReturn
CHECK_DEADLOCK FALSE
