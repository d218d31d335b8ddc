\* Two webhook calls for two events: a retry, an overflow of the remembered
\* ids, an outage, a restart and edits of the one instruction.
CONSTANTS
    Calls = {c1, c2}
    Events = {e1, e2}
    Nothing = nothing
    push1 = push1
    push2 = push2
    file = file
    pager = pager
    ChannelLists <- MCChannelLists
    DefaultChannels <- MCDefaultChannels
    TypeOf <- MCTypeOf
    RetryCount = 1
    SeenMax = 1
    EvictCount = 1
SPECIFICATION FairSpec
INVARIANTS
    OncePerChannel
    DuplicatesHavePrecedent
    HistoryIsTrue
PROPERTIES
    EveryEventTried
CHECK_DEADLOCK FALSE
