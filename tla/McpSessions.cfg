\* Three streams compete for one place, three calls for queues of two.
CONSTANTS
    Streams = {s1, s2, s3}
    Calls = {c1, c2, c3}
    MaxSessions = 1
    MaxTotal = 1
    QueueSize = 2
SPECIFICATION SessionsFairSpec
INVARIANTS
    NeverOvercounts
    SessionsBounded
PROPERTIES
    QueuedIsDelivered
\* Every client may be gone.
CHECK_DEADLOCK FALSE
